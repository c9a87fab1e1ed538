----------------------------- MODULE ConfigFile -----------------------------
(***************************************************************************)
(* From the rules of the configuration file to those the proxies check:     *)
(* the deserializers of src/config, and the split of the rules by access.   *)
(*                                                                         *)
(* A scalar of the file says whether a brace opens and closes it, what is   *)
(* between or beside the braces, and whether YAML takes it for a string.    *)
(* A path of the file is the sequence of its segments between slashes.      *)
(* None is a field that is not in the file.                                 *)
(***************************************************************************)
EXTENDS Rules

Rendered(s) == (IF s.open THEN "{" ELSE "") \o s.text \o (IF s.close THEN "}" ELSE "")

\* Binding::from_str: only both braces make a variable.
FromStr(s) == IF s.open /\ s.close THEN Variable(s.text) ELSE Literal(Rendered(s))

\* deserialize_path_segments: the empty path has no segments.
PathSegments(path) ==
    LET segments[n \in 0..Len(path)] ==
            IF n = 0 THEN <<>>
            ELSE IF Rendered(path[n]) # "" THEN Append(segments[n - 1], FromStr(path[n]))
            ELSE segments[n - 1]
    IN  segments[Len(path)]

\* EntityMatch is untagged: an entry that is not Extract (EqualsOrExtract),
\* its value missing or no string, is Exists, which ignores a value.
Entity(e) == IF e.value # None /\ e.value.string THEN Extract(e.name, FromStr(e.value))
                                                 ELSE Exists(e.name)

Entities(entries) == IF entries = None THEN <<>>
                     ELSE [i \in DOMAIN entries |-> Entity(entries[i])]

HttpRequestMatch(m) ==
    [path    |-> IF m.path = None THEN None ELSE PathSegments(m.path),
     methods |-> IF m.methods = None THEN None ELSE {Lower(x) : x \in m.methods},
     headers |-> Entities(m.headers),
     query   |-> Entities(m.query)]

GrpcRequestMatch(m) ==
    [service |-> m.service, methods |-> m.methods, headers |-> Entities(m.headers)]

RequestMatch(protocol, m) == IF protocol = "http" THEN HttpRequestMatch(m)
                                                  ELSE GrpcRequestMatch(m)

SarFields == {"namespace", "api_group", "api_version", "resource", "sub_resource", "verb"}

\* Mutant: a field that is not in the file is not there.
FieldsInFile(sar) == [f \in DOMAIN sar |-> FromStr(sar[f])]

\* A field of a review is read as a string, whatever YAML takes it for.
SarAttributes(sar) == [f \in SarFields |-> IF f \in DOMAIN sar THEN FromStr(sar[f]) ELSE None]

\* Access: no-auth, or the attributes of a SubjectAccessReview.
NoAuth == [kind |-> "no-auth"]
Sar(sar) == [kind |-> "sar-resource-attributes", attributes |-> sar]

\* What becomes of one rule of the file, in the list that its access selects.
SarRule(protocol, raw) == [name |-> raw.name, matches |-> RequestMatch(protocol, raw.matches),
                           sar |-> SarAttributes(raw.access.attributes)]

NoAuthRule(protocol, raw) == [name |-> raw.name, matches |-> RequestMatch(protocol, raw.matches)]

ReadRule(protocol, raw) == IF raw.access = NoAuth THEN NoAuthRule(protocol, raw)
                                                  ELSE SarRule(protocol, raw)

\* What the loop of From<RawProtocolConfig> has in one of its lists after the
\* first n rules of the file: those that are open (no-auth), or those that are not.
ReadUpTo(protocol, file, open) ==
    LET list[n \in 0..Len(file)] ==
            IF n = 0 THEN <<>>
            ELSE IF (file[n].access = NoAuth) = open
              THEN Append(list[n - 1], ReadRule(protocol, file[n]))
            ELSE list[n - 1]
    IN  list

SarRules(protocol, file)    == ReadUpTo(protocol, file, FALSE)[Len(file)]
NoAuthRules(protocol, file) == ReadUpTo(protocol, file, TRUE)[Len(file)]
=============================================================================
