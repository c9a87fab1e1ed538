------------------------------- MODULE Startup -------------------------------
(***************************************************************************)
(* The start of the program: main (src/main.rs) up to run_forever, with     *)
(* init_tracing and load_config, which lays a secret file over the          *)
(* configuration file.                                                     *)
(*                                                                         *)
(* A file is a YAML tree: a table, or a leaf of some kind.  Lists, those of *)
(* rules among them, are leaves (ConfigFile has what is in a rule).  A leaf *)
(* is a number or a list if it is one that its field takes.  What the       *)
(* config crate, serde and clap do is modelled by its results; binding the  *)
(* listeners is pingora's.                                                  *)
(***************************************************************************)
EXTENDS Option, Integers, Sequences

CONSTANTS
    CommandLines,  \* [json_logs], or None for one that clap rejects
    ConfigFiles,   \* trees, Malformed, or Absent for a file that is not there
    SecretFiles    \* the same

Leaf(kind, value) == [kind |-> kind, value |-> value]
Table(fields)     == [kind |-> "table", fields |-> fields]
Null              == Leaf("null", "")
Malformed         == Leaf("malformed", "")
Absent            == Leaf("absent", "")

Fields(tree) == IF tree.kind = "table" THEN tree.fields ELSE <<>>

Field(tree, key) == IF key \in DOMAIN Fields(tree) THEN Fields(tree)[key] ELSE Absent

(* What is at the first n keys of a path.  No setting is below four keys.   *)
At(tree, path, n) ==
    LET first  == Field(tree, path[1])
        second == Field(first, path[2])
        third  == Field(second, path[3])
    IN  CASE n = 1 -> first [] n = 2 -> second [] n = 3 -> third
          [] n = 4 -> Field(third, path[4])

Get(tree, path) == At(tree, path, Len(path))

(* Tables are merged key by key; anything else, null and lists included,    *)
(* takes the place of what is there.  A merged setting is one of the two    *)
(* files' whatever it has below it.                                         *)
Merge(under, over, fields) ==
    IF over.kind = "absent" THEN under
    ELSE IF over.kind # "table" THEN over ELSE Table(fields)

Keys(under, over) == DOMAIN Fields(under) \union DOMAIN Fields(over)

Overlaid4(under, over) == Merge(under, over, Fields(over))

Overlaid3(under, over) ==
    Merge(under, over, [k \in Keys(under, over) |-> Overlaid4(Field(under, k), Field(over, k))])

Overlaid2(under, over) ==
    Merge(under, over, [k \in Keys(under, over) |-> Overlaid3(Field(under, k), Field(over, k))])

Overlaid1(under, over) ==
    Merge(under, over, [k \in Keys(under, over) |-> Overlaid2(Field(under, k), Field(over, k))])

Overlay(under, over) ==
    Merge(under, over, [k \in Keys(under, over) |-> Overlaid1(Field(under, k), Field(over, k))])

\* Mutant: the secret file is the first source.
SecretFirst(file) ==
    IF file.config.kind # "table" \/ file.secret.kind = "malformed" THEN Malformed
    ELSE Overlay(file.secret, file.config)

\* Mutant: the secret file is required, as the other is.
SecretRequired(file) ==
    IF file.config.kind # "table" \/ file.secret.kind # "table" THEN Malformed
    ELSE Overlay(file.config, file.secret)

\* Config::builder in load_config: a secret file that is not there is empty.
Sources(file) ==
    IF file.config.kind # "table" \/ file.secret.kind = "malformed" THEN Malformed
    ELSE Overlay(file.config, file.secret)

-----------------------------------------------------------------------------
(* What try_deserialize accepts as a ProxyConfig, by the values at the paths *)
(* of its fields.  A number, in quotes or not, is one, and is a text, too.  *)
Text == {"text", "number"}

Protocols == {"grpc", "http"}

Hosts == {<<p, s, "host">> : p \in Protocols, s \in {"listener", "upstream"}}

Numbers == {<<p, s, "port">> : p \in Protocols, s \in {"listener", "upstream"}}
               \union {<<"auth", "cache-ttl-secs">>}

Lists == {<<p, "rules">> : p \in Protocols} \union {<<"auth", "token-review-audiences">>}

Required == Hosts \union Numbers \union Lists

Headers == {<<"auth", k>> : k \in {"user-header", "groups-header", "groups-header-delimiter"}}

Default(path) ==
    CASE path[2] = "user-header" -> "x-remote-user"
      [] path[2] = "groups-header" -> "x-remote-groups"
      [] path[2] = "groups-header-delimiter" -> "|"

\* Sections that may be left out.
Prometheus == <<"prometheus">>
PrometheusHost == <<"prometheus", "listener", "host">>
PrometheusPort == <<"prometheus", "listener", "port">>

Listeners == Protocols \union {"prometheus"}
Tls(l) == <<l, "listener", "tls">>
TlsFile(l, f) == <<l, "listener", "tls", f>>
TlsFiles == {"cert_file", "key_file"}

Paths == Required \union Headers \union {Prometheus, PrometheusHost, PrometheusPort}
             \union {Tls(l) : l \in Listeners}
             \union {TlsFile(l, f) : l \in Listeners, f \in TlsFiles}

(* A file that holds anything but a table is no configuration.  A section   *)
(* is no list, which serde would read by position.                          *)
ASSUME StartupAssumption ==
    \A tree \in ConfigFiles \union SecretFiles :
        /\ tree.kind \in {"table", "malformed", "absent"}
        /\ \A path \in Paths : \A n \in 1..(Len(path) - 1) : At(tree, path, n).kind # "list"

Values(tree) == [path \in Paths |-> Get(tree, path)]

IsAuth(v) ==
    /\ v[<<"auth", "cache-ttl-secs">>].kind = "number"
    /\ v[<<"auth", "token-review-audiences">>].kind = "list"
    /\ \A h \in Headers : v[h].kind \in Text \union {"absent"}

\* An Option is None when it is null, too.
Has(v, path) == v[path].kind \notin {"absent", "null"}

IsAddress(v, l, side) == /\ v[<<l, side, "host">>].kind \in Text
                         /\ v[<<l, side, "port">>].kind = "number"

\* Mutant: tls is not looked at, as nothing reads it afterwards.
ListenerWithoutTls(v, l) == IsAddress(v, l, "listener")

IsListener(v, l) ==
    /\ IsAddress(v, l, "listener")
    /\ Has(v, Tls(l)) => \A f \in TlsFiles : v[TlsFile(l, f)].kind \in Text

IsProtocol(v, p) ==
    IsListener(v, p) /\ IsAddress(v, p, "upstream") /\ v[<<p, "rules">>].kind = "list"

IsProxyConfig(v) ==
    /\ IsAuth(v) /\ \A p \in Protocols : IsProtocol(v, p)
    /\ Has(v, Prometheus) => IsListener(v, "prometheus")

(* Of a section tls nothing is used once it is read.                        *)
ProxyConfig(v) ==
    [required   |-> [path \in Required |-> v[path].value],
     headers    |-> [h \in Headers |-> IF v[h].kind = "absent" THEN Default(h) ELSE v[h].value],
     prometheus |-> IF Has(v, Prometheus)
                      THEN {[host |-> v[PrometheusHost].value, port |-> v[PrometheusPort].value]}
                      ELSE {}]

-----------------------------------------------------------------------------
VARIABLES
    pc,       \* how far main is
    args,     \* the command line
    file,     \* the two files as they are when they are read
    logs,     \* the format of the subscriber that is installed
    config,   \* the ProxyConfig, which both proxies and the client share
    services  \* the services that have been added to the server

vars == <<pc, args, file, logs, config, services>>

Init ==
    /\ pc = "init_tracing"
    /\ args \in CommandLines
    /\ file \in [config : ConfigFiles, secret : SecretFiles]
    /\ logs = None
    /\ config = None
    /\ services = {}

\* A subscriber that is there already stays.
init_tracing(json_logs) ==
    logs' = IF logs # None THEN logs ELSE IF json_logs THEN "json" ELSE "text"

InitTracing ==
    /\ pc = "init_tracing"
    /\ pc' = "parse"
    /\ init_tracing(FALSE)
    /\ UNCHANGED <<args, file, config, services>>

Parse ==
    /\ pc = "parse"
    /\ pc' = IF args = None THEN "exited" ELSE "load_config"
    /\ UNCHANGED <<args, file, logs, config, services>>

Load ==
    LET v     == Values(Sources(file))
        loads == Sources(file).kind # "malformed" /\ IsProxyConfig(v)
    IN  /\ pc = "load_config"
        /\ pc' = IF loads THEN "add_services" ELSE "exited"
        /\ config' = IF loads THEN ProxyConfig(v) ELSE None
        /\ UNCHANGED <<args, file, logs, services>>

AddServices ==
    /\ pc = "add_services"
    /\ pc' = "run_forever"
    /\ services' = {"grpc", "http"} \union (IF config.prometheus # {} THEN {"prometheus"} ELSE {})
    /\ UNCHANGED <<args, file, logs, config>>

Next == InitTracing \/ Parse \/ Load \/ AddServices

Spec == Init /\ [][Next]_vars

-----------------------------------------------------------------------------
(* A value at path, or one that leaves nothing below it, is in the file.    *)
Says(tree, path) ==
    \E n \in 1..Len(path) :
        LET kind == At(tree, path, n).kind
        IN  kind # "absent" /\ (n = Len(path) \/ kind # "table")

(* What the files come to at path when neither is merged: the secret file's *)
(* word, if it has one, or the configuration file's.                        *)
Effective(path) ==
    IF Says(file.secret, path) THEN Get(file.secret, path) ELSE Get(file.config, path)

(* main.rs:32-33: the secret file is "merged on top of `config`; missing    *)
(* values here fall back to `config`", and defaults come last.  So a rule   *)
(* list is one file's, whole, and a section may be switched off by null.    *)
ValuesFallBack ==
    pc \in {"add_services", "run_forever"} =>
        /\ \A path \in Required : config.required[path] = Effective(path).value
        /\ \A h \in Headers :
                config.headers[h] = IF Effective(h).kind = "absent" THEN Default(h)
                                                                   ELSE Effective(h).value
        /\ config.prometheus =
                IF Effective(Prometheus).kind \in {"absent", "null"} THEN {}
                ELSE {[host |-> Effective(PrometheusHost).value,
                       port |-> Effective(PrometheusPort).value]}
        /\ pc = "run_forever" => ("prometheus" \in services <=> config.prometheus # {})

Given(section) == Effective(section).kind \notin {"absent", "null"}

Listening == Protocols \union {l \in {"prometheus"} : Given(Prometheus)}

\* What nothing stands in for, when a section that has it is given.
Needed ==
    Required \union (IF Given(Prometheus) THEN {PrometheusHost, PrometheusPort} ELSE {})
             \union {TlsFile(l, f) : l \in {m \in Listening : Given(Tls(m))}, f \in TlsFiles}

Takes(path) == IF path \in Lists THEN {"list"}
               ELSE IF path \in Numbers \union {PrometheusPort} THEN {"number"} ELSE Text

Complete ==
    /\ file.config.kind = "table" /\ file.secret.kind # "malformed"
    /\ \A path \in Needed : Effective(path).kind \in Takes(path)
    /\ \A h \in Headers : Effective(h).kind \in Text \union {"absent"}

(* The program gives up only for an argument, a file that does not parse or *)
(* a value that neither file has right, never for the want of a secret file;*)
(* and with any of these no proxy is added that would listen (main.rs:41-51,*)
(* defs.rs:180-188).                                                        *)
StartsIffComplete ==
    /\ pc = "exited" => args = None \/ ~ Complete
    /\ pc \in {"add_services", "run_forever"} => args # None /\ Complete
=============================================================================
