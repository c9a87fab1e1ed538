---------------------------- MODULE Startup_proofs ----------------------------
(***************************************************************************)
(* Which of the two files a setting comes from, and when the program gives  *)
(* up, for every configuration file and every secret file: merging the      *)
(* trees key by key comes to a choice between the files at every path.      *)
(***************************************************************************)
EXTENDS Startup, TLAPS

\* Nothing is below a leaf.
IsLeaf(tree) == tree.kind \notin {"table", "absent"}

\* A table that is merged differs from both files', but it is a table.
Agree(x, y) == x = y \/ (x.kind = "table" /\ y.kind = "table")

LEMMA NothingBelow ==
    ASSUME NEW tree, tree.kind # "table", NEW k
    PROVE  Field(tree, k) = Absent
<1> QED
  BY DEF Field, Fields

LEMMA AbsentIs == Absent.kind = "absent" /\ Malformed.kind = "malformed"
<1> QED
  BY DEF Absent, Malformed, Leaf

(* What a merge makes of one node, whatever is merged below it.             *)
LEMMA MergeIs ==
    ASSUME NEW under, NEW over, NEW fields, NEW new, new = Merge(under, over, fields)
    PROVE  /\ over.kind = "absent" => new = under
           /\ IsLeaf(over) => new = over
           /\ over.kind = "table" => new.kind = "table" /\ Fields(new) = fields
<1> QED
  BY DEF Merge, IsLeaf, Table, Fields

(* The field of a merged node, given what its fields have been merged to.   *)
LEMMA MergedField ==
    ASSUME NEW under, NEW over, NEW k, NEW below, NEW new,
           new = Merge(under, over, below),
           DOMAIN below = Keys(under, over)
    PROVE  Field(new, k) = CASE IsLeaf(over) -> Absent
                             [] over.kind = "absent" -> Field(under, k)
                             [] over.kind = "table" ->
                                    IF k \in Keys(under, over) THEN below[k] ELSE Absent
<1>1. CASE IsLeaf(over)
  BY <1>1, MergeIs, NothingBelow DEF IsLeaf
<1>2. CASE over.kind = "absent"
  BY <1>2, MergeIs DEF IsLeaf
<1>3. CASE over.kind = "table"
  <2>1. Fields(new) = below /\ DOMAIN below = Keys(under, over)
    BY <1>3, MergeIs
  <2> QED
    BY <1>3, <2>1 DEF Field, IsLeaf
<1> QED
  BY <1>1, <1>2, <1>3 DEF IsLeaf

(* The same at each level: below a leaf of the second tree there is nothing, *)
(* elsewhere the fields are merged.                                         *)
LEMMA FieldOfOverlay ==
    ASSUME NEW under, NEW over, NEW k
    PROVE  Field(Overlay(under, over), k) =
               IF IsLeaf(over) THEN Absent ELSE Overlaid1(Field(under, k), Field(over, k))
<1> DEFINE below == [x \in Keys(under, over) |-> Overlaid1(Field(under, x), Field(over, x))]
           new == Overlay(under, over)
<1>1. new = Merge(under, over, below)
  BY DEF Overlay
<1>2. DOMAIN below = Keys(under, over)
     /\ \A x \in Keys(under, over) : below[x] = Overlaid1(Field(under, x), Field(over, x))
  OBVIOUS
<1> HIDE DEF below, new
<1>3. Field(new, k) = CASE IsLeaf(over) -> Absent
                        [] over.kind = "absent" -> Field(under, k)
                        [] over.kind = "table" ->
                               IF k \in Keys(under, over) THEN below[k] ELSE Absent
  BY <1>1, <1>2, MergedField
<1>4. \A x : Overlaid1(x, Absent) = x
  BY AbsentIs DEF Overlaid1, Merge
<1>5. k \notin Keys(under, over) => Field(under, k) = Absent /\ Field(over, k) = Absent
  BY DEF Keys, Field
<1>6. over.kind = "absent" => Field(over, k) = Absent
  BY NothingBelow
<1>7. Field(new, k) = IF IsLeaf(over) THEN Absent ELSE Overlaid1(Field(under, k), Field(over, k))
  BY <1>2, <1>3, <1>4, <1>5, <1>6 DEF IsLeaf
<1> QED
  BY <1>7 DEF new

LEMMA FieldOfOverlaid1 ==
    ASSUME NEW under, NEW over, NEW k
    PROVE  Field(Overlaid1(under, over), k) =
               IF IsLeaf(over) THEN Absent ELSE Overlaid2(Field(under, k), Field(over, k))
<1> DEFINE below == [x \in Keys(under, over) |-> Overlaid2(Field(under, x), Field(over, x))]
           new == Overlaid1(under, over)
<1>1. new = Merge(under, over, below)
  BY DEF Overlaid1
<1>2. DOMAIN below = Keys(under, over)
     /\ \A x \in Keys(under, over) : below[x] = Overlaid2(Field(under, x), Field(over, x))
  OBVIOUS
<1> HIDE DEF below, new
<1>3. Field(new, k) = CASE IsLeaf(over) -> Absent
                        [] over.kind = "absent" -> Field(under, k)
                        [] over.kind = "table" ->
                               IF k \in Keys(under, over) THEN below[k] ELSE Absent
  BY <1>1, <1>2, MergedField
<1>4. \A x : Overlaid2(x, Absent) = x
  BY AbsentIs DEF Overlaid2, Merge
<1>5. k \notin Keys(under, over) => Field(under, k) = Absent /\ Field(over, k) = Absent
  BY DEF Keys, Field
<1>6. over.kind = "absent" => Field(over, k) = Absent
  BY NothingBelow
<1>7. Field(new, k) = IF IsLeaf(over) THEN Absent ELSE Overlaid2(Field(under, k), Field(over, k))
  BY <1>2, <1>3, <1>4, <1>5, <1>6 DEF IsLeaf
<1> QED
  BY <1>7 DEF new

LEMMA FieldOfOverlaid2 ==
    ASSUME NEW under, NEW over, NEW k
    PROVE  Field(Overlaid2(under, over), k) =
               IF IsLeaf(over) THEN Absent ELSE Overlaid3(Field(under, k), Field(over, k))
<1> DEFINE below == [x \in Keys(under, over) |-> Overlaid3(Field(under, x), Field(over, x))]
           new == Overlaid2(under, over)
<1>1. new = Merge(under, over, below)
  BY DEF Overlaid2
<1>2. DOMAIN below = Keys(under, over)
     /\ \A x \in Keys(under, over) : below[x] = Overlaid3(Field(under, x), Field(over, x))
  OBVIOUS
<1> HIDE DEF below, new
<1>3. Field(new, k) = CASE IsLeaf(over) -> Absent
                        [] over.kind = "absent" -> Field(under, k)
                        [] over.kind = "table" ->
                               IF k \in Keys(under, over) THEN below[k] ELSE Absent
  BY <1>1, <1>2, MergedField
<1>4. \A x : Overlaid3(x, Absent) = x
  BY AbsentIs DEF Overlaid3, Merge
<1>5. k \notin Keys(under, over) => Field(under, k) = Absent /\ Field(over, k) = Absent
  BY DEF Keys, Field
<1>6. over.kind = "absent" => Field(over, k) = Absent
  BY NothingBelow
<1>7. Field(new, k) = IF IsLeaf(over) THEN Absent ELSE Overlaid3(Field(under, k), Field(over, k))
  BY <1>2, <1>3, <1>4, <1>5, <1>6 DEF IsLeaf
<1> QED
  BY <1>7 DEF new

LEMMA FieldOfOverlaid3 ==
    ASSUME NEW under, NEW over, NEW k
    PROVE  Field(Overlaid3(under, over), k) =
               IF IsLeaf(over) THEN Absent ELSE Overlaid4(Field(under, k), Field(over, k))
<1> DEFINE below == [x \in Keys(under, over) |-> Overlaid4(Field(under, x), Field(over, x))]
           new == Overlaid3(under, over)
<1>1. new = Merge(under, over, below)
  BY DEF Overlaid3
<1>2. DOMAIN below = Keys(under, over)
     /\ \A x \in Keys(under, over) : below[x] = Overlaid4(Field(under, x), Field(over, x))
  OBVIOUS
<1> HIDE DEF below, new
<1>3. Field(new, k) = CASE IsLeaf(over) -> Absent
                        [] over.kind = "absent" -> Field(under, k)
                        [] over.kind = "table" ->
                               IF k \in Keys(under, over) THEN below[k] ELSE Absent
  BY <1>1, <1>2, MergedField
<1>4. \A x : Overlaid4(x, Absent) = x
  BY AbsentIs DEF Overlaid4, Merge
<1>5. k \notin Keys(under, over) => Field(under, k) = Absent /\ Field(over, k) = Absent
  BY DEF Keys, Field
<1>6. over.kind = "absent" => Field(over, k) = Absent
  BY NothingBelow
<1>7. Field(new, k) = IF IsLeaf(over) THEN Absent ELSE Overlaid4(Field(under, k), Field(over, k))
  BY <1>2, <1>3, <1>4, <1>5, <1>6 DEF IsLeaf
<1> QED
  BY <1>7 DEF new

-----------------------------------------------------------------------------
(* Merging the trees is choosing between them at each path.                 *)
LEMMA OverlaidAgrees ==
    ASSUME NEW under, NEW over
    PROVE  LET chosen == IF over.kind = "absent" THEN under ELSE over IN
           /\ Agree(Overlaid1(under, over), chosen)
           /\ Agree(Overlaid2(under, over), chosen)
           /\ Agree(Overlaid3(under, over), chosen)
           /\ Agree(Overlaid4(under, over), chosen)
<1> DEFINE chosen == IF over.kind = "absent" THEN under ELSE over
<1>1. ASSUME NEW fields, NEW new, new = Merge(under, over, fields)
      PROVE  Agree(new, chosen)
  <2>1. CASE over.kind = "absent"
    BY <1>1, <2>1, MergeIs DEF Agree
  <2>2. CASE over.kind = "table"
    <3>1. new.kind = "table" /\ chosen = over
      BY <1>1, <2>2, MergeIs
    <3> HIDE DEF chosen
    <3> QED
      BY <2>2, <3>1 DEF Agree
  <2>3. CASE IsLeaf(over)
    BY <1>1, <2>3, MergeIs DEF Agree, IsLeaf
  <2> QED
    BY <2>1, <2>2, <2>3 DEF IsLeaf
<1> HIDE DEF chosen
<1>2. Agree(Overlaid1(under, over), chosen)
  BY <1>1 DEF Overlaid1
<1>3. Agree(Overlaid2(under, over), chosen)
  BY <1>1 DEF Overlaid2
<1>4. Agree(Overlaid3(under, over), chosen)
  BY <1>1 DEF Overlaid3
<1>5. Agree(Overlaid4(under, over), chosen)
  BY <1>1 DEF Overlaid4
<1> QED
  BY <1>2, <1>3, <1>4, <1>5 DEF chosen

LEMMA MergedAt ==
    ASSUME NEW under, NEW over, ~ IsLeaf(over), NEW path, NEW new, new = Overlay(under, over)
    PROVE  /\ At(new, path, 1) = Overlaid1(At(under, path, 1), At(over, path, 1))
           /\ At(new, path, 2) = IF IsLeaf(At(over, path, 1)) THEN Absent
                                 ELSE Overlaid2(At(under, path, 2), At(over, path, 2))
           /\ At(new, path, 3) = IF IsLeaf(At(over, path, 1)) \/ IsLeaf(At(over, path, 2)) THEN Absent
                                 ELSE Overlaid3(At(under, path, 3), At(over, path, 3))
           /\ At(new, path, 4) = IF \/ IsLeaf(At(over, path, 1)) \/ IsLeaf(At(over, path, 2))
                                    \/ IsLeaf(At(over, path, 3)) THEN Absent
                                 ELSE Overlaid4(At(under, path, 4), At(over, path, 4))
<1>1. \A t : /\ At(t, path, 1) = Field(t, path[1])
             /\ At(t, path, 2) = Field(At(t, path, 1), path[2])
             /\ At(t, path, 3) = Field(At(t, path, 2), path[3])
             /\ At(t, path, 4) = Field(At(t, path, 3), path[4])
  BY DEF At
<1>2. At(new, path, 1) = Overlaid1(At(under, path, 1), At(over, path, 1))
  BY <1>1, FieldOfOverlay
<1>3. At(new, path, 2) = IF IsLeaf(At(over, path, 1)) THEN Absent
                         ELSE Overlaid2(At(under, path, 2), At(over, path, 2))
  BY <1>1, <1>2, FieldOfOverlaid1
<1>4. \A k : Field(Absent, k) = Absent
  BY NothingBelow, AbsentIs
<1>5. At(new, path, 3) = IF IsLeaf(At(over, path, 1)) \/ IsLeaf(At(over, path, 2)) THEN Absent
                         ELSE Overlaid3(At(under, path, 3), At(over, path, 3))
  BY <1>1, <1>3, <1>4, FieldOfOverlaid2
<1>6. At(new, path, 4) = IF \/ IsLeaf(At(over, path, 1)) \/ IsLeaf(At(over, path, 2))
                            \/ IsLeaf(At(over, path, 3)) THEN Absent
                         ELSE Overlaid4(At(under, path, 4), At(over, path, 4))
  BY <1>1, <1>4, <1>5, FieldOfOverlaid3
<1> QED
  BY <1>2, <1>3, <1>5, <1>6

(* The lemma that the theorems rest on.                                     *)
LEMMA OverlayChooses ==
    ASSUME NEW under, NEW over, ~ IsLeaf(over), NEW path, Len(path) \in 1..4
    PROVE  Agree(Get(Overlay(under, over), path),
                 IF Says(over, path) THEN Get(over, path) ELSE Get(under, path))
<1> DEFINE new == Overlay(under, over)
           o(n) == At(over, path, n)
           u(n) == At(under, path, n)
<1>1. /\ At(new, path, 1) = Overlaid1(u(1), o(1))
      /\ At(new, path, 2) = IF IsLeaf(o(1)) THEN Absent ELSE Overlaid2(u(2), o(2))
      /\ At(new, path, 3) = IF IsLeaf(o(1)) \/ IsLeaf(o(2)) THEN Absent
                            ELSE Overlaid3(u(3), o(3))
      /\ At(new, path, 4) = IF IsLeaf(o(1)) \/ IsLeaf(o(2)) \/ IsLeaf(o(3)) THEN Absent
                            ELSE Overlaid4(u(4), o(4))
  BY MergedAt
<1>2. /\ IsLeaf(o(1)) => o(2) = Absent
      /\ IsLeaf(o(1)) \/ IsLeaf(o(2)) => o(3) = Absent
      /\ IsLeaf(o(1)) \/ IsLeaf(o(2)) \/ IsLeaf(o(3)) => o(4) = Absent
  <2>1. /\ o(2) = Field(o(1), path[2]) /\ o(3) = Field(o(2), path[3])
        /\ o(4) = Field(o(3), path[4])
    BY DEF At
  <2> HIDE DEF o
  <2> QED
    BY <2>1, NothingBelow, AbsentIs DEF IsLeaf
<1>3. Says(over, path) <=> \E n \in 1..Len(path) : \/ IsLeaf(o(n))
                                                   \/ n = Len(path) /\ o(n).kind # "absent"
  BY DEF Says, IsLeaf
<1>4. /\ Get(new, path) = At(new, path, Len(path))
      /\ Get(over, path) = o(Len(path)) /\ Get(under, path) = u(Len(path))
  BY DEF Get
<1> HIDE DEF new, o, u
<1>5. CASE Len(path) = 1
  <2>1. Says(over, path) <=> o(1).kind # "absent"
    BY <1>3, <1>5 DEF IsLeaf
  <2> QED
    BY <1>1, <1>4, <1>5, <2>1, OverlaidAgrees DEF new
<1>6. CASE Len(path) = 2
  <2>1. Says(over, path) <=> IsLeaf(o(1)) \/ o(2).kind # "absent"
    BY <1>3, <1>6 DEF IsLeaf
  <2>2. CASE IsLeaf(o(1))
    <3>1. Says(over, path) /\ Get(new, path) = Absent /\ Get(over, path) = Absent
      BY <1>1, <1>2, <1>4, <1>6, <2>1, <2>2
    <3>2. Agree(Get(new, path), Get(over, path))
      BY <3>1 DEF Agree
    <3> QED
      BY <3>1, <3>2 DEF new
  <2>3. CASE ~ IsLeaf(o(1))
    BY <1>1, <1>4, <1>6, <2>1, <2>3, OverlaidAgrees DEF new
  <2> QED
    BY <2>2, <2>3
<1>7. CASE Len(path) = 3
  <2>1. Says(over, path) <=> IsLeaf(o(1)) \/ IsLeaf(o(2)) \/ o(3).kind # "absent"
    BY <1>3, <1>7 DEF IsLeaf
  <2>2. CASE IsLeaf(o(1)) \/ IsLeaf(o(2))
    <3>1. Says(over, path) /\ Get(new, path) = Absent /\ Get(over, path) = Absent
      BY <1>1, <1>2, <1>4, <1>7, <2>1, <2>2
    <3>2. Agree(Get(new, path), Get(over, path))
      BY <3>1 DEF Agree
    <3> QED
      BY <3>1, <3>2 DEF new
  <2>3. CASE ~ IsLeaf(o(1)) /\ ~ IsLeaf(o(2))
    BY <1>1, <1>4, <1>7, <2>1, <2>3, OverlaidAgrees DEF new
  <2> QED
    BY <2>2, <2>3
<1>8. CASE Len(path) = 4
  <2>1. Says(over, path) <=> IsLeaf(o(1)) \/ IsLeaf(o(2)) \/ IsLeaf(o(3)) \/ o(4).kind # "absent"
    BY <1>3, <1>8 DEF IsLeaf
  <2>2. CASE IsLeaf(o(1)) \/ IsLeaf(o(2)) \/ IsLeaf(o(3))
    <3>1. Says(over, path) /\ Get(new, path) = Absent /\ Get(over, path) = Absent
      BY <1>1, <1>2, <1>4, <1>8, <2>1, <2>2
    <3>2. Agree(Get(new, path), Get(over, path))
      BY <3>1 DEF Agree
    <3> QED
      BY <3>1, <3>2 DEF new
  <2>3. CASE ~ IsLeaf(o(1)) /\ ~ IsLeaf(o(2)) /\ ~ IsLeaf(o(3))
    BY <1>1, <1>4, <1>8, <2>1, <2>3, OverlaidAgrees DEF new
  <2> QED
    BY <2>2, <2>3
<1> QED
  BY <1>5, <1>6, <1>7, <1>8

-----------------------------------------------------------------------------
(* What a configuration is made of, by the values of the file.              *)
EffectiveValues == [path \in Paths |-> Effective(path)]

LEMMA PathsAre ==
    /\ Required \subseteq Paths /\ Headers \subseteq Paths
    /\ Prometheus \in Paths /\ PrometheusHost \in Paths /\ PrometheusPort \in Paths
    /\ \A l \in Listeners : Tls(l) \in Paths /\ \A f \in TlsFiles : TlsFile(l, f) \in Paths
<1> QED
  BY DEF Paths

LEMMA PathsAreShort == \A path \in Paths : Len(path) \in 1..4
<1> QED
  BY DEF Paths, Required, Hosts, Numbers, Lists, Headers, Prometheus, PrometheusHost, PrometheusPort,
         Tls, TlsFile

LEMMA SourcesChoose ==
    ASSUME Sources(file).kind # "malformed", ~ IsLeaf(file.secret), NEW path \in Paths
    PROVE  Agree(Values(Sources(file))[path], EffectiveValues[path])
<1>1. Sources(file) = Overlay(file.config, file.secret)
  BY AbsentIs DEF Sources
<1>2. Values(Sources(file))[path] = Get(Overlay(file.config, file.secret), path)
  BY <1>1 DEF Values
<1>3. EffectiveValues[path] = IF Says(file.secret, path) THEN Get(file.secret, path)
                                                         ELSE Get(file.config, path)
  BY DEF EffectiveValues, Effective
<1>4. Agree(Get(Overlay(file.config, file.secret), path),
            IF Says(file.secret, path) THEN Get(file.secret, path) ELSE Get(file.config, path))
  BY PathsAreShort, OverlayChooses
<1> QED
  BY <1>2, <1>3, <1>4

LEMMA AuthPaths ==
    <<"auth", "cache-ttl-secs">> \in Paths /\ <<"auth", "token-review-audiences">> \in Paths
<1> QED
  BY PathsAre DEF Required, Numbers, Lists

\* A listener's settings, and an upstream's.
LEMMA PathsOf ==
    /\ \A l \in Listeners : /\ <<l, "listener", "host">> \in Paths
                            /\ <<l, "listener", "port">> \in Paths
    /\ \A p \in Protocols : /\ <<p, "upstream", "host">> \in Paths
                            /\ <<p, "upstream", "port">> \in Paths
                            /\ <<p, "rules">> \in Paths
<1>1. \A p \in Protocols, s \in {"listener", "upstream"} :
          <<p, s, "host">> \in Required /\ <<p, s, "port">> \in Required
  BY DEF Required, Hosts, Numbers
<1>2. \A p \in Protocols : <<p, "rules">> \in Required
  BY DEF Required, Lists
<1> QED
  BY <1>1, <1>2, PathsAre DEF Listeners, PrometheusHost, PrometheusPort

(* Whether values are a configuration depends on their kinds alone.         *)
LEMMA KindsDecide ==
    ASSUME NEW v, NEW w, \A path \in Paths : v[path].kind = w[path].kind, IsProxyConfig(w)
    PROVE  IsProxyConfig(v)
<1>1. IsAuth(v)
  BY AuthPaths, PathsAre DEF IsProxyConfig, IsAuth
<1>2. ASSUME NEW l \in Listeners, IsListener(w, l) PROVE IsListener(v, l)
  <2>1. IsAddress(v, l, "listener")
    BY <1>2, PathsOf DEF IsListener, IsAddress
  <2>2. v[Tls(l)].kind = w[Tls(l)].kind /\ \A f \in TlsFiles : v[TlsFile(l, f)].kind = w[TlsFile(l, f)].kind
    BY PathsAre
  <2> QED
    BY <1>2, <2>1, <2>2 DEF IsListener, Has
<1>3. ASSUME NEW p \in Protocols PROVE IsProtocol(v, p)
  <2>1. IsProtocol(w, p) /\ p \in Listeners
    BY DEF IsProxyConfig, Listeners
  <2>2. IsListener(v, p)
    BY <1>2, <2>1 DEF IsProtocol
  <2> QED
    BY <2>1, <2>2, PathsOf DEF IsProtocol, IsAddress
<1>4. Has(v, Prometheus) => IsListener(v, "prometheus")
  BY <1>2, PathsAre DEF IsProxyConfig, Has, Listeners
<1> QED
  BY <1>1, <1>3, <1>4 DEF IsProxyConfig

(* Of a configuration, no value is a table.                                 *)
LEMMA ValuesAreLeaves ==
    ASSUME NEW v, IsProxyConfig(v)
    PROVE  /\ \A path \in Required \union Headers : v[path].kind # "table"
           /\ Has(v, Prometheus) => v[PrometheusHost].kind # "table" /\ v[PrometheusPort].kind # "table"
<1>1. \A p \in Protocols, s \in {"listener", "upstream"} :
          v[<<p, s, "host">>].kind # "table" /\ v[<<p, s, "port">>].kind # "table"
  BY DEF IsProxyConfig, IsProtocol, IsListener, IsAddress, Text
<1>2. \A p \in Protocols : v[<<p, "rules">>].kind # "table"
  BY DEF IsProxyConfig, IsProtocol
<1>3. \A h \in Headers : v[h].kind # "table"
  BY DEF IsProxyConfig, IsAuth, Text
<1>4. v[<<"auth", "cache-ttl-secs">>].kind # "table" /\ v[<<"auth", "token-review-audiences">>].kind # "table"
  BY DEF IsProxyConfig, IsAuth
<1>5. \A path \in Required : v[path].kind # "table"
  <2> TAKE path \in Required
  <2>1. CASE path \in Hosts
    <3>1. PICK p \in Protocols, s \in {"listener", "upstream"} : path = <<p, s, "host">>
      BY <2>1 DEF Hosts
    <3> QED
      BY <1>1, <3>1
  <2>2. CASE path \in Numbers
    <3>1. \/ path = <<"auth", "cache-ttl-secs">>
          \/ \E p \in Protocols, s \in {"listener", "upstream"} : path = <<p, s, "port">>
      BY <2>2 DEF Numbers
    <3> QED
      BY <1>1, <1>4, <3>1
  <2>3. CASE path \in Lists
    BY <1>2, <1>4, <2>3 DEF Lists
  <2> QED
    BY <2>1, <2>2, <2>3 DEF Required
<1>6. Has(v, Prometheus) => v[PrometheusHost].kind # "table" /\ v[PrometheusPort].kind # "table"
  BY DEF IsProxyConfig, IsListener, IsAddress, PrometheusHost, PrometheusPort, Text
<1> QED
  BY <1>3, <1>5, <1>6

-----------------------------------------------------------------------------
Loads == Sources(file).kind # "malformed" /\ IsProxyConfig(Values(Sources(file)))

\* What main has done, by how far it is.
SInv ==
    /\ file \in [config : ConfigFiles, secret : SecretFiles]
    /\ pc \in {"add_services", "run_forever"} => Loads /\ config = ProxyConfig(Values(Sources(file)))
    /\ pc = "run_forever" => ("prometheus" \in services <=> config.prometheus # {})
    /\ pc = "exited" => args = None \/ ~ Loads
    /\ pc \in {"load_config", "add_services", "run_forever"} => args # None

LEMMA SecretIsNoLeaf ==
    ASSUME SInv, Sources(file).kind # "malformed"
    PROVE  ~ IsLeaf(file.secret)
<1> QED
  BY StartupAssumption, AbsentIs DEF SInv, Sources, IsLeaf

LEMMA Started == Spec => []SInv
<1>1. Init => SInv
  BY DEF Init, SInv
<1>2. SInv /\ [Next]_vars => SInv'
  <2> SUFFICES ASSUME SInv, [Next]_vars PROVE SInv'
    OBVIOUS
  <2> USE DEF SInv, Loads
  <2>1. CASE InitTracing
    BY <2>1 DEF InitTracing
  <2>2. CASE Parse
    BY <2>2 DEF Parse
  <2>3. CASE Load
    BY <2>3 DEF Load
  <2>4. CASE AddServices
    BY <2>4 DEF AddServices
  <2>5. CASE UNCHANGED vars
    BY <2>5 DEF vars
  <2> QED
    BY <2>1, <2>2, <2>3, <2>4, <2>5 DEF Next
<1> QED
  BY <1>1, <1>2, PTL DEF Spec

(* For every pair of files: a setting has the secret file's value where the *)
(* secret file says anything of it, else the configuration file's, else its *)
(* default (main.rs:32-33, defs.rs:180-188).                                *)
THEOREM SettingsFallBack == Spec => []ValuesFallBack
<1>1. SInv => ValuesFallBack
  <2> SUFFICES ASSUME SInv, pc \in {"add_services", "run_forever"}
               PROVE  /\ \A path \in Required : config.required[path] = Effective(path).value
                      /\ \A h \in Headers :
                              config.headers[h] = IF Effective(h).kind = "absent" THEN Default(h)
                                                  ELSE Effective(h).value
                      /\ config.prometheus =
                              IF Effective(Prometheus).kind \in {"absent", "null"} THEN {}
                              ELSE {[host |-> Effective(PrometheusHost).value,
                                     port |-> Effective(PrometheusPort).value]}
                      /\ pc = "run_forever" =>
                              ("prometheus" \in services <=> config.prometheus # {})
    BY DEF ValuesFallBack
  <2> DEFINE v == Values(Sources(file))
  <2>1. Sources(file).kind # "malformed" /\ IsProxyConfig(v) /\ config = ProxyConfig(v)
    BY DEF SInv, Loads
  <2>2. \A path \in Paths : Agree(v[path], Effective(path))
    <3> TAKE path \in Paths
    <3>1. Agree(v[path], EffectiveValues[path])
      BY <2>1, SourcesChoose, SecretIsNoLeaf
    <3> QED
      BY <3>1 DEF EffectiveValues
  <2> HIDE DEF v
  <2>3. \A path \in Paths : /\ v[path].kind = Effective(path).kind
                            /\ v[path].kind # "table" => v[path] = Effective(path)
    BY <2>2 DEF Agree
  <2>4. /\ \A path \in Required \union Headers : v[path] = Effective(path)
        /\ Has(v, Prometheus) => /\ v[PrometheusHost] = Effective(PrometheusHost)
                                 /\ v[PrometheusPort] = Effective(PrometheusPort)
    <3>1. \A path \in Required \union Headers : v[path].kind # "table"
      BY <2>1, ValuesAreLeaves
    <3>2. Has(v, Prometheus) => v[PrometheusHost].kind # "table" /\ v[PrometheusPort].kind # "table"
      BY <2>1, ValuesAreLeaves
    <3>3. \A path \in Required \union Headers : v[path] = Effective(path)
      BY <2>3, <3>1, PathsAre, Zenon
    <3>4. Has(v, Prometheus) => /\ v[PrometheusHost] = Effective(PrometheusHost)
                                /\ v[PrometheusPort] = Effective(PrometheusPort)
      BY <2>3, <3>2, PathsAre, Zenon
    <3> QED
      BY <3>3, <3>4
  <2>5. Has(v, Prometheus) <=> Effective(Prometheus).kind \notin {"absent", "null"}
    <3>1. v[Prometheus].kind = Effective(Prometheus).kind
      BY <2>3, PathsAre, Zenon
    <3> QED
      BY <3>1 DEF Has
  <2>6. /\ \A path \in Required : config.required[path] = Effective(path).value
        /\ \A h \in Headers : config.headers[h] = IF Effective(h).kind = "absent" THEN Default(h)
                                                    ELSE Effective(h).value
    BY <2>1, <2>4 DEF ProxyConfig
  <2>7. config.prometheus = IF Effective(Prometheus).kind \in {"absent", "null"} THEN {}
                            ELSE {[host |-> Effective(PrometheusHost).value,
                                   port |-> Effective(PrometheusPort).value]}
    BY <2>1, <2>4, <2>5 DEF ProxyConfig
  <2> QED
    BY <2>6, <2>7 DEF SInv
<1> QED
  BY <1>1, Started, PTL

-----------------------------------------------------------------------------
(* The values that the files come to make a configuration just when each    *)
(* setting that is needed has one that it takes.                            *)
EffectiveIsComplete ==
    /\ \A path \in Needed : Effective(path).kind \in Takes(path)
    /\ \A h \in Headers : Effective(h).kind \in Text \union {"absent"}

\* What the settings take, by section.
LEMMA TakesWhat ==
    /\ \A l \in Listeners : /\ Takes(<<l, "listener", "host">>) = Text
                            /\ Takes(<<l, "listener", "port">>) = {"number"}
                            /\ \A f \in TlsFiles : Takes(TlsFile(l, f)) = Text
    /\ \A p \in Protocols : /\ Takes(<<p, "upstream", "host">>) = Text
                            /\ Takes(<<p, "upstream", "port">>) = {"number"}
                            /\ Takes(<<p, "rules">>) = {"list"}
    /\ Takes(<<"auth", "cache-ttl-secs">>) = {"number"}
    /\ Takes(<<"auth", "token-review-audiences">>) = {"list"}
<1> QED
  BY DEF Takes, Listeners, Protocols, TlsFile, TlsFiles, Lists, Numbers, PrometheusPort

\* What is needed, by section.
LEMMA NeededWhat ==
    ASSUME NEW path
    PROVE  path \in Needed <=>
               \/ \E l \in Listening : \/ path \in {<<l, "listener", "host">>, <<l, "listener", "port">>}
                                       \/ Given(Tls(l)) /\ \E f \in TlsFiles : path = TlsFile(l, f)
               \/ \E p \in Protocols : path \in {<<p, "upstream", "host">>, <<p, "upstream", "port">>,
                                                 <<p, "rules">>}
               \/ path \in {<<"auth", "cache-ttl-secs">>, <<"auth", "token-review-audiences">>}
<1>1. path \in Required <=>
          \/ \E p \in Protocols : path \in {<<p, "listener", "host">>, <<p, "listener", "port">>,
                                            <<p, "upstream", "host">>, <<p, "upstream", "port">>,
                                            <<p, "rules">>}
          \/ path \in {<<"auth", "cache-ttl-secs">>, <<"auth", "token-review-audiences">>}
  BY DEF Required, Hosts, Numbers, Lists
<1> QED
  BY <1>1 DEF Needed, Listening, PrometheusHost, PrometheusPort

LEMMA CompleteIsConfig == IsProxyConfig(EffectiveValues) <=> EffectiveIsComplete
<1> DEFINE E == EffectiveValues
<1>1. \A path \in Paths : E[path] = Effective(path)
  BY DEF EffectiveValues
<1>2. \A path \in {Prometheus} \union {Tls(l) : l \in Listeners} : Has(E, path) <=> Given(path)
  BY <1>1, PathsAre DEF Has, Given
<1> HIDE DEF E
<1>3. ASSUME IsProxyConfig(E) PROVE EffectiveIsComplete
  <2>1. \A l \in Listening : l \in Listeners /\ IsListener(E, l)
    BY <1>2, <1>3 DEF IsProxyConfig, IsProtocol, Listening, Listeners
  <2>2. \A h \in Headers : Effective(h).kind \in Text \union {"absent"}
    BY <1>1, <1>3, PathsAre DEF IsProxyConfig, IsAuth
  <2>3. ASSUME NEW path \in Needed PROVE E[path].kind \in Takes(path) /\ path \in Paths
    <3>1. ASSUME NEW l \in Listening, path \in {<<l, "listener", "host">>, <<l, "listener", "port">>}
          PROVE  E[path].kind \in Takes(path) /\ path \in Paths
      BY <2>1, <3>1, PathsOf, TakesWhat DEF IsListener, IsAddress
    <3>2. ASSUME NEW l \in Listening, Given(Tls(l)), NEW f \in TlsFiles, path = TlsFile(l, f)
          PROVE  E[path].kind \in Takes(path) /\ path \in Paths
      <4>1. l \in Listeners /\ IsListener(E, l) /\ Has(E, Tls(l))
        BY <1>2, <2>1, <3>2
      <4> QED
        BY <3>2, <4>1, PathsAre, TakesWhat DEF IsListener
    <3>3. ASSUME NEW p \in Protocols,
                 path \in {<<p, "upstream", "host">>, <<p, "upstream", "port">>, <<p, "rules">>}
          PROVE  E[path].kind \in Takes(path) /\ path \in Paths
      <4>1. IsProtocol(E, p)
        BY <1>3 DEF IsProxyConfig
      <4> QED
        BY <3>3, <4>1, PathsOf, TakesWhat DEF IsProtocol, IsAddress
    <3>4. ASSUME path \in {<<"auth", "cache-ttl-secs">>, <<"auth", "token-review-audiences">>}
          PROVE  E[path].kind \in Takes(path) /\ path \in Paths
      BY <1>3, <3>4, AuthPaths, TakesWhat DEF IsProxyConfig, IsAuth
    <3> QED
      BY <3>1, <3>2, <3>3, <3>4, NeededWhat
  <2> QED
    BY <1>1, <2>2, <2>3 DEF EffectiveIsComplete
<1>4. ASSUME EffectiveIsComplete PROVE IsProxyConfig(E)
  <2>1. ASSUME NEW path \in Paths, path \in Needed PROVE E[path].kind \in Takes(path)
    BY <1>1, <1>4, <2>1 DEF EffectiveIsComplete
  <2>2. IsAuth(E)
    <3>1. \A h \in Headers : E[h].kind \in Text \union {"absent"}
      BY <1>1, <1>4, PathsAre DEF EffectiveIsComplete
    <3>2. /\ E[<<"auth", "cache-ttl-secs">>].kind \in Takes(<<"auth", "cache-ttl-secs">>)
          /\ E[<<"auth", "token-review-audiences">>].kind \in Takes(<<"auth", "token-review-audiences">>)
      BY <2>1, AuthPaths, NeededWhat
    <3> QED
      BY <3>1, <3>2, TakesWhat DEF IsAuth
  <2>3. ASSUME NEW l \in Listening PROVE l \in Listeners /\ IsListener(E, l)
    <3>1. l \in Listeners
      BY DEF Listening, Listeners
    <3>2. IsAddress(E, l, "listener")
      <4>1. <<l, "listener", "host">> \in Needed /\ <<l, "listener", "port">> \in Needed
        BY NeededWhat
      <4> QED
        BY <2>1, <3>1, <4>1, PathsOf, TakesWhat DEF IsAddress
    <3>3. ASSUME Has(E, Tls(l)), NEW f \in TlsFiles PROVE E[TlsFile(l, f)].kind \in Text
      <4>1. TlsFile(l, f) \in Needed
        BY <1>2, <3>1, <3>3, NeededWhat
      <4>2. TlsFile(l, f) \in Paths /\ Takes(TlsFile(l, f)) = Text
        BY <3>1, <3>3, PathsAre, TakesWhat
      <4> QED
        BY <2>1, <4>1, <4>2
    <3> QED
      BY <3>1, <3>2, <3>3 DEF IsListener
  <2>4. ASSUME NEW p \in Protocols PROVE IsProtocol(E, p)
    <3>1. p \in Listening
      BY DEF Listening
    <3>2. /\ <<p, "upstream", "host">> \in Needed /\ <<p, "upstream", "port">> \in Needed
          /\ <<p, "rules">> \in Needed
      BY NeededWhat
    <3> QED
      BY <2>1, <2>3, <3>1, <3>2, PathsOf, TakesWhat DEF IsProtocol, IsAddress
  <2>5. Has(E, Prometheus) => IsListener(E, "prometheus")
    BY <1>2, <2>3 DEF Listening
  <2> QED
    BY <2>2, <2>4, <2>5 DEF IsProxyConfig
<1> QED
  BY <1>3, <1>4 DEF E

(* For every pair of files and every command line: the program gives up     *)
(* just when it is not given a complete configuration, a tls section with   *)
(* one file of the two included (main.rs:41-51, defs.rs:81-107 and 180-188). *)
THEOREM StartsWhenComplete == Spec => []StartsIffComplete
<1>1. SInv => StartsIffComplete
  <2> SUFFICES ASSUME SInv PROVE StartsIffComplete
    OBVIOUS
  <2>1. CASE file.config.kind # "table" \/ file.secret.kind = "malformed"
    <3>1. ~ Loads /\ ~ Complete
      BY <2>1, AbsentIs DEF Loads, Sources, Complete
    <3> QED
      BY <3>1 DEF SInv, StartsIffComplete
  <2>2. CASE file.config.kind = "table" /\ file.secret.kind # "malformed"
    <3>1. ~ IsLeaf(file.secret)
      BY <2>2, StartupAssumption DEF SInv, IsLeaf
    <3>2. Sources(file).kind # "malformed"
      BY <2>2, <3>1, MergeIs DEF Sources, Overlay, IsLeaf
    <3>3. \A path \in Paths : Values(Sources(file))[path].kind = EffectiveValues[path].kind
      <4> TAKE path \in Paths
      <4>1. Agree(Values(Sources(file))[path], EffectiveValues[path])
        BY <3>1, <3>2, SourcesChoose
      <4> QED
        BY <4>1 DEF Agree
    <3>4. Loads <=> Complete
      BY <2>2, <3>2, <3>3, KindsDecide, CompleteIsConfig
      DEF Loads, Complete, EffectiveIsComplete
    <3> QED
      BY <3>4 DEF SInv, StartsIffComplete
  <2> QED
    BY <2>1, <2>2
<1> QED
  BY <1>1, Started, PTL
=============================================================================
