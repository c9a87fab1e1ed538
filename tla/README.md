# A verification of RBAC-Gate in TLA+

RBAC-Gate (`src/`) is a gateway in front of one HTTP and one gRPC upstream. It
asks Kubernetes who the bearer of a token is (TokenReview) and whether that
identity may do what a configured rule makes of the request
(SubjectAccessReview), caches both answers, and forwards or refuses. These
modules state what that program does and what it must do, for TLC to check on
small instances and for TLAPS to prove in general.

Paths below are relative to `src/src/` unless they begin with `README` (the
repository's).

## 1. The system

| Component | State it keeps | Operations | Talks to |
|---|---|---|---|
| **Kubernetes auth client** `kube/auth.rs` | a `OnceCell` with the Kubernetes client; two moka caches (tokens, permissions), keyed by 64-bit digests, with one time to live and a capacity of 10 000 each | `client`, `authenticate`, `authorize` | Kubernetes' API; shared by both proxies through an `Arc` |
| **Auth interface** `auth/mod.rs` | none | the trait `AuthClient`, its errors and data | between evaluation and client |
| **Request evaluation** `utils/proxy.rs` | none of its own; the future of a request across two awaits | `evaluate_request`, `inject_headers`, `compile_resource_attributes`, `parse_bearer_token` | rules, client, session |
| **Rule matching** `http/rule.rs`, `grpc/rule.rs`, `utils/matchers.rs` | the variables collected so far | `check_path`, `check_rule` (two), `match_entity` | called from evaluation by callback, calls back for headers and query |
| **HTTP proxy** `http/proxy.rs` | per request: its start, the session | `request_filter`, `error_response`, `upstream_peer`, `logging` | callbacks of pingora |
| **gRPC proxy** `grpc/proxy.rs` | the same | the same, with refusals by trailers | callbacks of pingora |
| **Configuration** `config/*.rs` | read once, then immutable | `load_config`, deserializers, the split of rules by access | file system |
| **Metrics** `utils/metrics.rs` | a counter and a histogram by protocol and status | incremented by `logging` | scraped over HTTP |
| **Startup** `main.rs`, **Logging** `logging/setup.rs` | how far `main` has got; the subscriber that is installed | parse the arguments, load the configuration, build the services, run pingora | everything, once |

How they interact: pingora accepts a connection and drives one session through
`request_filter`, then (if it returned `Ok(false)`) through the upstream, then
through `logging`. `request_filter` awaits `evaluate_request`, which awaits
`authenticate`, then scans the rules synchronously, then awaits `authorize`.
Requests of both proxies meet only in the auth client: in its cell and in its
two caches. Nothing is persisted; a restart begins with empty caches.

What is hard about it, and what correctness means:

* **Concurrency in the client.** Hits, joins on a call in progress, new calls,
  expiry and eviction interleave at every await. Correct: one call per key at a
  time; a failure reaches everyone who waited and nobody later; nobody is
  forgotten; one question never gets another's answer.
* **Staleness.** A decision is used after Kubernetes may have changed its mind.
  Correct: its age is bounded by the time to live and one answer's way back,
  per decision, and a slow answer never replaces a newer one.
* **Two awaits in one evaluation.** The identity is obtained before the second
  await and used after it. Correct: what is forwarded carries one identity, the
  one that the permission was given to, and nothing the client claimed.
* **Rules.** First match decides within an access; the last source of a variable
  wins; a pattern is matched by a loop with early returns and unchecked
  indexing. Correct: it computes what the pattern says and stays in bounds.
* **Two proxies, one client.** Sessions of both protocols wait for each other's calls
  and for the connection that another makes. Correct: no session can tell, and none
  waits for ever on a call that is not its own question.
* **Two configuration files.** One is laid over the other before anything is
  checked. Correct: what the one does not say falls back to the other, and the
  program gives up only when a value is missing or wrong in both.
* **Failure on the way out.** The client hangs up, a header cannot carry an
  identity, a trailer cannot carry a message, a pattern panics. Correct: the
  session ends, is counted once, and nothing half authorized is forwarded.

## 2. Modules

| Module | What it is |
|---|---|
| `Option` | `None`, which the modules of data share. |
| `Kubernetes` | Data shared by the specifications: identities, attributes, outcomes, and a *world*, what Kubernetes would answer at one time. The assumptions on them. |
| `AuthContract` | The abstract specification of the client: `Begin`, `Decide`, `Advance`. An outcome is *justified* by worlds in a window of time; how it is obtained is not said. |
| `KubeAuthClient` | The client in detail, driven as `evaluate_request` drives it. Implements `AuthContract`. |
| `KubeAuthClient_proofs` | Its theorems. |
| `Rules` | Matching as operators: `CheckPath`, `MatchEntity`, both `check_rule`, `FirstMatch`, `CompileResourceAttributes`, and what the proxies read of a request. |
| `PathMatcher` | `check_path` as it runs, one action per way through an iteration. Computes `CheckPath`. With the documented pattern language, `Glob`. |
| `PathMatcher_proofs` | Its theorems. |
| `ConfigFile` | Scalars, paths, entries and rules of the YAML file, deserialized. |
| `ConfigFile_proofs` | Lemmas: which rule of the file `FirstMatch` finds in a loaded list, and what the recursive functions of `Rules` and `ConfigFile` come to. |
| `ConfigLoad` | The loop that splits the rules, as it runs; properties of what is loaded, with `Rules`. |
| `ConfigLoad_proofs` | Its theorems. |
| `Evaluation` | What the proxies compute of one request: token, deciding rule, injected header; and what the file has for it. |
| `GatewayContract` | The abstract specification of the gateway: a request is received, forwarded, refused or dropped, once, each under a condition on the file and on Kubernetes' recent answers. |
| `Gateway` | Both proxies and `evaluate_request`, from arrival to log entry, on `AuthContract` (composed by `INSTANCE`), with `Evaluation`. Implements `GatewayContract`. |
| `Gateway_proofs` | What it forwards and what it promises, with lemmas that tie a request's decision to the configuration file. |
| `Response_proofs` | What it answers and what it counts; its types. |
| `System` | `Gateway` and `KubeAuthClient` side by side, as deployed. Implements `Gateway`. |
| `System_proofs` | That theorem, what it gives of the deployed system, and the theorems of `HungCalls`. |
| `HungCalls` | `System` when some calls to Kubernetes never come back; the liveness of the whole. |
| `Startup` | `main`, `init_tracing` and `load_config` with the overlay of the secret file. |
| `Startup_proofs` | Its theorems. |
| `MC*` | Instances for TLC. `MCRequests` holds rules and requests that three of them use. |

How they compose:

    KubeAuthClient --implements--> AuthContract <--built on-- Gateway --implements--> GatewayContract
    System = KubeAuthClient + Gateway --implements--> Gateway
    PathMatcher --computes--> Rules <--used by-- ConfigFile, ConfigLoad, Evaluation

A statement about `Gateway`'s own steps holds of the gateway with the real client:
`SystemImplementsGateway` (proved) says that the behaviours of `System`, seen by
`Gateway`'s variables, are among `Gateway`'s, and `DeployedKeepsPromise` that the deployed
system keeps `GatewayContract`. `Startup` stands apart: it ends where the proxies begin
to listen, and `Files`, the headers and the delimiter of the other modules are what
it loads.

### 2.1 KubeAuthClient

`world[n]` is what Kubernetes would answer during tick `n`; it changes
arbitrarily with `Tick`, which is the only source of both time and changes of
mind. `cell` is the `OnceCell`, `cache` both caches (a key carries the kind of its
question). A request is in one of these places (`pc`):

| `pc` | in the code |
|---|---|
| `free` | no request in the slot |
| `client` | in `client()`: queued on the cell, or past it when the cell is set (auth.rs:51, 123) |
| `init` | running the initialiser (auth.rs:39-43) |
| `call` | leader of `try_get_with`, its call not yet decided by Kubernetes |
| `reply` | the same, the answer is on its way back |
| `wait` | joined on another's call |
| `got` | `try_get_with` or `client()` has returned to the request |

`authenticate` and `authorize` are two rounds through the same places with
different questions; `Authorize` is the step between them, and stands for the loop
over the rules (synchronous, abstracted to the attributes that its match
compiles to, or `None`). Both calls to Kubernetes are split in two, `Evaluate`
and `Deliver`, because the world may change between an answer and its arrival.
`Deliver` inserts, wakes the leader and all its waiters in one step, as moka does
under its lock on the key. An error (`CallFails`) wakes them without an insert.
A rejected token is an *Ok* for the cache (`Ok(Err(Unauthenticated))`,
auth.rs:85, 93), a rejected permission likewise (`Ok(false)`); a transport error,
a missing status and missing user info are *Errs*.

Abstractions: a digest is the constant operator `Digest`, with the assumption
that the questions in use do not collide. moka's *get*, and its check for a
waiter, are one step with the choice among hit, join and lead. An
expired entry is never returned, whether or not housekeeping (`Evict`) has
dropped it yet. Cancellation of a caller is left out: nothing in the code drops
the future of `request_filter`. Two ticks are as far apart as one likes.

### 2.2 Rules, PathMatcher

A path is its sequence of pieces between slashes, empty ones included, so that
`path_to_vec`'s filter and the built-in variable `path`, which is not filtered, are
both modelled. Strings are compared whole. `check_path`'s two ways to panic are an
outcome. `Lower` covers the methods in use.

### 2.3 ConfigFile, ConfigLoad

A scalar records what the code can tell: whether a brace opens and closes it, its
text, and whether YAML types it as a string. The last matters because
`EntityMatch` is an untagged enum, deserialized from a buffered value, while the
fields of `sar-resource-attributes` are read directly and accept a number. White
space inside braces (trimmed by the code) is not represented.

### 2.4 Gateway

`phase` says where a session is:

| `phase` | in the code |
|---|---|
| `filter` | `request_filter` has begun, the client has not been asked |
| `client` | awaiting `authenticate` or `authorize` |
| `answered` | the client has answered, `request_filter` goes on |
| `refuse`, `trailer` | in `error_response`, before its first and before its second write |
| `proxy` | `request_filter` returned `Ok(false)` |
| `failed` | `request_filter` returned an error |
| `log` | before `logging` |
| `dropped` | the task panicked |

`decision` is what the rules make of the request: it is a function of the request
and the configuration alone (`Deciding`), and is kept in a variable so that it is
computed once. External, modelled from how the code uses it: pingora
(`FailToProxy`, `Proxy`, `Free`, `Close`) and the upstream (any status, or 502). A client
may hang up at any time, but the code learns of it only when a write fails: `WriteFails`
is a choice at every write, and marks the client as gone. With a token the client of
Kubernetes answers once for both awaits; that is what `AuthContract` abstracts.

`KeepsPromise` maps a session to the contract's by `Fate`: it is pending until it has
left the place where it is decided, and then forwarded, refused or dropped until its
log entry. `Serve` gathers the steps that do not involve the client, `Calls` and
`Returns` the session's half of those that do, so that `System` can join them to the
client's half.

### 2.5 GatewayContract

It knows two variables: the worlds so far, and of each slot the request, its time of
arrival, its fate and, once decided, the reason or the header. `MayForward` and
`MayRefuse` are its content; which rule decides, what it wants authorized and what a
header with one identity is are its parameters, and `Evaluation` gives them from the
file and not from the lists the code builds. It says more than an invariant of
`Gateway` can: that a decision, once made, is final, that a request is decided at a
moment at which it may be, and what a refusal for lack of a rule, of a permission or of a
valid token implies. An internal error may come to any request with a token.

On a no-auth rule `MayForward` demands the client's own header unchanged: identity
headers that the client sent go upstream with it, as the code has it.

### 2.6 System

The client's variables and the sessions', with `world`, `ask` and `outcome` shared.
Its steps are conjunctions of a session's step and the client's (`Authenticate`,
`Answer`), or a step of one that leaves the other's variables alone (`Work`, `Serve`,
`Housekeep`, `Receive`), while `Wait` lets time pass for both. A session awaits one call at a time, so slots of
sessions and of the client's requests are the same. In `System`, other than in
`KubeAuthClient` alone, what is asked is what a session's rule and token say, and what a
session waits on may be led by a session of the other protocol.

### 2.7 HungCalls

`System` in which the leader of a question in `Hung` never moves again from `call`. Who
asks the same question joins it, for ever, which is what the code does; `HangIsContained`
is that nobody else is held, not for the connection's cell, not at the caches, not by
failures that come again and again. With nothing hung it says that every request leaves
the gateway. This is the only module that states fairness. `HeldByOwnQuestion` is the part
of it that no fairness is needed for: who has to wait has somebody to wait for, and if that
is the leader of a hung call, both ask the same.

### 2.8 Startup

A file is a tree of tables and leaves; a leaf has a kind, which decides whether serde
takes it, and a value that names the file it is from. `Overlay` is the config crate's
merge: tables key by key, anything else whole. No setting is below four keys
(`http.listener.tls.key_file`), so the recursion is written out for four levels; below them
a table of the secret file replaces the other's, where nothing is read. A `ProxyConfig` is
made of the values at `Paths`, and `IsProxyConfig` follows the nesting of the structs: an
optional section that is there, `prometheus` or a listener's `tls`, must have all that is
required in it, although nothing reads `tls` afterwards.
`init_tracing`, parsing, loading and adding the services are one action each, in `main`'s
order. The properties do not speak of the merge: `Effective` is what the secret file `Says`
of a path, if it says anything, and otherwise what the other does, and `Complete` lists the
settings that are `Needed` with what each `Takes`. Rules are a leaf here (`ConfigFile` has
what is in one). A section written as a list, which serde would read by position, is left
out.

## 3. What the runs check

| Run | Properties | Instance and why it is enough |
|---|---|---|
| `time` | `Fresh`, `CacheIsTrue`, `SingleFlight`, `NobodyForgotten`, `AuthorizeFindsClient`, `NewestAnswerWins`, `ContractSafety` | 2 requests of one token, TTL 1, capacity 1, delay 1, 3 ticks; the token's bearer changes groups, and the token may turn out to be for another audience. An entry is inserted late, hit just before it expires and just after, evicted, and computed again while an older answer is still on its way: that takes 3 ticks and 2 requests, of which one leads or makes the client while the other waits. Digests of tokens coincide with digests of permissions. |
| `loop` | `TypeOK`, `ComputesCheckPath`, `PanicsOnlyIfInsane`, `MatchesAsDocumented` | all patterns of up to 3 segments over 6 kinds, all paths of up to 3 pieces over 2 texts: every relation of lengths that the code distinguishes, with a segment before and after each special one. |
| `split` | `TypeOK`, `FirstInFileDecides`, `LastBindingWins` | all files of up to 3 of 6 HTTP rules or 3 gRPC rules, against 84 requests: tenant in path, header and query at once, headers that are missing, repeated or not text, flags without `=`, half braces, a literal, an empty path. |
| `gateway` | `TypeOK`, `ForwardedIsAuthorized`, `RefusalIsWritten`, `CountedOnce`, `KeepsPromise` | 2 sessions in progress, one token whose bearer and permissions change, TTL 1, 8 requests over both protocols, with forged and repeated identity headers, a wrong prefix, no token, the path of a rule that panics, and calls that match two rules with a permission each, of which one user has both, or only the second rule's. `bob` stands for what is no header value. An answer may be used a tick after Kubernetes has changed its mind, and no longer. |
| `system` | `ImplementsGateway` | 2 sessions of 3 requests to both proxies with 2 tokens of one user, one of them without the user's groups, and rules that ask for the same permission; TTL 1, 2 ticks: the second session hits, joins, or leads after the entry expired or was evicted, under a call that may fail. Digests are distinct. |
| `hung_calls` | `TypeOK`, `HeldByOwnQuestion`, `HangIsContained` | 2 slots, 3 arrivals of 2 of these requests, one with each token, capacity 0 and one tick, as time only adds expiry, and an entry that is evicted is led anew just the same. The review of one token hangs; the other token's request is forwarded, has no user info to show, or comes to a permission that hangs, as the world has it. Either may lead first, with the next request joining or apart. Upstreams only fail, as the status does not matter here. No symmetry, as liveness is checked. |
| `startup` | `ValuesFallBack`, `StartsIffComplete` | 10 configuration files against 22 secret files, and 3 command lines: whole, absent, not YAML, empty, or lacking a required field; a `tls` section that has one file of the two, and a secret file that gives the other, takes the section away or has a wrong one; a secret that replaces a value, adds a section, completes the configuration, sets a section or field to null, gives a value of the wrong kind, puts a table where a value belongs or the reverse. |

`time` is of a system that never stops and is checked for deadlock; the others stop by
design when the loop has returned, the file is read, `main` has reached `run_forever` or
exited, the bounded number of requests has been served or, in `hung_calls`, every slot is
held by a call that hangs, and say `CHECK_DEADLOCK FALSE`.

Bounds, all of them constants: `MaxTime` (ticks), `MaxReply` (ticks an answer may
take; also an assumption on the environment, see 5), `Capacity`, `MaxRequests`
(requests of a `Gateway` run), and the sizes of the sets in the `MC` modules.

What each property says is in the comment above it. In short:

* `SingleFlight`, `NobodyForgotten`, `AuthorizeFindsClient`: the protocol of cell
  and calls.
* `CacheIsTrue`: an entry under a question's key is Kubernetes' answer to that
  question at the time it is marked with; errors are not cached.
* `Fresh`: with `at` the time of a decision and `arrived` that of the request,
  `arrived <= at + MaxReply` or `arrived < at + MaxReply + TTL`. Both decisions of a
  request are bounded from its *arrival*, so that ages do not add up along it.
* `NewestAnswerWins`: entries are only replaced by later decisions.
* `ContractSafety`: the client implements `AuthContract`.
* `ForwardedIsAuthorized`: the property of the gateway. What goes upstream without
  a token is the client's header unchanged and matched by a no-auth rule; with one
  it carries exactly one value under each identity header, both of one identity,
  which Kubernetes vouched for in the window, and which in the window had the
  permission that the *first matching rule of the file* compiles to.
* `RefusalIsWritten`, `CountedOnce`: every way out.
* `KeepsPromise`: `Gateway` implements `GatewayContract`; `ImplementsGateway`: `System`
  implements `Gateway`.
* `HangIsContained`: every request leaves the gateway, but for those that wait for the
  answer to a question that hangs. `HeldByOwnQuestion`: nobody waits for a hung call
  without having asked its question.
* `ValuesFallBack`: every setting is the secret file's, else the configuration file's, else
  the default. `StartsIffComplete`: the program adds its proxies exactly when the files
  together give what is needed: it does not give up for the want of a secret file, nor for
  what one of the files has, and does not go on without what neither has.
* `ComputesCheckPath`, `PanicsOnlyIfInsane`, `MatchesAsDocumented`: the loop
  against an operator, and its language against a declarative reference: the pieces of
  the path can be divided, in order, among the segments of the pattern (`Divides`).
* `FirstInFileDecides`: the first rule of the file that matches decides, whatever rules
  of the other access surround it. `LastBindingWins`: of the places of a rule that bind
  one variable, the last in the code's order gives its value.

### Fairness

Only `HungSpec` states any. `WF(HungStep(r))`: tokio polls a woken task; Kubernetes' answer
or a failure arrives, unless the call is hung; an upstream answers or is given up (pingora's
concern; the code sets no timeout of its own on the peer). That the client answers a
session is not assumed: it follows, also where a session waits on a call that another
leads. `SF(InitClient(r))`: `OnceCell` hands out its permit through a semaphore whose
waiters queue in order, so that a request is not overtaken for ever by others whose
initialisers fail. Weak fairness does not give this, as each failure disables and
re-enables the action. Nothing is assumed about arrivals, eviction or time.

## 4. What is proved

`tlapm` proves, for every value of the constants that the assumptions allow:

*KubeAuthClient* (`KubeAuthClient_proofs`): `TypeCorrect`, `OneCallPerKey`,
`NoLostWakeup`, `ClientThereForAuthorize`, `CacheCorrect`, `BoundedStaleness`,
`EntriesOnlyGetNewer`, `RefinesContract`. They follow from one inductive invariant
`IInv` (theorem `Invariance`), whose parts beyond the properties are:

* `PhasesInv`: which variables a place of a request fills; a permission is asked
  only with an identity in `auth`, an Ok that came from the token's question.
* `ClientInv`: who has got as far as a call has found the cell set, and one request
  at a time makes the client. `AuthorizeFindsClient` rests on it.
* `AnswersInv`: an answer on its way is Kubernetes' at its time and not overdue; an
  entry was at most `MaxReply` old when it was inserted. `Fresh` is not inductive
  without it: a hit inherits its bound from the entry, `Now < ins + TTL` and
  `ins <= at + MaxReply`.
* `NewestInv`: an answer under way is no older than the entry under its key. This
  needs `SingleFlight` (no second leader inserts meanwhile) and is what
  `NewestAnswerWins` is.
* `ToldInv`: what a request holds is backed by a world at a known time, and errors
  are those of the question's kind. With `Fresh` it puts that time in the
  contract's window.

`RefinesContract` takes `IInv` for granted at every step and shows that `Arrive` is
`Begin`, `Finish` is `Decide` with a justified outcome, `Tick` is `Advance`, and
every other action leaves the contract's variables as they are.

*PathMatcher* (`PathMatcher_proofs`): `LoopComputesCheckPath` and
`SanePatternsDoNotPanic`, for every pattern and path, from the invariant that the
segments before `i` are scanned and fit, that `variables` is what the captured ones
among them bind (the last of each name), and that the checks on the lengths have
been passed. `MatcherIsGlob`: with `**` only at the end and no `{*}` there, a path matches
just when its pieces can be divided among the segments. One direction gives the division;
in the other, any division is shown to give segment `k` piece `k` up to a `**`
(`CutInOrder`), which is what the loop compares.

*ConfigLoad* (`ConfigLoad_proofs`): `FirstRuleDecides`, for every file and request, from
the invariant `LoopInv` that the two lists are what `ReadUpTo` has of the rules read so
far. That the first match in such a list is the file's first (`FirstMatchInFile` in
`ConfigFile_proofs`) is shown by induction over the file, written as a least
counterexample (`LeastMember`), which needs no induction theorem. That a recursive
function over a list exists and obeys its equation is one lemma (`Iteration`), used for
the lists read, for the segments of a path and for what `match_entity` binds.

`LastPlaceWins`, for every file and every request: of the places of a rule that bind a
variable the last in the code's order gives its value. Of one source, the last entry or
segment wins (`BoundByIsLast`, `PathWins`); a later source overrides an earlier one
(`ExtendWins`, and `InsertWins` for the built-in variables); `HttpRuleWins` and
`GrpcRuleWins` put the sources in the order of the two `check_rule`.

*Gateway* (`Gateway_proofs`): `NothingUnauthorized`, that `ForwardedIsAuthorized` holds
for every configuration, set of requests and course of Kubernetes' answers. Its inductive
invariant follows a session: its decision is its request's (`Session`), it asks the client
with its own token and its rule's attributes and after it began (`Asking`), so that the
contract's window lies in the property's (`JustifiedIsBacked`); an answer that allows is
backed by recent worlds (`Answered`), which only grow (`WorldsKept`); and what is forwarded
was either let through by a no-auth rule or is the injected identity of such an answer
(`Forwarded`). That a permission was given means that a rule matched, as Kubernetes
permits attributes and `None` are none. `DecidesByFile`, from `FirstMatchInFile`, turns
the rule of the loaded list into that of the file.

`GatewayKeepsPromise` takes the same invariant for granted and maps every step:
`Accept` is `Receive`, `Log` and `Close` are `End`; `ForwardOpen` and `Inject` are
`Forward`, with `ForwardedMay`; `Refuse` and `InjectFails` are `Refuse`, where
`UndecidedByFile` shows that the loop over the loaded list finds nothing only if the
file has nothing; `Panic` is `Drop`; the rest stutters.

*Responses* (`Response_proofs`): `RefusalsAreWritten`, from an invariant `WInv` of what has
been written in each phase: nothing before the refusal, its head before its trailer, and in
`failed` either nothing, with an identity that no header can carry, or the head of a gRPC
refusal whose text no header can carry. `EveryRequestCounted`, that `CountedOnce` holds: the
requests of a protocol that have arrived and were not dropped are as many as those in
progress and those counted, of which every step moves at most one from the one to the
other (`Counting`; the sets are finite because each request that joins them is one more).
`TypeCorrect`: a response is one the code can write, and each variable has its type;
that the counters stay within the bound on arrivals follows from `Counting` alone. The
three are parts of one invariant, `Ledger`, which takes that of `Gateway_proofs` for
granted.

*System* (`System_proofs`): `SystemImplementsGateway`. The client's `IInv` is an invariant of
the system too, with `SessionsInv`: the sessions' functions have the slots as their domain,
and a session in `filter` has one of the requests and its own decision, so that what it
then asks is within the client's tokens and attributes. A step of
both is the gateway's step, as `Finish` is the contract's `Decide` with a justified
outcome; the client's own steps are stutters of the gateway; `Tick` is the same for both.
What is proved of `Gateway`'s specification is therefore true of the deployed system, and
stated of it: `DeployedForwardsAuthorized`, `DeployedWritesRefusals`,
`DeployedCountsRequests`, `DeployedKeepsPromise`. `System` takes its `Gate` from
`Response_proofs`, which is `Gateway` and its theorems, so that they can be cited here;
they hold of the instance once its assumptions do (`SameKubernetes`, `SystemAssumption`).

*HungCalls* (`System_proofs` too): whatever is hung, the system is still an implementation
of `Gateway` (`HungImplementsGateway`), its types hold (`HungTypeCorrect`), and
`HangHoldsItsOwn`: `HeldByOwnQuestion` follows from the client's `NobodyForgotten` and from
the fact that two questions with one key are the same (`KeyInjective`).

*Startup* (`Startup_proofs`): `SettingsFallBack` and `StartsWhenComplete`, for all pairs of
files. The lemma they rest on is `OverlayChooses`: at every path of up to four keys the
merged tree has what one of the two files has there, or tables in both. So no value that a
configuration is made of comes from anywhere else, and whether the values make a
configuration depends on their kinds alone (`KindsDecide`). `CompleteIsConfig` is that the
nested checks of the structs ask for just the settings that `Needed` lists.

*Types*: `TypeCorrect` in `PathMatcher_proofs` and `ConfigLoad_proofs`, too; the latter from the
fact that the lists hold images of the file's rules only.

Assumptions: `WorldsAssumption`, `KubernetesAssumption`, `ClientAssumption`
(`None` and the marks are no data; delays and times to live are naturals),
`DigestAssumption` (no collision among the questions in use), `PathAssumption`
(types), `FilesAssumption` (the rules of a file, and of each rule the path, headers and
query, are lists or absent) and
`EvaluationAssumption` (rules of a file are a sequence and none is `None`, protocols, tokens
and the attributes that rules lead to are those declared, requests have both identity
headers in their domain, and the two differ, which the loader does not enforce, see 5),
`GatewayAssumption` (`None` is no response, the bound on arrivals is a natural number),
`SystemAssumption` (the last two, of `System`'s constants), `HungAssumption` (what hangs is
a question), `StartupAssumption` (a file is a table, malformed or absent, and no section of it is a list). TLC evaluates
each on the instances.

Every invariant and every refinement that a passing run checks is stated by a theorem
above. Only model-checked: liveness (`HangIsContained`), which TLAPS does not do. The five
runs of section 5 are counterexamples. `ImplementsGateway` and `KeepsPromise` have no
fairness, so nothing of them is left to TLC either.

## 5. Where code and documents disagree

Each of these is a run that TLC ends with a counterexample, and an entry under
"findings" in `PROJECT.json`.

| Run | The document | The code |
|---|---|---|
| `audiences` | README.md:95, audiences are passed to the TokenReview API | `audiences: None` (kube/auth.rs:64) |
| `globstar` | README.md:162, `**` is a globstar | the match ends at the first `**` (http/rule.rs:32) |
| `values` | README.md:113, an entry with a value matches it | a value that is no string is ignored (config/defs.rs:7-18) |
| `panic` | README.md:13, an error is returned | `path: /` makes the task panic (http/rule.rs:14) |
| `status` | README.md:13, HTTP 401/403 | always 403 (http/proxy.rs:89) |

Seen while reading, and not worth a run: `--json-logs` (README.md:204, main.rs:24) does
nothing, as `init_tracing(false)` is called before the arguments are parsed and the flag is
never read (main.rs:39, `InitTracing` in `Startup`); the default of the groups' delimiter is
`|` (config/defs.rs:78) and not `,` (README.md:25 and 98); a query parameter without `=` is not seen by an
exists check (http/proxy.rs:111, README.md:123); a header of a name the rule's path also
binds takes the variable over (http/rule.rs:70, and the README's own sample); the loader does
not ask that the two identity headers differ in name, and with one name the groups would
replace the user (utils/proxy.rs:63-64).

An assumption on the environment that the code does not enforce: a call to
Kubernetes ends within `MaxReply`. The code leaves this to the defaults of the kube
library. Without it staleness is unbounded by as much as an answer may take, and
requests wait for as long as it takes. `HungCalls` drops it for some calls and shows that
the harm is theirs alone.

## 6. Not modelled

* The histogram of durations (its labels are the counter's, its values are real time), the
  registry and the endpoint that serves them.
* Binding the listeners, and what pingora does when it cannot.
* TLS (its section is checked when the configuration is read, and not used), HTTP/2 framing, bodies, streaming: pingora's.
* Cancellation of a caller inside `try_get_with` (see 2.1).
* Collisions of digests (an assumption).
* What an upstream makes of groups whose names hold the delimiter.
* The filter that the environment gives the log.

## 7. Plan

Done: `Kubernetes`, `AuthContract`, `KubeAuthClient` with its proofs (the client is
where requests meet, so it came first); `Rules`, `PathMatcher` with its proofs;
`ConfigFile`, `ConfigLoad` and `Gateway`, with their proofs; then `GatewayContract` and
`System` with the proofs of both refinements, `HungCalls`, `Startup`; then the proofs of
every invariant that the runs check: responses, counters and types of `Gateway`, the last
binding, the pattern language, the safety half of `HungCalls`, and `Startup`, whose overlay
was rewritten without recursion for it.

Next: the header and query loops of `match_entity` as they run, as `PathMatcher` does for
paths, and a proof that they compute `MatchEntity` (`BoundByIsLast` has the half on the
variables).
