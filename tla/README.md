# A verification development of dnsix

dnsix is an IPv6-only DNS64 forwarder. This directory holds TLA+ modules that
model it, TLC configurations that check them on small instances, and proofs,
checked by TLAPS, of the most important results for instances of any size. Paths
such as `upstream.rs` below are relative to `src/src/`; `PROJECT.json` names the
exact lines of each definition.

## 1. The system

| Part | Keeps | Does | Interacts with |
|---|---|---|---|
| Upstream connections (`upstream.rs`: `Conn`, `Upstream`, `UpstreamSet`) | one live connection per upstream in a cell behind an async mutex, with a generation number | sends a query, redials once when the connection is dead, fails over on errors and SERVFAIL | called by every resolution that misses the cache, concurrently |
| Resolver pool (`upstream.rs`: `Pool`, `Inner`, `RefreshGuard`) | the cache, the set `in_flight` of refresh slots, the map `single_flight` of broadcast senders | cache lookup, coalescing of misses, serve-stale with a client-response timer, prefetch | calls the upstreams; called by the handler, the chain and the blocklist loader |
| Response cache (`upstream.rs`: `StaleCache`) | entries with a deadline, inside moka | caps lifetimes, says fresh / stale / gone | state of the pool |
| Request handler (`handler.rs`) | nothing between requests | form and policy checks, AAAA and A lookups in parallel, relay or synthesis, counters, log record | pool, chain, allowlist, blocklist, log, metrics |
| Synthesizer chain (`synth/mod.rs`, `synth/nat64.rs`) | the configured order | first synthesizer that yields a usable address wins; optional NAT64 record behind it | resolves reference names through the pool |
| CDN providers (`synth/cdn.rs`) | tables | recognise a name, its CNAMEs or its addresses, rewrite a hostname, return a plan | called by the chain |
| Query log (`querylog.rs`) and live page (`web.rs`) | a ring behind a mutex, a broadcast channel | record, snapshot, stream to pages | fed by the handler |
| Blocklist (`blocklist.rs`) | block set, allow set, statistics per list | fetched and parsed once at start, then read-only | fetches through the pool; awaited by main |
| Client allowlist (`acl.rs`) | networks, masked | admits or refuses a client | parsed by main, asked by the handler |
| Configuration (`config.rs`), startup (`main.rs`) | the settings | validation; builds, dials, loads, spawns, binds | everything above |
| Metrics (`metrics.rs`), dashboard (`web.rs`) | counters | render text and HTML | read by HTTP clients |

What is hard here: two in-memory maps that bridge awaits (`in_flight` with a
drop guard, `single_flight` without one), detached refresh tasks racing a
timer, a mutex held across a dial and shared by requests and refreshes, late
failures of connections that others have already replaced, parallel lookups
that fail independently, answers whose lifetime is derived from other records,
hostname rewrites over shifting indices, a log whose ring and stream are updated
in two steps, lists that fail one by one, and a start of which every step may
fail after others have had effects.

What makes each part correct:

* **Pool**: one leader per missed question, one refresh per question, no
  follower that waits for nobody, answers only from upstreams and about the
  right question, nothing served beyond its lifetime, and a failure only for a
  client for whom the cache had nothing.
* **Upstreams**: a dead connection costs one redial, a live one none; a retry
  uses another connection; failure only when every upstream has earned it.
* **Both together**: what the pool assumes of a fetch, the upstreams provide.
* **Chain**: the first that yields, and neither a barren synthesizer nor a
  generic one hides a better answer; NAT64 addresses only where a translator
  exists; TTLs within those of the sources.
* **Providers**: a rewritten endpoint is the same endpoint; a rewrite is not
  rewritten again; nobody else's address goes into a provider's prefix.
* **Handler**: policy before work, synthesis for NODATA and nothing else,
  counters that balance, a log that says what was answered.
* **Log**: the ring holds the latest, the stream loses only what the channel
  has lost, and the page accounts for every row it misses or shows twice.
* **Start**: it ends, in serving exactly what was configured or in an error,
  and which of the two depends on nothing it need not depend on.

## 2. The modules

```
StaleCache <- Pool <- PoolClaims <- MCPool          Pool implements ResolveService
              Pool <- Stack <- MCStack              Stack: INSTANCE Upstream
Upstream   <- MCUpstream
Registry   <- Chain <- Handler <- MCHandler         Handler also EXTENDS ClientAcl
              Chain <- Cdn <- MCChain               Cdn also EXTENDS Addresses
QueryLog
Blocklist, ClientAcl, Registry, Addresses <- Startup <- MCStartup

Pool_proof <- Stack_proof                           Stack_proof: INSTANCE Upstream_proof
Upstream_proof
Chain_proof <- Handler_proof
Chain_proof <- Cdn_proof
Startup_proof                                       with the lists and the allowlist
QueryLog_proof
```

**StaleCache** has no variables. It says what may be kept (`Lifetime`, `Store`),
when an entry is fresh, stale or gone, when a hit asks for a prefetch, and what
is handed out. A message is one of four kinds, the ones `resolve_and_cache`
treats differently, and a TTL. `Store` keeps the old entry when the new reply is
not cacheable, as the code does.

**Pool** runs any number of calls of `resolve_observed`. `pc` is where a call
is: `new`, then `direct` (not cacheable), `prefetch` (fresh hit near expiry),
`stale` and `waiting` (serve_stale), or `missed`, then `leading`, `freeing`,
`publishing` or `following` (resolve_coalesced), and `done` or `panicked`.
`task` is the refresh it spawned: `running`, `stored` (the cache is written, the
guard not yet dropped), `done` or `panicked`. Each step between two accesses to
shared state is an action of its own, because the runtime is multi-threaded:
the cache lookup and the look at the map are two steps, and so are freeing the
slot and sending, storing and releasing. A fetch takes any time and ends with
any reply or a failure. `Evict` lets moka drop any entry at any time, which
includes expiry and capacity. The Err arm of `rx.recv` is not an action:
`FollowersConnected`, an invariant that is proved, is the condition under which
it cannot be taken.

**ResolveService** is what a caller of the pool may rely on: each request is
answered once, with something heard about the question it asked, where a failure
counts as heard only if a client's own resolution failed. `Pool` implements it;
`Service` in `Pool` is the refinement mapping (`Heard` collects what was fetched
by requests and by refreshes, and of the latter only what did not fail).

**PoolClaims** states a sentence of a comment that some execution contradicts
(section 4).

**Upstream** runs queries through `UpstreamSet::resolve`. `cell` and `gen` are
the generation in the cell and the last one given out, `holder` the query that
dials under the mutex. `Dial`, `Dialed` and `DialFails` are the critical section
that spans an await; `Reuse` and `Invalidate` are those that do not and need the
mutex free. `lost` and `passed` are history: which connections failed a query
and why it went on.

**Stack** is the pool over the upstreams, as `Pool::connect` builds them. A
fetch of `Pool` is a call of `UpstreamSet::resolve`: `Resolves` takes its steps
in the instance `Up` of `Upstream`, `Returns` hands the verdict to the pool. A
panic drops the call with its task and the mutex it held (`Unwinds`). A request
makes at most one fetch, its own or its refresh's, so that requests are the
queries of `Up`.

**Registry** has the ids, the partial order among them and what `Chain::build`
accepts; chain and startup share it.

**Chain** is `synthesize` as the actions `Resolve`, `TryNext`, `Succeed` and
`GiveUp` of each call, over the configurations `build` accepts. An address is
abstracted to where it comes from (an embedded A record, a transform, a
constant, a borrowed or fused reference record), which is what globality,
eligibility and TTLs depend on. What a provider's `detect` returns is any plan.
`heard` is what was resolved at each position of the chain, and not of each id,
because `build` accepts an id that is listed twice.

**Cdn** composes the chain with the providers: `Start` begins a call with the
plans that `Detect` makes of a name, its CNAMEs and its A records. A name is a
sequence of labels and a label a sequence of its dash-separated parts, which is
what the rewrites take apart. Indexing past the end, a panic in Rust, is the
label `Panic`. All of `MatchRewrite` and of the range and special providers is
there; of the tables `MatchConst` and `MatchBorrow` there are a few entries of
each shape. `Buckets` and `Regions` are constants: from them `Endpoints` makes
every documented form of an S3, an OSS and an Oracle storage endpoint, each with
its dual-stack name. `CdnAssumption` says which buckets and regions these may be:
no bucket of two labels, and no label that is itself the name of a service, an
OSS region, or a mark the rewrites look for. Section 4 says what becomes of the
others. `Facts` is the type of what a call may start from: any name, CNAMEs,
addresses and SOA records.

**Addresses** has the two address classes, `InCidr`, and the embedding of an IPv4
address in a prefix, over octets and 16-bit segments.

**ClientAcl** has `mask`, the parsing of an entry, `contains` and `allows`, over
words of `Width` bits. An address is the set of its one bits; the shift by a
whole word, for which `mask` has its special case, loses nothing on a real
machine and is modelled that way in the mutant.

**Handler** composes with Chain by extending it: the calls of the chain are the
requests, and the chain's variables are part of its state. `main` and `side`
are the two lookups of `tokio::join!`, which end in either order; the pool
behind them is the environment. The decisions after the join are one action
per branch, in the order of the code. The allowlist is `ClientAcl`'s; whether
the blocklist lists a name is part of the message.

**QueryLog** splits `record` into `Push` (under the lock) and `Send` (after
it), so that ring and channel may disagree on the order. The broadcast channel
of tokio is external: it retains the last `Capacity` values, and a receiver that
has fallen behind is told so and resumes at the oldest retained. `rows` is what
the page shows: rendered from a snapshot by one request (`Render`), and from
another one's subscription on kept to `MaxRows` by the script.

**Blocklist** is `load`, one list after the other, where each request ends with
a body, a redirect or a failure, what `parse_line` makes of a line, and
`is_blocked` as the walk it makes from a name to the root, a function defined by
recursion on how many labels are left. A body may end early, in the middle of a
line too.

**Startup** is `Config::validate` and `main`, from the configuration to the two
sockets, with `Blocklist`'s load as the step it awaits and the two tasks it
spawns. Which upstreams are down and which ports are taken is the environment.

## 3. What is checked

Every run finishes within a minute or two on two workers.

| Run | Instance | Shows |
|---|---|---|
| `pool_safety` | 3 requests, 2 questions, DO bit free, 4 kinds of reply, clock to 3, caps 2 and 1, panics everywhere; 1.2 million states | `RefreshExclusive`, `SingleFlight`, `FollowersConnected`, `FollowersShareAnswer`, `CachedNeverFails`, `MetricsAgree`, `ServesWithinLifetime` |
| `pool_live` | 3 requests, 1 question, clock to 2, panics of refreshes and direct resolutions | `ImplementsService`, `EveryRequestAnswered` |
| `upstream` | 2 queries, one Do53 and one DoT upstream | `DialingAlone`, `RedialsOnlyTheLost`, `RetriesOnAnother`, `GivesUpOnlyAfterTwo`, `EveryQueryEnds` |
| `stack` | 3 requests of one question, one of them past the cache, their refreshes, 1 upstream, panics | `FailureIsEarned`, `FetchesEnd` |
| `chain` | 1 call, every provider, 8 configurations, of which `build` rejects three; storage endpoints of every documented form, for a bucket of no label (in the path), one and three, in three regions; names that are too short, CNAMEs, mixed addresses, SOA records | `FirstThatYields`, `SpecificBeforeGeneric`, `TranslatorOnlyAsConfigured`, `NeverOutlivesItsSource`, `RewritesReachTheEndpoint`, `RewritesSettle`, `EmbedsOnlyItsOwnRange` |
| `handler` | 2 requests of 10 sorts, 6 main and 4 side answers, failures included | `PolicyBeforeResolution`, `SynthesizesOnlyNodata`, `EmbedsItsOwnLookup`, `CountersBalance`, `LogTellsTheTruth`, `EveryRequestEnds` |
| `querylog` | 4 records, ring and channel of 2, a page of 3 rows that may be reloaded and reconnect | `RingHoldsTheLatest`, `StreamsInOrder`, `SkipsOnlyTheLost`, `RowsAreAccountedFor`, `ReachesLivePages` |
| `startup` | 21 configurations, most of them unsound in one way each, 8 environments; 3 overlapping lists with an exception, 3 redirects, bodies cut off anywhere | `BlocksAsListed`, `ServesWithTheRest`, `ServesOnlyAsConfigured`, `StartsOrFails` |

`pool_safety` and `handler` have a type invariant as well; the other modules'
are proved (`Upstream`), part of a proved invariant (`QueryLog`, `Chain`) or
left out. The comment above each property says what it means and which behaviour
of the code it is about. For each property there is a mutant, a plausible
mistake in one mapped definition, that makes the run fail; the mutants stand
beside the definitions they change.

**The bounds.** Three requests are a leader, a follower and one who arrives
between two of their steps, or two stale hits and one fresh; a second question
is there so that slots could be mixed up. The clock passes every boundary the
code compares with: with caps of 2 and 1 and a stale window of 1, an entry can be
fresh, at its deadline, stale, and gone, and be replaced meanwhile. The proofs
remove these bounds for the properties they cover. Two queries on an upstream
are one that loses a connection and one that replaces it first; each makes at
most four exchanges, so generations are bounded without a guard. In the stack
the clock stands still and every hit asks for a prefetch (`PrefetchDivisor = 1`),
so that a refresh competes with a miss and with a DNSSEC query for one mutex. One
call of the chain is enough for the chain alone because calls share nothing but
the hit counters; two run inside the handler. Four records overflow a ring and a
channel of two twice, and a page of three rows once. The lists of the startup
instance are chosen to disagree, and only one configuration loads them, because
nothing else in the start depends on the lists. Words of three bits have every
kind of prefix: none, some, all, and too many. TTLs and times are small units
rather than 32-bit seconds: the code only takes minima and compares, apart from
the sum of a deadline and the window, which stays far below what an `Instant`
holds. All systems may stop, requests being finite in number, so that deadlock is
not an error; that nothing stops too early is what the liveness properties say.
Symmetry is used in safety runs only.

**Fairness.** Weak fairness of a task's own steps is the executor: a task that
is ready is polled. A foreground fetch ends because each exchange has a timeout
of its own (`UPSTREAM_TIMEOUT`) and the loops around it are bounded; `Upstream`
assumes that of single exchanges and dials and shows it of whole queries
(`EveryQueryEnds`), which `Pool` and `Handler` then assume of lookups. For the
dial of a DoT upstream the code sets no timeout; there it is the TCP and TLS
stack that ends it. `Pool` alone assumes nothing of a refresh's fetch: a stale
answer is given even if the refresh hangs. `Stack` shows where that ends. It
proves `Pool`'s assumption (`FetchesEnd`) from the fairness of single steps, and
needs, beyond that of foreground requests, that a dial ends *whoever it is for*:
drop that of refreshes and TLC finds a refresh that hangs in a dial with the
upstream's mutex, and every client query of that upstream behind it. A query
waits for a mutex finitely often, so that weak fairness is enough for it. A
page's stream is polled while the page is connected. `StartsOrFails` rests on
`FETCH_TIMEOUT` for every request of a list and on dials and binds that return.

## 4. Where the code does not do what its comments say

Four runs end in a counterexample, each to a sentence of the repository.

* `pool_panic` / `FollowersSurvivePanic`. *r1* leads, *r2* follows, *r1*
  panics while resolving. The comment in the Err arm (`upstream.rs:555`) expects
  *r2* to be woken. But the map keeps the leader's `Sender`, so the channel
  never closes: *r2* waits forever, and every later miss of the question joins
  it. The refresh slots have a drop guard for the same situation.
* `blocklist_ok` / `OkMeansLoaded`. The connection ends in the middle of a
  list; the source is shown as "Fetched and parsed."
* `list_counted` / `DroppedRulesAreCounted`. ADR 0004 has every rule that
  cannot be represented skipped and counted. `example.com$third-party` and
  `example.com##.ad` begin with a plain domain, reach the bare-domain arm, and
  are ignored without a count.
* `s3_region` / `S3ReachesTheEndpoint`. The website endpoints of the older
  regions join service and region by a dash. `s3_rewrite` sends them to
  `us-east-1` and overwrites the bucket.

Smaller observations, without a run of their own.

*Pool.* A request that missed before the leader stored its answer may find the
slot free and make a second round trip for what is fresh in the cache; a second
refresh may be spawned after the first has finished, by a request that read the
ageing entry before. `dns_upstream_failed_total` counts failed background
refreshes too, although its help text says that the client got SERVFAIL. The
metrics snapshot, "a point-in-time copy" (`metrics.rs:89`), reads its counters
one by one.

*Handler and chain.* A passthrough query for which every upstream failed is
logged as `Passthrough`, while `Outcome::ServFail` is described as "Every
upstream failed; the client got SERVFAIL". An address that Fastly's rule fuses
from a reference record and an A record has the TTL of the reference alone.
`Chain::build` accepts an id that is listed twice, and the chain then tries it
twice. The comment on `PRECEDES` explains its pairs by shared IP space, which
most of them no longer have.

*Rewrites.* A two-label bucket before a plain `s3` has a label duplicated, and a
dotted bucket before a region loses one; `s3-us-gov-west-1` takes a branch that
glues the region to the service. OSS recognises every `*.aliyuncs.com`, so that
`www.log.aliyuncs.com` is resolved as `log.aliyuncs.com`, and takes a bucket
with three or more dash-separated parts for a region. The Akamai prefix is put
before a name that already has it, which is why `RewritesSettle` leaves Akamai
out; it also leaves out two sorts of name that are nobody's endpoint
(`Strays`): OSS with a region that its table does not have, or beside a second
label `oss`, and S3 with `dualstack` in the place of the region or of the
top-level domain. A rewritten name of those may be rewritten once more. A label
`oss-`, with nothing behind the dash, is not rewritten. The msedge zone is
searched for as a substring.

*Log.* The comment on `BROADCAST_CAPACITY` says a page that lags resumes from
the newest entries; the channel resumes from the oldest it has, which
`SkipsOnlyTheLost` states and whose mutant is the comment's behaviour. The live
page promises "Newest first", which two concurrent records may break, the more
so as an entry is stamped before the ring's lock is taken; what is missing or
shown twice is bounded by `RowsAreAccountedFor`. The log keeps recording when
the dashboard could not bind its port.

*Lists and start.* An entry with a leading dot is counted and blocks nothing.
Names in a comment behind a hosts line are blocked. A bare `domain^` is ignored
without a count. One dead upstream of several refuses the start, although each
of them would be failed over later. An IPv4-mapped `nat64_prefix` is accepted.

## 5. What is proved

Results are of the form `Spec => []P` for the property of that name, or `Spec =>
P` for an action property and a refinement, under the assumptions named in the
modules and nothing else. Each proof has a lemma per action or per conjunct of
its invariant; the theorem follows from those. The invariants were checked by
TLC on the instances of section 3 before they were proved.

**Pool_proof**, for any set of requests (finite), questions, replies and limits,
and panics anywhere: `TypeOK`, `RefreshExclusive`, `SingleFlight`,
`FollowersConnected`, `FollowersShareAnswer` and `CachedNeverFails`. The
inductive invariant `PInv` adds to these

* `Placed`: at each place of a request its status, its channel, its task and the
  response it holds are what the code has put there by then. In particular a
  cached answer is already held when a refresh is waited for, which is why its
  failure cannot replace it;
* `Followed`: a follower that has been sent something was sent what its leader,
  by then done, returned.

`FollowersConnected` is the delicate one: a slot is emptied only by its holder on
the way to publishing, and is refilled only when empty, so a waiting follower's
channel is either in the map or in the hands of a leader about to send. A leader
that panics keeps its slot full, which keeps the invariant and is exactly why
its followers hang.

The rest of the module is about what requests are answered with. `ServiceInv`
says that whatever the cache keeps or a request holds was heard, about its own
question, from an upstream (`Kept`, `Told`), that whoever is followed leads
itself (`Led`), and that what was heard are facts (`Factual`). From it follow

* `ImplementsService`, the refinement of `ResolveService`, step by step: nothing
  heard is forgotten, a fetch that ends is a `Hear` (or a `Relay`, for a direct
  request, which is answered with it at once), a request that ends otherwise is an
  `Answer` with a fact heard about its question, and every other step but the loss
  of a request that panics is a stutter. `Told` is why the step that ends a request is a
  step of the service at all: without it the answer might be to another question;
* `ServesWithinLifetime`: an entry's deadline is within the TTL and the cap of the
  reply it came from (`Lasting`), so that what the lookup does with the deadline
  bounds what is handed out;
* `MetricsAgree`: each counter is the size of a set of requests, and one lemma
  (`OneJoins`) says how a size moves when one request joins. It needs `Aging`: a
  stale answer is older than anything its refresh can return. Otherwise a request
  that gave the stale answer, and is counted for it, could not be told apart from
  one that relayed its refresh.

**Upstream_proof**, for any set of queries and number of upstreams: `TypeOK`,
`DialingAlone`, `RedialsOnlyTheLost`, `RetriesOnAnother`, `GivesUpOnlyAfterTwo`.
The invariant `IInv` adds where each query is and which generation it has
(`Located`), that nothing is lost that was not given out (`LostBounds`), that a
connection let go of does not come back to its cell (`LostNotKept`), that the
turn of the loop equals the number of connections lost (`Turns`), and that
upstreams are passed in order (`PassedBefore`). `LostNotKept` is what makes
`RetriesOnAnother` inductive: without it a state in which the cell still holds
what the query has just lost would be possible before the second turn.

**Stack_proof** puts the two together, for any requests, upstreams and panics.
`StackIsAPool` says that every behaviour of the stack is one of `Pool`, so that
all of Pool_proof holds for fetches that share connections and mutexes.
`UpstreamsUnderThePool` carries over what Upstream_proof has shown, whose `IInv`
is an instance here; this is not for free, because a panic drops a call half way
(`Unwinds`), which is no step of `Upstream`: the invariant survives it because
the mutex goes with the call, and nobody else relied on what it held.
`FailureIsEarned` follows from both invariants and one link between them
(`Blamed`): whoever holds a failure, by its own fetch or published by a leader,
holds it because the upstreams' verdict on that fetch was one, and a verdict
stands (`VerdictStands`).

**Chain_proof** has lemmas and no specification of its own: the chain is called
by others, and what it shows holds for any caller whose steps are the chain's or
leave it alone. `ChainInv` says that every position a call has left behind
yielded nothing, and of a call that has ended, what it ended with and why. That
the least of a set of TTLs exists and bounds them all (`LeastIsLeast`) is proved
from the well-founded order of finite sets, because the chain takes minima of
sets of any size.

**Cdn_proof** is one such caller, the chain with the plans of the real
providers, for any calls, any names, CNAMEs, addresses and reference records,
any configuration, and any buckets and regions of `CdnAssumption`. `CdnInv` is
`ChainInv`, the type of the facts, and that the plans of a call are those
`Detect` makes of its facts (`Faithful`). Its results are

* `ProvidersKeepToTheChain`: the four properties of the chain with these plans,
  which takes that `Detect` returns plans the chain may be given, of the right
  kind for each id;
* `EmbedsOnlyItsOwnRange`: what a winner of the three range providers embeds is
  what its plan took, and its plan took the addresses `Inside` its range;
* `RewritesSettle`, for names of any number of labels. The rewrites work on the
  reversed labels and shift indices as they insert and remove; a lemma for each
  splice says what is then at each index, one for each search when it finds
  what, and each branch of a rewrite is followed to the name it leaves, for
  which the same branch is taken again and changes nothing;
* `RewritesReachTheEndpoint`, for every documented form, with a bucket of any
  number of labels but two where `Endpoints` admits dots in it. A name
  is written as its last labels put onto a reversed bucket (`Onto`, `Under`), so
  that the indices the rewrite looks at are those of the front and those beyond
  are the bucket's; `IsBucket` is what keeps a search from stopping there. Each
  documented form is then one computation on the front, and the bucket comes
  out as it went in.

**Handler_proof** is another. For any number of requests, any answers, any
chain that `build` accepts and any allowlist: `TypeOK`, `PolicyBeforeResolution`,
`SynthesizesOnlyNodata`, `EmbedsItsOwnLookup`, `LogTellsTheTruth`, and the
chain's `FirstThatYields`, `SpecificBeforeGeneric`, `TranslatorOnlyAsConfigured`
and `NeverOutlivesItsSource`. `HandlerInv` is the type invariant, `ChainInv`, a
statement of what each place of a request means (`RequestInv`: what it has asked,
whether its call of the chain has begun, and, once decided, which of five sorts
of end it came to), and one about the log (`LogInv`). The properties of the
handler are consequences of the five sorts; that the pool's answers are final
once decided is what keeps them. `CountersBalance` is proved like `MetricsAgree`,
from sets of requests of which a step moves one, with `SideInv`: a request on the
DNS64 path has asked for A records from the start, one that is passed through
never has, or those it counts as masked would not be told by that.

**Startup_proof**: `ServesOnlyAsConfigured`, for every configuration,
environment and way the lists load. `Established` says what `main` has
established by each of its steps; that an address embedded in an accepted prefix
is global is arithmetic on segments. The allowlist is a theorem of its own,
`AllowsExactlyTheListed`, for words of any width: `allows` over the parsed, masked
entries admits exactly the clients that agree with some entry on the bits of its
prefix (`Listed`). (`Handler_proof` needs its core too and has a short copy.)

Of the lists it proves `BlocksAsListed` and `ServesWithTheRest`, for lists of any
content. The first is about a recursive function: `WalkDecides` shows what it
returns at every step, by the smallest step at which it would return something
else (`SmallestExists`), and `WalksTheSuffixes` that the entries it looks up are
the ancestors of the name. `LoadInv` has for every list that is through what it
has left in the sets, names and nothing else, and what is reported of it, with
`CountsWhatItAdds` for a source counted as empty, which is one that delivered
nothing to block.

**QueryLog_proof**, for any requests, pages, and sizes of ring, channel and
page: `RingHoldsTheLatest`, `StreamsInOrder`, `SkipsOnlyTheLost` and
`RowsAreAccountedFor`. `RingInv`
compares the ring with the end of the history position by position, `PageInv`
has what a live subscription has passed (`Positions`: the positions from its
first to its cursor are those it was sent and those it was told it lost) and what
its rows are (`RowsInv`, from the top).

`RowsAreAccountedFor` speaks of the place of an entry in two histories, which
is one place only because an entry is pushed and sent once (`HistoryInv`).
`AccountInv` splits the rows of a page: those on top came over the stream, each
once, those below were rendered, each once (`SplitAt`), so that a row can show
twice only across the split; and as long as the page has room nothing was
deleted from it (`NothingDeleted`).

Every safety invariant, action property and refinement that a passing run checks
is stated by a theorem. Only model-checked: the liveness properties
(`EveryRequestAnswered`, `EveryQueryEnds`, `FetchesEnd`, `EveryRequestEnds`,
`ReachesLivePages`, `StartsOrFails`), which need ENABLED and are out of the
prover's reach, and the four claims of section 4, which are false. That a
bucket of two labels is mishandled is read off the code and stated in section 4;
no theorem is about it.

## 6. What is not modelled

The dashboard's other pages (overview, sparklines, top lists, dates, the stats
stream and the Host check) and the Prometheus text: they render counters and the
ring, and change nothing. Parsing of TOML and of arguments; DNS, HTTP and TLS
encodings; sockets and their options; logging; packaging and the Zabbix
template. The full provider tables, whose correctness is a question about the
outside world. The 128-bit arithmetic of addresses beyond what the filters and
the embedding look at. `moka`, `tokio` and `hickory` are environment: what they
may do is in the actions and comments that use them.

## 7. Plan

Done: all modules of section 2, with the eight proof modules.

Next, in the model: the chain's reference lookups through the pool's cache, so
that the ages of cached reference records enter `NeverOutlivesItsSource`; more
entries of the tables `MatchConst` and `MatchBorrow`.
