--------------------------------- MODULE Pool ---------------------------------
(***************************************************************************)
(* The resolver pool of upstream.rs: Pool::resolve_observed and what it    *)
(* calls, run by concurrent request tasks and by the background refresh    *)
(* tasks they spawn, over the shared state of Inner (cache, in_flight,     *)
(* single_flight, metrics).                                                *)
(*                                                                         *)
(* A request is one call of resolve_observed.  The code between two        *)
(* accesses to shared state is one action, because the tasks run on a      *)
(* multi-threaded executor and may interleave there as well as at every    *)
(* await.  The upstreams behind Resolver::resolve are the environment: a   *)
(* fetch ends, at any later moment, with any reply or with a failure.      *)
(***************************************************************************)
EXTENDS StaleCache, FiniteSets

CONSTANTS
  Requests,      \* the calls of resolve_observed
  Questions,     \* cache keys: Query (name, type, class)
  Replies,       \* what the upstreams may answer, a subset of Reply
  CacheEnabled,  \* cache_size > 0
  PanicSites,    \* which resolutions may panic: "leader", "refresh", "direct"
  MaxTime,       \* bound on the clock
  NoOne          \* no request

ASSUME PoolAssumption ==
  /\ Replies \subseteq Reply
  /\ IsFiniteSet(Requests)
  /\ CacheEnabled \in BOOLEAN
  /\ PanicSites \subseteq {"leader", "refresh", "direct"}
  /\ MaxTime \in Nat
  /\ NoOne \notin Requests

VARIABLES
  now,            \* Instant::now()
  cache,          \* StaleCache: what moka holds for each question
  in_flight,      \* questions whose refresh slot is claimed
  single_flight,  \* question -> the leader whose Sender is in the map
  query,          \* the message each request was called with
  pc,             \* where each request is
  status,         \* the CacheStatus it will report
  leader,         \* whose broadcast channel it holds an end of
  response,       \* the response it holds, and at the end returns
  task,           \* the refresh task it spawned
  result,         \* what that task returned
  metrics         \* the counters of Metrics the pool increments

requestVars == <<query, pc, status, leader, response>>
taskVars == <<task, result>>
vars == <<now, cache, in_flight, single_flight, query, pc, status, leader,
          response, task, result, metrics>>

Query == [question : Questions, dnssec_ok : BOOLEAN]

PcValue == {"new", "direct", "prefetch", "stale", "waiting", "missed",
            "leading", "freeing", "publishing", "following", "done",
            "panicked"}

CacheStatus == {"none", "uncached", "miss", "hit", "stale"}

TaskValue == {"none", "running", "stored", "done", "panicked"}

Counter == {"cache_hits", "negative_cache_hits", "cache_misses",
            "prefetches", "served_stale", "upstream_failed"}

Key(r) == query[r].question

(* cacheable_question, and the test for a configured cache before it.      *)
Cacheable(r) == CacheEnabled /\ ~query[r].dnssec_ok

Count(names) ==
  metrics' = [n \in Counter |-> IF n \in names THEN metrics[n] + 1
                                               ELSE metrics[n]]

Goto(r, place) == pc' = [pc EXCEPT ![r] = place]

Init ==
  /\ now = 0
  /\ cache = [q \in Questions |-> NoEntry]
  /\ in_flight = {}
  /\ single_flight = [q \in Questions |-> NoOne]
  /\ query \in [Requests -> Query]
  /\ pc = [r \in Requests |-> "new"]
  /\ status = [r \in Requests |-> "none"]
  /\ leader = [r \in Requests |-> NoOne]
  /\ response = [r \in Requests |-> Blank]
  /\ task = [r \in Requests |-> "none"]
  /\ result = [r \in Requests |-> Blank]
  /\ metrics = [n \in Counter |-> 0]
-------------------------------------------------------------------------------
(* resolve_observed: the cache lookup and what is counted with it.         *)

(* Not cacheable: the resolution bypasses the cache and the single flight. *)
Bypass(r) ==
  /\ pc[r] = "new"
  /\ ~Cacheable(r)
  /\ Goto(r, "direct")
  /\ status' = [status EXCEPT ![r] = "uncached"]
  /\ UNCHANGED <<now, cache, in_flight, single_flight, query, leader,
                 response, taskVars, metrics>>

HitFresh(r) ==
  LET e == cache[Key(r)] IN
  /\ pc[r] = "new"
  /\ Cacheable(r)
  /\ IsFresh(e, now)
  /\ Goto(r, IF WantsPrefetch(e, now) THEN "prefetch" ELSE "done")
  /\ status' = [status EXCEPT ![r] = "hit"]
  /\ response' = [response EXCEPT ![r] = Rebuilt(e, e.valid_until - now)]
  /\ Count({"cache_hits"} \cup
           IF e.kind = "negative" THEN {"negative_cache_hits"} ELSE {})
  /\ UNCHANGED <<now, cache, in_flight, single_flight, query, leader,
                 taskVars>>

HitStale(r) ==
  LET e == cache[Key(r)] IN
  /\ pc[r] = "new"
  /\ Cacheable(r)
  /\ IsStale(e, now)
  /\ Goto(r, "stale")
  /\ status' = [status EXCEPT ![r] = "stale"]
  /\ response' = [response EXCEPT ![r] = Rebuilt(e, StaleServeTtl)]
  /\ Count(IF e.kind = "negative" THEN {"negative_cache_hits"} ELSE {})
  /\ UNCHANGED <<now, cache, in_flight, single_flight, query, leader,
                 taskVars>>

Miss(r) ==
  /\ pc[r] = "new"
  /\ Cacheable(r)
  /\ IsMiss(cache[Key(r)], now)
  /\ Goto(r, "missed")
  /\ status' = [status EXCEPT ![r] = "miss"]
  /\ Count({"cache_misses"})
  /\ UNCHANGED <<now, cache, in_flight, single_flight, query, leader,
                 response, taskVars>>
-------------------------------------------------------------------------------
(* spawn_refresh, with try_claim_refresh: claim the slot and start a task. *)
SpawnRefresh(r) ==
  /\ Key(r) \notin in_flight
  /\ in_flight' = in_flight \cup {Key(r)}
  /\ task' = [task EXCEPT ![r] = "running"]

(* Mutant: the prefetch is counted even if another refresh is in flight.   *)
PrefetchCounted(r) ==
  /\ pc[r] = "prefetch"
  /\ Goto(r, "done")
  /\ Count({"prefetches"})
  /\ \/ SpawnRefresh(r)
     \/ Key(r) \in in_flight /\ UNCHANGED <<in_flight, task>>
  /\ UNCHANGED <<now, cache, single_flight, query, status, leader, response,
                 result>>

(* A fresh hit near its expiry spawns a refresh if none is in flight, and  *)
(* is answered in any case.                                                *)
Prefetch(r) ==
  /\ pc[r] = "prefetch"
  /\ Goto(r, "done")
  /\ \/ SpawnRefresh(r) /\ Count({"prefetches"})
     \/ Key(r) \in in_flight /\ UNCHANGED <<in_flight, task, metrics>>
  /\ UNCHANGED <<now, cache, single_flight, query, status, leader, response,
                 result>>

(* serve_stale: wait for a refresh of our own, or, when another is already *)
(* in flight, answer with the stale data at once.                          *)
ServeStale(r) ==
  /\ pc[r] = "stale"
  /\ \/ /\ SpawnRefresh(r)
        /\ Goto(r, "waiting")
        /\ UNCHANGED metrics
     \/ /\ Key(r) \in in_flight
        /\ Goto(r, "done")
        /\ Count({"served_stale"})
        /\ UNCHANGED <<in_flight, task>>
  /\ UNCHANGED <<now, cache, single_flight, query, status, leader, response,
                 result>>

(* Mutant: a refresh that failed is relayed like one that did not.         *)
RefreshWinsAnyhow(r) ==
  /\ pc[r] = "waiting"
  /\ task[r] = "done"
  /\ response' = [response EXCEPT ![r] = result[r]]
  /\ Goto(r, "done")
  /\ UNCHANGED <<now, cache, in_flight, single_flight, query, status, leader,
                 taskVars, metrics>>

(* The refresh returned an answer before the client-response timer fired.  *)
RefreshWins(r) ==
  /\ pc[r] = "waiting"
  /\ task[r] = "done"
  /\ result[r] # Failed
  /\ response' = [response EXCEPT ![r] = result[r]]
  /\ Goto(r, "done")
  /\ UNCHANGED <<now, cache, in_flight, single_flight, query, status, leader,
                 taskVars, metrics>>

(* Mutant: there is no client-response timer.                              *)
RefreshLosesUntimed(r) ==
  /\ pc[r] = "waiting"
  /\ \/ task[r] = "done" /\ result[r] = Failed
     \/ task[r] = "panicked"
  /\ Goto(r, "done")
  /\ Count({"served_stale"})
  /\ UNCHANGED <<now, cache, in_flight, single_flight, query, status, leader,
                 response, taskVars>>

(* The refresh failed or panicked, or the timer fired before it was done.  *)
(* A task that is done is polled before the timer, so it wins the tie.     *)
RefreshLoses(r) ==
  /\ pc[r] = "waiting"
  /\ \/ task[r] = "done" /\ result[r] = Failed
     \/ task[r] = "panicked"
     \/ task[r] \in {"running", "stored"}
  /\ Goto(r, "done")
  /\ Count({"served_stale"})
  /\ UNCHANGED <<now, cache, in_flight, single_flight, query, status, leader,
                 response, taskVars>>
-------------------------------------------------------------------------------
(* resolve_and_cache: what an ended fetch does to the cache, the counters  *)
(* and the caller.                                                         *)
FetchCached(q, reply) ==
  IF reply = Failed
  THEN Count({"upstream_failed"}) /\ UNCHANGED cache
  ELSE /\ cache' = [cache EXCEPT ![q] = Store(cache[q], reply, now)]
       /\ UNCHANGED metrics

Fetched(reply) == IF reply = Failed THEN Failed ELSE Received(reply, now)

(* An uncacheable query relays its own fetch.                              *)
DirectReturns(r, reply) ==
  /\ pc[r] = "direct"
  /\ Count(IF reply = Failed THEN {"upstream_failed"} ELSE {})
  /\ response' = [response EXCEPT ![r] = Fetched(reply)]
  /\ Goto(r, "done")
  /\ UNCHANGED <<now, cache, in_flight, single_flight, query, status, leader,
                 taskVars>>

DirectPanics(r) ==
  /\ "direct" \in PanicSites
  /\ pc[r] = "direct"
  /\ Goto(r, "panicked")
  /\ UNCHANGED <<now, cache, in_flight, single_flight, query, status, leader,
                 response, taskVars, metrics>>
-------------------------------------------------------------------------------
(* Mutant: a request leads without looking whether another does.           *)
LeadAlways(r) ==
  /\ pc[r] = "missed"
  /\ single_flight' = [single_flight EXCEPT ![Key(r)] = r]
  /\ leader' = [leader EXCEPT ![r] = r]
  /\ Goto(r, "leading")
  /\ UNCHANGED <<now, cache, in_flight, query, status, response, taskVars,
                 metrics>>

(* resolve_coalesced: the first to miss leads, the others follow.          *)
Lead(r) ==
  /\ pc[r] = "missed"
  /\ single_flight[Key(r)] = NoOne
  /\ single_flight' = [single_flight EXCEPT ![Key(r)] = r]
  /\ leader' = [leader EXCEPT ![r] = r]
  /\ Goto(r, "leading")
  /\ UNCHANGED <<now, cache, in_flight, query, status, response, taskVars,
                 metrics>>

Follow(r) ==
  /\ pc[r] = "missed"
  /\ single_flight[Key(r)] # NoOne
  /\ leader' = [leader EXCEPT ![r] = single_flight[Key(r)]]
  /\ Goto(r, "following")
  /\ UNCHANGED <<now, cache, in_flight, single_flight, query, status,
                 response, taskVars, metrics>>

LeaderReturns(r, reply) ==
  /\ pc[r] = "leading"
  /\ FetchCached(Key(r), reply)
  /\ response' = [response EXCEPT ![r] = Fetched(reply)]
  /\ Goto(r, "freeing")
  /\ UNCHANGED <<now, in_flight, single_flight, query, status, leader,
                 taskVars>>

(* A panic unwinds the request: nothing takes its Sender out of the map.   *)
LeaderPanics(r) ==
  /\ "leader" \in PanicSites
  /\ pc[r] = "leading"
  /\ Goto(r, "panicked")
  /\ UNCHANGED <<now, cache, in_flight, single_flight, query, status, leader,
                 response, taskVars, metrics>>

FreeSlot(r) ==
  /\ pc[r] = "freeing"
  /\ single_flight' = [single_flight EXCEPT ![Key(r)] = NoOne]
  /\ Goto(r, "publishing")
  /\ UNCHANGED <<now, cache, in_flight, query, status, leader, response,
                 taskVars, metrics>>

(* Mutant: the answer goes to whoever waits for the question.              *)
SubscribersByKey(r) ==
  {f \in Requests : pc[f] = "following" /\ Key(f) = Key(r)}

(* tx.send reaches the receivers that exist when it is called.             *)
Subscribers(r) == {f \in Requests : pc[f] = "following" /\ leader[f] = r}

(* Mutant: a failure is not published.                                     *)
PublishAnswer(r) ==
  /\ pc[r] = "publishing"
  /\ response' = [f \in Requests |->
                    IF f \in Subscribers(r) /\ response[r] # Failed
                    THEN response[r] ELSE response[f]]
  /\ Goto(r, "done")
  /\ UNCHANGED <<now, cache, in_flight, single_flight, query, status, leader,
                 taskVars, metrics>>

Publish(r) ==
  /\ pc[r] = "publishing"
  /\ response' = [f \in Requests |->
                    IF f \in Subscribers(r) THEN response[r] ELSE response[f]]
  /\ Goto(r, "done")
  /\ UNCHANGED <<now, cache, in_flight, single_flight, query, status, leader,
                 taskVars, metrics>>

(* Mutant: a follower does not wait for the broadcast.                     *)
ReceiveAtOnce(r) ==
  /\ pc[r] = "following"
  /\ Goto(r, "done")
  /\ UNCHANGED <<now, cache, in_flight, single_flight, query, status, leader,
                 response, taskVars, metrics>>

(* rx.recv returns the broadcast answer.  Its other outcome, Err, needs    *)
(* every Sender of the channel dropped before a send, or a second send on  *)
(* a channel of capacity 1: FollowersConnected below says why neither      *)
(* happens, so the fallback of the code is never taken.                    *)
Receive(r) ==
  /\ pc[r] = "following"
  /\ response[r] # Blank
  /\ Goto(r, "done")
  /\ UNCHANGED <<now, cache, in_flight, single_flight, query, status, leader,
                 response, taskVars, metrics>>
-------------------------------------------------------------------------------
(* The refresh task that request r spawned: resolve_and_cache, then the    *)
(* drop of RefreshGuard, then the JoinHandle sees the output.              *)
RefreshReturns(r, reply) ==
  /\ task[r] = "running"
  /\ FetchCached(Key(r), reply)
  /\ result' = [result EXCEPT ![r] = Fetched(reply)]
  /\ task' = [task EXCEPT ![r] = "stored"]
  /\ UNCHANGED <<now, in_flight, single_flight, requestVars>>

RefreshReleases(r) ==
  /\ task[r] = "stored"
  /\ in_flight' = in_flight \ {Key(r)}
  /\ task' = [task EXCEPT ![r] = "done"]
  /\ UNCHANGED <<now, cache, single_flight, requestVars, result, metrics>>

(* Mutant: the slot of a task that panics stays claimed.                   *)
RefreshPanicsLeaking(r) ==
  /\ "refresh" \in PanicSites
  /\ task[r] = "running"
  /\ task' = [task EXCEPT ![r] = "panicked"]
  /\ UNCHANGED <<now, cache, in_flight, single_flight, requestVars, result,
                 metrics>>

RefreshPanics(r) ==
  /\ "refresh" \in PanicSites
  /\ task[r] = "running"
  /\ in_flight' = in_flight \ {Key(r)}
  /\ task' = [task EXCEPT ![r] = "panicked"]
  /\ UNCHANGED <<now, cache, single_flight, requestVars, result, metrics>>
-------------------------------------------------------------------------------
(* moka drops an entry: past its window, over capacity, or not admitted.   *)
Evict(q) ==
  /\ cache[q] # NoEntry
  /\ cache' = [cache EXCEPT ![q] = NoEntry]
  /\ UNCHANGED <<now, in_flight, single_flight, requestVars, taskVars,
                 metrics>>

Tick ==
  /\ now < MaxTime
  /\ now' = now + 1
  /\ UNCHANGED <<cache, in_flight, single_flight, requestVars, taskVars,
                 metrics>>

Fetches(r) ==
  \E reply \in Replies \cup {Failed} :
    DirectReturns(r, reply) \/ LeaderReturns(r, reply)

Refreshes(r) ==
  \E reply \in Replies \cup {Failed} : RefreshReturns(r, reply)

(* What the code of a request does by itself once it is scheduled.         *)
Proceeds(r) ==
  \/ Bypass(r) \/ HitFresh(r) \/ HitStale(r) \/ Miss(r)
  \/ Prefetch(r) \/ ServeStale(r) \/ RefreshWins(r) \/ RefreshLoses(r)
  \/ Lead(r) \/ Follow(r) \/ FreeSlot(r) \/ Publish(r) \/ Receive(r)

Panics(r) == DirectPanics(r) \/ LeaderPanics(r) \/ RefreshPanics(r)

Next ==
  \/ \E r \in Requests : Proceeds(r) \/ Fetches(r) \/ Refreshes(r)
                         \/ RefreshReleases(r) \/ Panics(r)
  \/ \E q \in Questions : Evict(q)
  \/ Tick

Spec == Init /\ [][Next]_vars

(* The executor runs every ready task, timers fire, and a foreground fetch *)
(* ends because every exchange with an upstream has a timeout.  Nothing is *)
(* assumed of a refresh's fetch, of eviction, of panics or of the clock.   *)
Fairness == \A r \in Requests : WF_vars(Proceeds(r)) /\ WF_vars(Fetches(r))

FairSpec == Spec /\ Fairness
-------------------------------------------------------------------------------
(* Every variable stays within the values the code gives it.               *)
TypeOK ==
  /\ now \in 0..MaxTime
  /\ cache \in [Questions -> Entry \cup {NoEntry}]
  /\ in_flight \subseteq Questions
  /\ single_flight \in [Questions -> Requests \cup {NoOne}]
  /\ query \in [Requests -> Query]
  /\ pc \in [Requests -> PcValue]
  /\ status \in [Requests -> CacheStatus]
  /\ leader \in [Requests -> Requests \cup {NoOne}]
  /\ response \in [Requests -> Response]
  /\ task \in [Requests -> TaskValue]
  /\ result \in [Requests -> Response]
  /\ metrics \in [Counter -> Nat]

LiveTask(r) == task[r] \in {"running", "stored"}

(* A question has at most one live refresh task, and its in_flight slot is *)
(* claimed exactly while that task lives, however the task ends: the guard *)
(* neither leaks a slot nor frees that of another task.                    *)
RefreshExclusive ==
  /\ \A q \in in_flight : \E r \in Requests : LiveTask(r) /\ Key(r) = q
  /\ \A r \in Requests : LiveTask(r) => Key(r) \in in_flight
  /\ \A r, s \in Requests :
       LiveTask(r) /\ LiveTask(s) /\ Key(r) = Key(s) => r = s

(* A request that resolves a miss owns the single-flight slot of its       *)
(* question, so no two resolve the same one; a slot is held only by such a *)
(* request or by one that panicked.                                        *)
SingleFlight ==
  /\ \A r \in Requests : pc[r] \in {"leading", "freeing"} =>
       Cacheable(r) /\ single_flight[Key(r)] = r
  /\ \A q \in Questions : single_flight[q] # NoOne =>
       /\ Key(single_flight[q]) = q
       /\ pc[single_flight[q]] \in {"leading", "freeing", "panicked"}

(* A follower still waiting has a Sender that has yet to send: its         *)
(* leader's, in the map or in the leader's hands.  So recv never ends with *)
(* Err, and no follower subscribes to a channel that has already spoken.   *)
FollowersConnected ==
  \A f \in Requests : pc[f] = "following" /\ response[f] = Blank =>
    \/ single_flight[Key(f)] = leader[f]
    \/ pc[leader[f]] = "publishing"

(* A follower returns exactly what its leader returned, failures included, *)
(* and its leader resolved the same question.                              *)
FollowersShareAnswer ==
  \A f \in Requests : pc[f] = "done" /\ leader[f] \notin {f, NoOne} =>
    /\ Key(leader[f]) = Key(f)
    /\ pc[leader[f]] = "done"
    /\ response[f] = response[leader[f]]

(* A request for which the cache had something, fresh or stale, is never   *)
(* failed, whatever becomes of the refresh it starts or waits for.         *)
CachedNeverFails ==
  \A r \in Requests : status[r] \in {"hit", "stale"} =>
    response[r].kind \in ReplyKind

(* The greatest lifetime the kind of response may be given.                *)
CapOf(kind) == IF kind = "negative" THEN NegMaxTtl ELSE MaxTtl

(* When a request takes its answer from the cache, that answer is within   *)
(* both the TTL the upstream gave and the cap, plus the stale window if it *)
(* is reported stale; and a fresh one is not handed out with a TTL that    *)
(* would let it outlive what the upstream allowed.                         *)
TakenInTime(r) ==
  LET a == response'[r]
      spent == now - a.at
  IN CASE status'[r] = "hit" ->
            spent + a.ttl <= a.life /\ spent + a.ttl <= CapOf(a.kind)
       [] status'[r] = "stale" ->
            /\ spent <= a.life + StaleWindow
            /\ spent <= CapOf(a.kind) + StaleWindow
       [] OTHER -> TRUE

ServesWithinLifetime ==
  [][\A r \in Requests : status'[r] # status[r] => TakenInTime(r)]_vars

(* What the counters say about the requests: hits, misses and prefetches   *)
(* match the requests that were, a stale answer is counted when and only   *)
(* when one is given, a failure once per failed fetch, of a request or of  *)
(* a refresh, and not once per client.                                     *)
GaveStale(r) ==
  status[r] = "stale" /\ pc[r] = "done" /\ response[r] # result[r]

OwnFetchFailed(r) == leader[r] \in {r, NoOne} /\ response[r] = Failed

MetricsAgree ==
  LET Number(P(_)) == Cardinality({r \in Requests : P(r)})
      IsHit(r) == status[r] = "hit"
      IsMissed(r) == status[r] = "miss"
      Prefetched(r) == status[r] = "hit" /\ task[r] # "none"
      NegativeHit(r) == status[r] = "hit" /\ response[r].kind = "negative"
      RefreshFailed(r) == result[r] = Failed
  IN /\ metrics["cache_hits"] = Number(IsHit)
     /\ metrics["cache_misses"] = Number(IsMissed)
     /\ metrics["prefetches"] = Number(Prefetched)
     /\ metrics["served_stale"] = Number(GaveStale)
     /\ metrics["negative_cache_hits"] >= Number(NegativeHit)
     /\ metrics["upstream_failed"] = Number(OwnFetchFailed)
                                     + Number(RefreshFailed)

(* Every request is answered, or dies of its own panic, even when refresh  *)
(* tasks hang or panic: a stale answer never waits for an upstream.        *)
EveryRequestAnswered ==
  \A r \in Requests : <>(pc[r] \in {"done", "panicked"})
-------------------------------------------------------------------------------
(* The pool keeps the promise of ResolveService: what has been heard is    *)
(* what its own fetches returned, failures only those of requests.         *)
Fact(a) == [kind |-> a.kind, life |-> a.life, at |-> a.at]

Facts == [kind : ReplyKind \cup {"failed"},
          life : {0} \cup {reply.ttl : reply \in Replies}, at : 0..MaxTime]

FetchedItself(r) ==
  \/ status[r] = "uncached" /\ pc[r] = "done"
  \/ leader[r] = r /\ pc[r] \in {"freeing", "publishing", "done"}

Heard(q) ==
  {Fact(response[r]) : r \in {s \in Requests : Key(s) = q /\ FetchedItself(s)}}
  \cup
  {Fact(result[r]) : r \in {s \in Requests : Key(s) = q /\ result[s] # Blank
                                             /\ result[s] # Failed}}

Phase(r) ==
  CASE pc[r] = "done" -> "answered"
    [] pc[r] = "panicked" -> "lost"
    [] OTHER -> "open"

Service == INSTANCE ResolveService WITH
  Facts <- Facts,
  asks <- [r \in Requests |-> Key(r)],
  phase <- [r \in Requests |-> Phase(r)],
  reply <- [r \in Requests |-> IF pc[r] = "done" THEN {Fact(response[r])}
                                                 ELSE {}],
  heard <- [q \in Questions |-> Heard(q)]

(* Every step of the pool is a step of the service, or none.               *)
ImplementsService == Service!Spec
===============================================================================
