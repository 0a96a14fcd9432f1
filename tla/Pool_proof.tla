------------------------------ MODULE Pool_proof ------------------------------
(***************************************************************************)
(* Proofs about Pool, for any requests, questions, upstream replies, cache *)
(* limits and panics: first the invariant of its slots and channels, then  *)
(* the facts it has heard, by which it implements ResolveService and keeps *)
(* cached answers within their lifetime, and last what its counters say.   *)
(***************************************************************************)
EXTENDS Pool, FiniteSetTheorems, TLAPS

(* The status a request has settled on where it is.                        *)
Statuses(r) ==
  /\ pc[r] = "new" => status[r] = "none"
  /\ pc[r] = "direct" => status[r] = "uncached"
  /\ pc[r] = "prefetch" => status[r] = "hit"
  /\ pc[r] \in {"stale", "waiting"} => status[r] = "stale"
  /\ pc[r] \in {"missed", "leading", "freeing", "publishing", "following"} =>
       status[r] = "miss"
  /\ status[r] \in {"hit", "stale", "miss"} => Cacheable(r)

(* Whose channel it holds an end of.                                       *)
Leaders(r) ==
  /\ pc[r] \in {"new", "direct", "prefetch", "stale", "waiting", "missed"} =>
       leader[r] = NoOne
  /\ pc[r] \in {"leading", "freeing", "publishing"} => leader[r] = r
  /\ pc[r] = "following" => leader[r] \notin {r, NoOne}

(* Whether it has spawned a refresh, and what that has returned.           *)
Tasks(r) ==
  /\ pc[r] \in {"new", "prefetch", "stale"} => task[r] = "none"
  /\ pc[r] = "waiting" => task[r] # "none"
  /\ status[r] \notin {"hit", "stale"} => task[r] = "none"
  /\ task[r] \in {"stored", "done"} =>
       result[r] = Failed \/ result[r].kind \in ReplyKind
  /\ task[r] \notin {"stored", "done"} => result[r] = Blank

(* What it holds to return.                                                *)
Responses(r) ==
  /\ status[r] \in {"hit", "stale"} => response[r].kind \in ReplyKind
  /\ pc[r] \in {"freeing", "publishing", "done"} => response[r] # Blank
  /\ pc[r] \in {"new", "direct", "missed", "leading"} => response[r] = Blank

Placed == \A r \in Requests : Statuses(r) /\ Leaders(r) /\ Tasks(r)
                              /\ Responses(r)

(* What a request that follows another, or has followed it, knows of it.   *)
Follower(f) == leader[f] \notin {f, NoOne}

FollowedWell(f) ==
  Follower(f) =>
    /\ Key(leader[f]) = Key(f)
    /\ pc[f] \in {"following", "done"}
    /\ response[f] # Blank =>
         pc[leader[f]] = "done" /\ response[f] = response[leader[f]]

Followed == \A f \in Requests : FollowedWell(f)

PInv ==
  /\ TypeOK
  /\ Placed
  /\ RefreshExclusive
  /\ SingleFlight
  /\ FollowersConnected
  /\ Followed
-------------------------------------------------------------------------------
(* The values of StaleCache have the types Pool relies on.                 *)
LEMMA Values ==
  /\ Blank \in Response /\ Failed \in Response /\ Blank # Failed
  /\ Blank.kind \notin ReplyKind /\ Failed.kind \notin ReplyKind
  /\ Failed \notin Reply /\ NoEntry \notin Entry
  BY DEF Blank, Failed, Response, Reply, ReplyKind, NoEntry, Entry

(* An entry is handed out as a proper response.                            *)
LEMMA RebuiltType ==
  ASSUME NEW e \in Entry, NEW ttl \in Nat
  PROVE  Rebuilt(e, ttl) \in Response /\ Rebuilt(e, ttl).kind \in ReplyKind
  BY DEF Rebuilt, Entry, Response, ReplyKind

(* What a fetch ends with is a failure or a proper response.               *)
LEMMA FetchedType ==
  ASSUME TypeOK, NEW reply \in Replies \cup {Failed}
  PROVE  /\ Fetched(reply) \in Response
         /\ Fetched(reply) # Blank
         /\ Fetched(reply) = Failed \/ Fetched(reply).kind \in ReplyKind
<1>1. CASE reply = Failed
  BY <1>1, Values DEF Fetched
<1>2. CASE reply # Failed
  <2>1. reply \in Reply /\ now \in Nat
    BY <1>2, PoolAssumption DEF TypeOK
  <2>2. Received(reply, now) \in Response
    BY <2>1 DEF Received, Reply, Response
  <2>3. Received(reply, now).kind \in ReplyKind
    BY <2>1 DEF Received, Reply
  <2> QED BY <1>2, <2>2, <2>3, Values DEF Fetched
<1> QED BY <1>1, <1>2

(* What is kept after a reply is an entry, or what was there before.       *)
LEMMA StoreType ==
  ASSUME NEW old \in Entry \cup {NoEntry}, NEW reply \in Reply,
         NEW time \in Nat
  PROVE  Store(old, reply, time) \in Entry \cup {NoEntry}
<1>1. CASE Lifetime(reply) = 0
  BY <1>1 DEF Store
<1>2. CASE Lifetime(reply) # 0
  <2>1. reply.kind \in {"positive", "negative"} /\ reply.ttl \in Nat
    BY <1>2 DEF Lifetime, Reply, ReplyKind
  <2>2. Lifetime(reply) \in Nat
    BY <2>1, CacheAssumption DEF Lifetime, Lesser
  <2>3. time + Lifetime(reply) \in Nat
    BY <2>2
  <2> QED BY <1>2, <2>1, <2>3 DEF Store, Entry
<1> QED BY <1>1, <1>2

(* Counting keeps every counter a natural number.                          *)
LEMMA CountType ==
  ASSUME TypeOK, NEW names, Count(names)
  PROVE  metrics' \in [Counter -> Nat]
  BY DEF TypeOK, Count

(* The cache and the counters after a fetch.                               *)
LEMMA FetchCachedType ==
  ASSUME TypeOK, NEW q \in Questions, NEW reply \in Replies \cup {Failed},
         FetchCached(q, reply)
  PROVE  /\ cache' \in [Questions -> Entry \cup {NoEntry}]
         /\ metrics' \in [Counter -> Nat]
<1>1. CASE reply = Failed
  BY <1>1, CountType DEF FetchCached, TypeOK
<1>2. CASE reply # Failed
  <2>1. reply \in Reply
    BY <1>2, PoolAssumption
  <2>2. now \in Nat
    BY PoolAssumption DEF TypeOK
  <2>3. cache[q] \in Entry \cup {NoEntry}
    BY DEF TypeOK
  <2>4. Store(cache[q], reply, now) \in Entry \cup {NoEntry}
    BY <2>1, <2>2, <2>3, StoreType
  <2> QED BY <1>2, <2>4 DEF FetchCached, TypeOK
<1> QED BY <1>1, <1>2

(* A fresh entry has some time left, an entry found is an entry.           *)
LEMMA FoundType ==
  ASSUME TypeOK, NEW r \in Requests
  PROVE  /\ Key(r) \in Questions
         /\ IsFresh(cache[Key(r)], now) =>
              /\ cache[Key(r)] \in Entry
              /\ cache[Key(r)].valid_until - now \in Nat
         /\ IsStale(cache[Key(r)], now) => cache[Key(r)] \in Entry
<1>1. Key(r) \in Questions
  BY DEF TypeOK, Query, Key
<1>2. now \in Nat /\ cache[Key(r)] \in Entry \cup {NoEntry}
  BY <1>1, PoolAssumption DEF TypeOK
<1>3. \A e \in Entry : now <= e.valid_until => e.valid_until - now \in Nat
  BY <1>2 DEF Entry
<1> QED BY <1>1, <1>2, <1>3 DEF IsFresh, IsStale
-------------------------------------------------------------------------------
(* Type correctness: every action keeps every variable within its values.  *)
LEMMA TypeStep ==
  TypeOK /\ [Next]_vars => TypeOK'
<1> SUFFICES ASSUME TypeOK, [Next]_vars PROVE TypeOK'
  OBVIOUS
<1> USE DEF TypeOK, Goto
<1>1. ASSUME NEW r \in Requests, Proceeds(r) PROVE TypeOK'
  <2>1. CASE Bypass(r)
    BY <2>1 DEF Bypass, PcValue, CacheStatus, taskVars
  <2>2. CASE HitFresh(r)
    <3>1. metrics' \in [Counter -> Nat]
      BY <2>2, CountType DEF HitFresh
    <3>2. Rebuilt(cache[Key(r)], cache[Key(r)].valid_until - now) \in Response
      BY <2>2, FoundType, RebuiltType DEF HitFresh
    <3> QED BY <2>2, <3>1, <3>2 DEF HitFresh, PcValue, CacheStatus, taskVars
  <2>3. CASE HitStale(r)
    <3>1. metrics' \in [Counter -> Nat]
      BY <2>3, CountType DEF HitStale
    <3>2. Rebuilt(cache[Key(r)], StaleServeTtl) \in Response
      BY <2>3, FoundType, RebuiltType, CacheAssumption DEF HitStale
    <3> QED BY <2>3, <3>1, <3>2 DEF HitStale, PcValue, CacheStatus, taskVars
  <2>4. CASE Miss(r)
    <3>1. metrics' \in [Counter -> Nat]
      BY <2>4, CountType DEF Miss
    <3> QED BY <2>4, <3>1 DEF Miss, PcValue, CacheStatus, taskVars
  <2>5. CASE Prefetch(r)
    <3>1. metrics' \in [Counter -> Nat]
      BY <2>5, CountType DEF Prefetch
    <3>2. in_flight' \subseteq Questions /\ task' \in [Requests -> TaskValue]
      BY <2>5, FoundType DEF Prefetch, SpawnRefresh, TaskValue
    <3> QED BY <2>5, <3>1, <3>2 DEF Prefetch, PcValue
  <2>6. CASE ServeStale(r)
    <3>1. metrics' \in [Counter -> Nat]
      BY <2>6, CountType DEF ServeStale
    <3>2. in_flight' \subseteq Questions /\ task' \in [Requests -> TaskValue]
      BY <2>6, FoundType DEF ServeStale, SpawnRefresh, TaskValue
    <3> QED BY <2>6, <3>1, <3>2 DEF ServeStale, PcValue
  <2>7. CASE RefreshWins(r)
    BY <2>7 DEF RefreshWins, PcValue, taskVars
  <2>8. CASE RefreshLoses(r)
    <3>1. metrics' \in [Counter -> Nat]
      BY <2>8, CountType DEF RefreshLoses
    <3> QED BY <2>8, <3>1 DEF RefreshLoses, PcValue, taskVars
  <2>9. CASE Lead(r)
    BY <2>9 DEF Lead, PcValue, taskVars
  <2>10. CASE Follow(r)
    BY <2>10, FoundType DEF Follow, PcValue, taskVars
  <2>11. CASE FreeSlot(r)
    BY <2>11 DEF FreeSlot, PcValue, taskVars
  <2>12. CASE Publish(r)
    BY <2>12 DEF Publish, PcValue, taskVars
  <2>13. CASE Receive(r)
    BY <2>13 DEF Receive, PcValue, taskVars
  <2> QED BY <1>1, <2>1, <2>2, <2>3, <2>4, <2>5, <2>6, <2>7, <2>8, <2>9,
             <2>10, <2>11, <2>12, <2>13 DEF Proceeds
<1>2. ASSUME NEW r \in Requests, Fetches(r) PROVE TypeOK'
  <2> PICK reply \in Replies \cup {Failed} :
             DirectReturns(r, reply) \/ LeaderReturns(r, reply)
    BY <1>2 DEF Fetches
  <2>1. Fetched(reply) \in Response
    BY FetchedType
  <2>2. CASE DirectReturns(r, reply)
    <3>1. metrics' \in [Counter -> Nat]
      BY <2>2, CountType DEF DirectReturns
    <3> QED BY <2>1, <2>2, <3>1 DEF DirectReturns, PcValue, taskVars
  <2>3. CASE LeaderReturns(r, reply)
    <3>1. /\ cache' \in [Questions -> Entry \cup {NoEntry}]
          /\ metrics' \in [Counter -> Nat]
      BY <2>3, FetchCachedType, FoundType DEF LeaderReturns
    <3> QED BY <2>1, <2>3, <3>1 DEF LeaderReturns, PcValue, taskVars
  <2> QED BY <2>2, <2>3
<1>3. ASSUME NEW r \in Requests, Refreshes(r) PROVE TypeOK'
  <2> PICK reply \in Replies \cup {Failed} : RefreshReturns(r, reply)
    BY <1>3 DEF Refreshes
  <2>1. Fetched(reply) \in Response
    BY FetchedType
  <2>2. /\ cache' \in [Questions -> Entry \cup {NoEntry}]
        /\ metrics' \in [Counter -> Nat]
    BY FetchCachedType, FoundType DEF RefreshReturns
  <2> QED BY <2>1, <2>2 DEF RefreshReturns, TaskValue, requestVars
<1>4. ASSUME NEW r \in Requests, RefreshReleases(r) PROVE TypeOK'
  BY <1>4 DEF RefreshReleases, TaskValue, requestVars
<1>5. ASSUME NEW r \in Requests, Panics(r) PROVE TypeOK'
  <2>1. CASE DirectPanics(r)
    BY <2>1 DEF DirectPanics, PcValue, taskVars
  <2>2. CASE LeaderPanics(r)
    BY <2>2 DEF LeaderPanics, PcValue, taskVars
  <2>3. CASE RefreshPanics(r)
    BY <2>3 DEF RefreshPanics, TaskValue, requestVars
  <2> QED BY <1>5, <2>1, <2>2, <2>3 DEF Panics
<1>6. ASSUME NEW q \in Questions, Evict(q) PROVE TypeOK'
  BY <1>6 DEF Evict, requestVars, taskVars
<1>7. ASSUME Tick PROVE TypeOK'
  BY <1>7, PoolAssumption DEF Tick, requestVars, taskVars
<1>8. CASE UNCHANGED vars
  BY <1>8 DEF vars
<1> QED BY <1>1, <1>2, <1>3, <1>4, <1>5, <1>6, <1>7, <1>8 DEF Next

-------------------------------------------------------------------------------
(* What Placed says of one request.                                        *)
PlacedAt(s) == Statuses(s) /\ Leaders(s) /\ Tasks(s) /\ Responses(s)

(* Each request stays where its place in the code lets it be.  A follower  *)
(* does not lead itself because the holder of a slot is past "missed".     *)
LEMMA PlacedStep ==
  TypeOK /\ Placed /\ SingleFlight /\ [Next]_vars => Placed'
<1> SUFFICES ASSUME TypeOK, Placed, SingleFlight, [Next]_vars,
                    NEW s \in Requests
             PROVE  PlacedAt(s)'
  BY DEF Placed, PlacedAt
<1>0. PlacedAt(s)
  BY DEF Placed, PlacedAt
<1> USE <1>0, Values DEF PlacedAt, Statuses, Leaders, Tasks, Responses,
                         Cacheable, TypeOK, Goto
<1>1. ASSUME NEW r \in Requests, Proceeds(r) PROVE PlacedAt(s)'
  <2>1. CASE Bypass(r)
    BY <2>1 DEF Bypass, taskVars
  <2>2. CASE HitFresh(r)
    <3>1. Rebuilt(cache[Key(r)], cache[Key(r)].valid_until - now).kind
            \in ReplyKind
      BY <2>2, FoundType, RebuiltType DEF HitFresh
    <3> QED BY <2>2, <3>1 DEF HitFresh, taskVars
  <2>3. CASE HitStale(r)
    <3>1. Rebuilt(cache[Key(r)], StaleServeTtl).kind \in ReplyKind
      BY <2>3, FoundType, RebuiltType, CacheAssumption DEF HitStale
    <3> QED BY <2>3, <3>1 DEF HitStale, taskVars
  <2>4. CASE Miss(r)
    BY <2>4 DEF Miss, taskVars
  <2>5. CASE Prefetch(r)
    BY <2>5 DEF Prefetch, SpawnRefresh
  <2>6. CASE ServeStale(r)
    BY <2>6 DEF ServeStale, SpawnRefresh
  <2>7. CASE RefreshWins(r)
    BY <2>7 DEF RefreshWins, taskVars
  <2>8. CASE RefreshLoses(r)
    BY <2>8 DEF RefreshLoses, taskVars
  <2>9. CASE Lead(r)
    BY <2>9 DEF Lead, taskVars
  <2>10. CASE Follow(r)
    <3>1. single_flight[Key(r)] \notin {r, NoOne}
      BY <2>10, FoundType DEF Follow, SingleFlight
    <3> QED BY <2>10, <3>1 DEF Follow, taskVars
  <2>11. CASE FreeSlot(r)
    BY <2>11 DEF FreeSlot, taskVars
  <2>12. CASE Publish(r)
    <3>1. response[r] # Blank
      BY <2>12 DEF Publish, Placed
    <3> QED BY <2>12, <3>1 DEF Publish, Subscribers, taskVars
  <2>13. CASE Receive(r)
    BY <2>13 DEF Receive, taskVars
  <2> QED BY <1>1, <2>1, <2>2, <2>3, <2>4, <2>5, <2>6, <2>7, <2>8, <2>9,
             <2>10, <2>11, <2>12, <2>13 DEF Proceeds
<1>2. ASSUME NEW r \in Requests, Fetches(r) PROVE PlacedAt(s)'
  <2> PICK reply \in Replies \cup {Failed} :
             DirectReturns(r, reply) \/ LeaderReturns(r, reply)
    BY <1>2 DEF Fetches
  <2>1. Fetched(reply) # Blank
    BY FetchedType
  <2>2. CASE DirectReturns(r, reply)
    BY <2>1, <2>2 DEF DirectReturns, taskVars
  <2>3. CASE LeaderReturns(r, reply)
    BY <2>1, <2>3 DEF LeaderReturns, taskVars
  <2> QED BY <2>2, <2>3
<1>3. ASSUME NEW r \in Requests, Refreshes(r) PROVE PlacedAt(s)'
  <2> PICK reply \in Replies \cup {Failed} : RefreshReturns(r, reply)
    BY <1>3 DEF Refreshes
  <2>1. Fetched(reply) = Failed \/ Fetched(reply).kind \in ReplyKind
    BY FetchedType
  <2> QED BY <2>1 DEF RefreshReturns, requestVars
<1>4. ASSUME NEW r \in Requests, RefreshReleases(r) PROVE PlacedAt(s)'
  BY <1>4 DEF RefreshReleases, requestVars
<1>5. ASSUME NEW r \in Requests, Panics(r) PROVE PlacedAt(s)'
  BY <1>5 DEF Panics, DirectPanics, LeaderPanics, RefreshPanics, requestVars,
              taskVars
<1>6. CASE (\E q \in Questions : Evict(q)) \/ Tick \/ UNCHANGED vars
  BY <1>6 DEF Evict, Tick, vars, requestVars, taskVars
<1> QED BY <1>1, <1>2, <1>3, <1>4, <1>5, <1>6 DEF Next

-------------------------------------------------------------------------------
(* The refresh slot of a question and its one live task come and go        *)
(* together: a task is spawned by a request that has none, into a free     *)
(* slot, and gives the slot back when it stops being live.                 *)
LEMMA RefreshExclusiveStep ==
  TypeOK /\ Placed /\ RefreshExclusive /\ [Next]_vars => RefreshExclusive'
<1> SUFFICES ASSUME TypeOK, Placed, RefreshExclusive, [Next]_vars
             PROVE  RefreshExclusive'
  OBVIOUS
<1> USE DEF RefreshExclusive, LiveTask, Key
<1>1. CASE UNCHANGED <<in_flight, query, task>>
  BY <1>1
<1>2. ASSUME NEW r \in Requests, SpawnRefresh(r), task[r] = "none",
             query' = query
      PROVE  RefreshExclusive'
  BY <1>2 DEF SpawnRefresh, TypeOK
<1>3. ASSUME NEW r \in Requests, Proceeds(r) PROVE RefreshExclusive'
  <2>1. CASE Prefetch(r)
    <3>1. task[r] = "none" /\ query' = query
      BY <2>1 DEF Prefetch, Placed, Tasks
    <3> QED BY <1>1, <1>2, <2>1, <3>1 DEF Prefetch
  <2>2. CASE ServeStale(r)
    <3>1. task[r] = "none" /\ query' = query
      BY <2>2 DEF ServeStale, Placed, Tasks
    <3> QED BY <1>1, <1>2, <2>2, <3>1 DEF ServeStale
  <2> QED BY <1>1, <1>3, <2>1, <2>2
          DEF Proceeds, Bypass, HitFresh, HitStale, Miss, RefreshWins,
              RefreshLoses, Lead, Follow, FreeSlot, Publish, Receive, taskVars
<1>4. ASSUME NEW r \in Requests, Fetches(r) PROVE RefreshExclusive'
  BY <1>1, <1>4 DEF Fetches, DirectReturns, LeaderReturns, taskVars
<1>5. ASSUME NEW r \in Requests, Refreshes(r) PROVE RefreshExclusive'
  BY <1>5 DEF Refreshes, RefreshReturns, requestVars, TypeOK
<1>6. ASSUME NEW r \in Requests, RefreshReleases(r) PROVE RefreshExclusive'
  BY <1>6 DEF RefreshReleases, requestVars, TypeOK
<1>7. ASSUME NEW r \in Requests, Panics(r) PROVE RefreshExclusive'
  <2>1. CASE RefreshPanics(r)
    BY <2>1 DEF RefreshPanics, requestVars, TypeOK
  <2> QED BY <1>1, <1>7, <2>1 DEF Panics, DirectPanics, LeaderPanics, taskVars
<1>8. CASE (\E q \in Questions : Evict(q)) \/ Tick \/ UNCHANGED vars
  BY <1>1, <1>8 DEF Evict, Tick, vars, requestVars, taskVars
<1> QED BY <1>3, <1>4, <1>5, <1>6, <1>7, <1>8 DEF Next

(* A slot is taken only when empty and freed only by its holder, which     *)
(* stays the leader of that slot until then or until it panics.            *)
LEMMA SingleFlightStep ==
  TypeOK /\ Placed /\ SingleFlight /\ [Next]_vars => SingleFlight'
<1> SUFFICES ASSUME TypeOK, Placed, SingleFlight, [Next]_vars
             PROVE  SingleFlight'
  OBVIOUS
<1> USE DEF SingleFlight, Cacheable, Key
<1>1. ASSUME single_flight' = single_flight, query' = query,
             \A r \in Requests :
               \/ pc'[r] = pc[r]
               \/ /\ pc[r] \notin {"leading", "freeing", "panicked"}
                  /\ pc'[r] \notin {"leading", "freeing"}
      PROVE  SingleFlight'
  BY <1>1, PoolAssumption DEF TypeOK
<1>2. ASSUME NEW r \in Requests, Proceeds(r) PROVE SingleFlight'
  <2>1. CASE Lead(r)
    <3>1. Cacheable(r)
      BY <2>1 DEF Lead, Placed, Statuses
    <3> QED BY <2>1, <3>1, FoundType, PoolAssumption DEF Lead, Goto, TypeOK
  <2>2. CASE FreeSlot(r)
    BY <2>2, FoundType, PoolAssumption DEF FreeSlot, Goto, TypeOK
  <2> QED BY <1>1, <1>2, <2>1, <2>2
          DEF Proceeds, Bypass, HitFresh, HitStale, Miss, Prefetch,
              ServeStale, RefreshWins, RefreshLoses, Follow, Publish,
              Receive, Goto, TypeOK
<1>3. ASSUME NEW r \in Requests, Fetches(r) PROVE SingleFlight'
  BY <1>1, <1>3, PoolAssumption
     DEF Fetches, DirectReturns, LeaderReturns, Goto, TypeOK
<1>4. ASSUME NEW r \in Requests, Panics(r) PROVE SingleFlight'
  BY <1>1, <1>4, PoolAssumption
     DEF Panics, DirectPanics, LeaderPanics, RefreshPanics, requestVars, Goto,
         TypeOK
<1>5. ASSUME NEW r \in Requests, Refreshes(r) \/ RefreshReleases(r)
      PROVE  SingleFlight'
  BY <1>1, <1>5 DEF Refreshes, RefreshReturns, RefreshReleases, requestVars
<1>6. CASE (\E q \in Questions : Evict(q)) \/ Tick \/ UNCHANGED vars
  BY <1>1, <1>6 DEF Evict, Tick, vars, requestVars
<1> QED BY <1>2, <1>3, <1>4, <1>5, <1>6 DEF Next

(* What FollowersConnected says of one follower.                           *)
Connected(f) ==
  pc[f] = "following" /\ response[f] = Blank =>
    \/ single_flight[Key(f)] = leader[f]
    \/ pc[leader[f]] = "publishing"

-------------------------------------------------------------------------------
(* A follower that still waits keeps a Sender: a slot is freed only for    *)
(* the publication of the channel its followers hold, and it is not taken  *)
(* over while it is full.                                                  *)
LEMMA ConnectedStep ==
  TypeOK /\ Placed /\ SingleFlight /\ FollowersConnected /\ [Next]_vars
    => FollowersConnected'
<1> SUFFICES ASSUME TypeOK, Placed, SingleFlight, FollowersConnected,
                    [Next]_vars, NEW f \in Requests
             PROVE  Connected(f)'
  BY DEF FollowersConnected, Connected
<1>0. Connected(f) /\ Leaders(f) /\ Responses(f) /\ Key(f) \in Questions
  BY FoundType DEF FollowersConnected, Connected, Placed
<1> USE <1>0 DEF Connected, Leaders, Responses, Goto, TypeOK, Key
<1>1. ASSUME NEW r \in Requests, Proceeds(r) PROVE Connected(f)'
  <2>1. CASE Lead(r)
    BY <2>1, PoolAssumption DEF Lead
  <2>2. CASE Follow(r)
    BY <2>2 DEF Follow
  <2>3. CASE FreeSlot(r)
    <3>1. single_flight[Key(r)] = r
      BY <2>3 DEF FreeSlot, SingleFlight
    <3> QED BY <2>3, <3>1 DEF FreeSlot
  <2>4. CASE Publish(r)
    <3>1. response[r] # Blank
      BY <2>4 DEF Publish, Placed
    <3> QED BY <2>4, <3>1 DEF Publish, Subscribers
  <2>5. CASE Receive(r)
    BY <2>5 DEF Receive
  <2>6. CASE Bypass(r) \/ HitFresh(r) \/ HitStale(r) \/ Miss(r)
    BY <2>6 DEF Bypass, HitFresh, HitStale, Miss
  <2>7. CASE \/ Prefetch(r) \/ ServeStale(r) \/ RefreshWins(r)
             \/ RefreshLoses(r)
    BY <2>7 DEF Prefetch, ServeStale, RefreshWins, RefreshLoses
  <2> QED BY <1>1, <2>1, <2>2, <2>3, <2>4, <2>5, <2>6, <2>7 DEF Proceeds
<1>2. ASSUME NEW r \in Requests, Fetches(r) PROVE Connected(f)'
  BY <1>2 DEF Fetches, DirectReturns, LeaderReturns
<1>3. ASSUME NEW r \in Requests, Panics(r) PROVE Connected(f)'
  BY <1>3 DEF Panics, DirectPanics, LeaderPanics, RefreshPanics, requestVars
<1>4. CASE \/ \E r \in Requests : Refreshes(r) \/ RefreshReleases(r)
           \/ \E q \in Questions : Evict(q)
           \/ Tick
           \/ UNCHANGED vars
  BY <1>4 DEF Refreshes, RefreshReturns, RefreshReleases, Evict, Tick, vars,
              requestVars
<1> QED BY <1>1, <1>2, <1>3, <1>4 DEF Next

(* A follower's leader resolves the same question, and what the follower   *)
(* was sent stays what its leader returned.                                *)
LEMMA FollowedStep ==
  TypeOK /\ Placed /\ SingleFlight /\ Followed /\ [Next]_vars => Followed'
<1> SUFFICES ASSUME TypeOK, Placed, SingleFlight, Followed, [Next]_vars,
                    NEW f \in Requests
             PROVE  FollowedWell(f)'
  BY DEF Followed
<1>0. /\ FollowedWell(f) /\ Leaders(f) /\ Responses(f)
      /\ Key(f) \in Questions /\ leader[f] \in Requests \cup {NoOne}
  BY FoundType DEF Followed, Placed, TypeOK
<1> USE <1>0 DEF FollowedWell, Follower, Leaders, Responses, Goto, TypeOK, Key
<1>1. ASSUME NEW r \in Requests, Proceeds(r) PROVE FollowedWell(f)'
  <2>0. Leaders(r)
    BY DEF Placed
  <2>1. CASE Lead(r)
    BY <2>1 DEF Lead
  <2>2. CASE Follow(r)
    <3>1. Key(single_flight[Key(r)]) = Key(r)
      BY <2>2, FoundType DEF Follow, SingleFlight
    <3> QED BY <2>2, <3>1 DEF Follow
  <2>3. CASE FreeSlot(r)
    BY <2>0, <2>3 DEF FreeSlot
  <2>4. CASE Publish(r)
    BY <2>0, <2>4 DEF Publish, Subscribers
  <2>5. CASE Receive(r)
    BY <2>5 DEF Receive
  <2>6. CASE Bypass(r) \/ HitFresh(r) \/ HitStale(r) \/ Miss(r)
    BY <2>0, <2>6 DEF Bypass, HitFresh, HitStale, Miss
  <2>7. CASE \/ Prefetch(r) \/ ServeStale(r) \/ RefreshWins(r)
             \/ RefreshLoses(r)
    BY <2>0, <2>7 DEF Prefetch, ServeStale, RefreshWins, RefreshLoses
  <2> QED BY <1>1, <2>1, <2>2, <2>3, <2>4, <2>5, <2>6, <2>7 DEF Proceeds
<1>2. ASSUME NEW r \in Requests, Fetches(r) PROVE FollowedWell(f)'
  <2>0. Leaders(r)
    BY DEF Placed
  <2> QED BY <1>2, <2>0 DEF Fetches, DirectReturns, LeaderReturns
<1>3. ASSUME NEW r \in Requests, Panics(r) PROVE FollowedWell(f)'
  <2>0. Leaders(r)
    BY DEF Placed
  <2> QED BY <1>3, <2>0
          DEF Panics, DirectPanics, LeaderPanics, RefreshPanics, requestVars
<1>4. CASE \/ \E r \in Requests : Refreshes(r) \/ RefreshReleases(r)
           \/ \E q \in Questions : Evict(q)
           \/ Tick
           \/ UNCHANGED vars
  BY <1>4 DEF Refreshes, RefreshReturns, RefreshReleases, Evict, Tick, vars,
              requestVars
<1> QED BY <1>1, <1>2, <1>3, <1>4 DEF Next

-------------------------------------------------------------------------------
(* The invariant holds at first and is kept by every step.                 *)
LEMMA InvInit == Init => PInv
<1> SUFFICES ASSUME Init PROVE PInv
  OBVIOUS
<1>1. TypeOK
  BY PoolAssumption, Values
     DEF Init, TypeOK, PcValue, CacheStatus, TaskValue
<1>2. Placed
  BY Values DEF Init, Placed, Statuses, Leaders, Tasks, Responses
<1>3. RefreshExclusive /\ SingleFlight
  BY DEF Init, RefreshExclusive, SingleFlight, LiveTask
<1>4. FollowersConnected /\ Followed
  BY DEF Init, FollowersConnected, Followed, FollowedWell, Follower
<1> QED BY <1>1, <1>2, <1>3, <1>4 DEF PInv

(* Every step keeps it, one lemma above per conjunct.                      *)
LEMMA InvStep == PInv /\ [Next]_vars => PInv'
  BY TypeStep, PlacedStep, RefreshExclusiveStep, SingleFlightStep,
     ConnectedStep, FollowedStep DEF PInv

(* The inductive invariant, of which the results below are parts.          *)
THEOREM Inductive == Spec => []PInv
  BY InvInit, InvStep, PTL DEF Spec

(* Every variable of the pool stays within its values.                     *)
THEOREM TypeCorrect == Spec => []TypeOK
<1>1. PInv => TypeOK
  BY DEF PInv
<1> QED BY Inductive, <1>1, PTL

(* However refreshes end, a question has at most one of them, and its      *)
(* in_flight slot is claimed exactly while that one lives.                 *)
THEOREM OneRefreshAtATime == Spec => []RefreshExclusive
<1>1. PInv => RefreshExclusive
  BY DEF PInv
<1> QED BY Inductive, <1>1, PTL

(* At most one request resolves a missed question at a time.               *)
THEOREM OneLeaderAtATime == Spec => []SingleFlight
<1>1. PInv => SingleFlight
  BY DEF PInv
<1> QED BY Inductive, <1>1, PTL

(* The Err arm of a follower's recv is dead code: a follower always has a  *)
(* Sender that has yet to send.                                            *)
THEOREM RecvNeverFails == Spec => []FollowersConnected
<1>1. PInv => FollowersConnected
  BY DEF PInv
<1> QED BY Inductive, <1>1, PTL

(* A follower returns its leader's answer to their common question.        *)
THEOREM AnswersShared == Spec => []FollowersShareAnswer
<1>1. PInv => FollowersShareAnswer
  <2> SUFFICES ASSUME PInv, NEW f \in Requests, pc[f] = "done",
                      leader[f] \notin {f, NoOne}
               PROVE  /\ Key(leader[f]) = Key(f)
                      /\ pc[leader[f]] = "done"
                      /\ response[f] = response[leader[f]]
    BY DEF FollowersShareAnswer
  <2>1. FollowedWell(f) /\ Responses(f)
    BY DEF PInv, Followed, Placed
  <2> QED BY <2>1 DEF FollowedWell, Follower, Responses
<1> QED BY Inductive, <1>1, PTL

(* What the cache could answer is never answered with a failure.           *)
THEOREM CacheShieldsClients == Spec => []CachedNeverFails
<1>1. PInv => CachedNeverFails
  BY DEF PInv, CachedNeverFails, Placed, Responses
<1> QED BY Inductive, <1>1, PTL
-------------------------------------------------------------------------------
(* What the pool may have been told, and by which responses: the state     *)
(* invariant under which it keeps the promise of ResolveService.           *)
Says(q, fact) ==
  \/ \E s \in Requests : /\ Key(s) = q /\ FetchedItself(s)
                         /\ fact = Fact(response[s])
  \/ \E s \in Requests : /\ Key(s) = q /\ result[s] \notin {Blank, Failed}
                         /\ fact = Fact(result[s])

EntryFact(e) == [kind |-> e.kind, life |-> e.life, at |-> e.fetched_at]

(* An entry is valid from when it was fetched, and no longer than the      *)
(* upstream and the cap allow.                                             *)
Lasting(e, time) ==
  /\ e.fetched_at <= time /\ e.fetched_at <= e.valid_until
  /\ e.valid_until <= e.fetched_at + e.life
  /\ e.valid_until <= e.fetched_at + CapOf(e.kind)

(* What an entry may be: of such a validity, and heard about its question. *)
KeptWell(q, e) == e # NoEntry => Lasting(e, now) /\ Says(q, EntryFact(e))

Kept == \A q \in Questions : KeptWell(q, cache[q])

(* Whoever is followed or holds a slot leads itself.                       *)
Led ==
  /\ \A f \in Requests :
       leader[f] # NoOne => leader[leader[f]] = leader[f]
  /\ \A q \in Questions :
       single_flight[q] # NoOne => leader[single_flight[q]] = single_flight[q]

(* What a request holds to return was heard about its question.            *)
Holding(r) == \/ status[r] \in {"hit", "stale"}
              \/ pc[r] \in {"freeing", "publishing", "done"}

Told == \A r \in Requests : Holding(r) => Says(Key(r), Fact(response[r]))

(* What was heard are facts an upstream may state.                         *)
Factual ==
  \A r \in Requests :
    /\ FetchedItself(r) => Fact(response[r]) \in Facts
    /\ result[r] \notin {Blank, Failed} => Fact(result[r]) \in Facts

ServiceInv == Kept /\ Led /\ Told /\ Factual

(* Heard collects what Says says.                                          *)
LEMMA HeardSays ==
  ASSUME NEW q, NEW fact
  PROVE  fact \in Heard(q) <=> Says(q, fact)
  BY DEF Heard, Says

(* What a fetch ends with is a fact.                                       *)
LEMMA FetchedFact ==
  ASSUME TypeOK, NEW reply \in Replies \cup {Failed}
  PROVE  Fact(Fetched(reply)) \in Facts
<1>1. CASE reply = Failed
  <2>1. Fetched(reply) = Failed
    BY <1>1 DEF Fetched
  <2>2. 0 \in 0..MaxTime
    BY PoolAssumption
  <2> QED BY <2>1, <2>2 DEF Fact, Facts, Failed
<1>2. CASE reply # Failed
  <2>1. reply \in Replies /\ reply.kind \in ReplyKind
    BY <1>2, PoolAssumption DEF Reply
  <2>2. Fetched(reply) = Received(reply, now)
    BY <1>2 DEF Fetched
  <2> QED BY <2>1, <2>2 DEF Fact, Facts, Received, TypeOK
<1> QED BY <1>1, <1>2
-------------------------------------------------------------------------------
(* How what has been heard changes.  A step by which nobody's own fetch    *)
(* ends leaves it as it is.                                                *)
Quiet(s) ==
  /\ FetchedItself(s)' <=> FetchedItself(s)
  /\ FetchedItself(s) => response'[s] = response[s]

(* Then every question keeps what was heard of it.                         *)
LEMMA NothingHeard ==
  ASSUME query' = query, result' = result, \A s \in Requests : Quiet(s),
         NEW q
  PROVE  /\ Heard(q)' = Heard(q)
         /\ \A fact : Says(q, fact)' <=> Says(q, fact)
  BY DEF Heard, Says, Quiet, Key

(* The fetch of request r itself ends.                                     *)
LEMMA RequestHears ==
  ASSUME query' = query, result' = result, NEW r \in Requests,
         ~FetchedItself(r), FetchedItself(r)',
         \A s \in Requests \ {r} : Quiet(s),
         NEW q
  PROVE  Heard(q)' = IF q = Key(r) THEN Heard(q) \cup {Fact(response'[r])}
                                   ELSE Heard(q)
  BY DEF Heard, Quiet, Key

(* The fetch of a refresh ends.                                            *)
LEMMA RefreshHears ==
  ASSUME query' = query, NEW r \in Requests, result[r] = Blank,
         \A s \in Requests \ {r} : result'[s] = result[s],
         \A s \in Requests : Quiet(s),
         NEW q
  PROVE  Heard(q)' =
           IF q = Key(r) /\ result'[r] \notin {Blank, Failed}
           THEN Heard(q) \cup {Fact(result'[r])} ELSE Heard(q)
  BY DEF Heard, Quiet, Key

(* Nothing a request does by itself ends a fetch, and the responses that   *)
(* fetches ended with stay: a broadcast goes to followers only.            *)
LEMMA ProceedsQuiet ==
  ASSUME TypeOK, Placed, NEW r \in Requests, Proceeds(r), NEW s \in Requests
  PROVE  Quiet(s)
<1>0. Leaders(r) /\ Statuses(r) /\ Leaders(s) /\ Statuses(s)
  BY DEF Placed
<1> USE <1>0, PoolAssumption DEF Quiet, FetchedItself, Leaders, Statuses,
                                 Goto, TypeOK
<1>1. CASE Bypass(r) \/ HitFresh(r) \/ HitStale(r) \/ Miss(r)
  BY <1>1 DEF Bypass, HitFresh, HitStale, Miss
<1>2. CASE Prefetch(r) \/ ServeStale(r) \/ RefreshWins(r) \/ RefreshLoses(r)
  BY <1>2 DEF Prefetch, ServeStale, RefreshWins, RefreshLoses
<1>3. CASE Lead(r) \/ Follow(r) \/ FreeSlot(r) \/ Receive(r)
  BY <1>3 DEF Lead, Follow, FreeSlot, Receive
<1>4. CASE Publish(r)
  BY <1>4 DEF Publish, Subscribers
<1> QED BY <1>1, <1>2, <1>3, <1>4 DEF Proceeds

(* Nor does a panic, the release of a slot, an eviction or the clock.      *)
Background ==
  \/ \E r \in Requests : RefreshReleases(r) \/ Panics(r)
  \/ \E q \in Questions : Evict(q)
  \/ Tick
  \/ UNCHANGED vars

(* These are quiet as well.                                                *)
LEMMA BackgroundQuiet ==
  ASSUME TypeOK, Placed, Background, NEW s \in Requests
  PROVE  Quiet(s)
<1>0. Leaders(s) /\ Statuses(s)
  BY DEF Placed
<1>1. CASE \E r \in Requests : Panics(r)
  BY <1>0, <1>1, PoolAssumption
     DEF Panics, DirectPanics, LeaderPanics, RefreshPanics, requestVars, Quiet,
         FetchedItself, Leaders, Statuses, Goto, TypeOK
<1>2. CASE UNCHANGED requestVars
  BY <1>2 DEF requestVars, Quiet, FetchedItself
<1> QED BY <1>1, <1>2
        DEF Background, RefreshReleases, Evict, Tick, vars, requestVars

(* A request keeps the message it was called with.                         *)
LEMMA SameQueries ==
  ASSUME Next \/ UNCHANGED vars
  PROVE  query' = query
  BY DEF Next, vars, requestVars, Proceeds, Bypass, HitFresh, HitStale, Miss,
         Prefetch, ServeStale, RefreshWins, RefreshLoses, Lead, Follow,
         FreeSlot, Publish, Receive, Fetches, DirectReturns, LeaderReturns,
         Refreshes, RefreshReturns, RefreshReleases, Panics, DirectPanics,
         LeaderPanics, RefreshPanics, Evict, Tick

(* Only a refresh that returns has a result.                               *)
LEMMA SameResults ==
  ASSUME Background \/ \E r \in Requests : Proceeds(r) \/ Fetches(r)
  PROVE  result' = result
  BY DEF Background, vars, taskVars, Proceeds, Bypass, HitFresh, HitStale,
         Miss, Prefetch, ServeStale, RefreshWins, RefreshLoses, Lead, Follow,
         FreeSlot, Publish, Receive, Fetches, DirectReturns, LeaderReturns,
         RefreshReleases, Panics, DirectPanics, LeaderPanics, RefreshPanics,
         Evict, Tick

(* The end of a request's own fetch is news from that request alone.       *)
LEMMA FetchesNews ==
  ASSUME TypeOK, Placed, NEW r \in Requests,
         NEW reply \in Replies \cup {Failed},
         DirectReturns(r, reply) \/ LeaderReturns(r, reply)
  PROVE  /\ ~FetchedItself(r) /\ FetchedItself(r)'
         /\ response'[r] = Fetched(reply)
         /\ \A s \in Requests \ {r} : Quiet(s)
<1>0. Leaders(r) /\ Statuses(r)
  BY DEF Placed
<1> QED
  BY <1>0, PoolAssumption
     DEF DirectReturns, LeaderReturns, Quiet, FetchedItself, Leaders, Statuses,
         Goto, TypeOK

(* The end of a refresh's fetch is news from that refresh alone.           *)
LEMMA RefreshesNews ==
  ASSUME TypeOK, Placed, NEW r \in Requests,
         NEW reply \in Replies \cup {Failed},
         RefreshReturns(r, reply)
  PROVE  /\ result[r] = Blank
         /\ result'[r] = Fetched(reply)
         /\ \A s \in Requests \ {r} : result'[s] = result[s]
         /\ \A s \in Requests : Quiet(s)
  BY DEF RefreshReturns, Placed, Tasks, Quiet, FetchedItself, requestVars,
         TypeOK

(* A step is a request's own, the end of a fetch, or a background one.     *)
LEMMA StepKinds ==
  ASSUME [Next]_vars
  PROVE  \/ \E r \in Requests : Proceeds(r)
         \/ \E r \in Requests, reply \in Replies \cup {Failed} :
              \/ DirectReturns(r, reply) \/ LeaderReturns(r, reply)
              \/ RefreshReturns(r, reply)
         \/ Background
  BY DEF Next, Background, Fetches, Refreshes

(* What has been heard is never forgotten.                                 *)
LEMMA NothingForgotten ==
  ASSUME TypeOK, Placed, [Next]_vars, NEW q, NEW fact, Says(q, fact)
  PROVE  Says(q, fact)'
<1>1. query' = query
  BY SameQueries
<1>2. CASE Background
  BY <1>1, <1>2, BackgroundQuiet, NothingHeard, SameResults
<1>3. CASE \E r \in Requests : Proceeds(r)
  BY <1>1, <1>3, ProceedsQuiet, NothingHeard, SameResults
<1>4. ASSUME NEW r \in Requests, NEW reply \in Replies \cup {Failed},
             DirectReturns(r, reply) \/ LeaderReturns(r, reply)
      PROVE  Says(q, fact)'
  <2>1. result' = result
    BY <1>4, SameResults DEF Fetches
  <2>2. \A s \in Requests : FetchedItself(s) => Quiet(s)
    BY <1>4, FetchesNews
  <2> QED BY <1>1, <2>1, <2>2 DEF Says, Quiet, Key
<1>5. ASSUME NEW r \in Requests, NEW reply \in Replies \cup {Failed},
             RefreshReturns(r, reply)
      PROVE  Says(q, fact)'
  <2>1. \A s \in Requests : /\ result[s] # Blank => result'[s] = result[s]
                            /\ Quiet(s)
    BY <1>5, RefreshesNews
  <2> QED BY <1>1, <2>1 DEF Says, Quiet, Key
<1> QED BY <1>2, <1>3, <1>4, <1>5, StepKinds

-------------------------------------------------------------------------------
(* The lifetime an entry is given is within the reply's TTL and the cap.   *)
LEMMA LifetimeCapped ==
  ASSUME NEW reply \in Reply
  PROVE  /\ Lifetime(reply) \in Nat
         /\ Lifetime(reply) <= reply.ttl
         /\ Lifetime(reply) # 0 => Lifetime(reply) <= CapOf(reply.kind)
<1>1. reply.ttl \in Nat /\ MaxTtl \in Nat /\ NegMaxTtl \in Nat
  BY CacheAssumption DEF Reply
<1> QED BY <1>1 DEF Lifetime, Lesser, CapOf

(* What a reply that may be cached leaves in the cache.                    *)
LEMMA StoredWell ==
  ASSUME NEW old, NEW reply \in Reply, NEW time \in Nat, Lifetime(reply) # 0
  PROVE  /\ EntryFact(Store(old, reply, time)) = Fact(Received(reply, time))
         /\ Lasting(Store(old, reply, time), time)
<1> DEFINE e == Store(old, reply, time)
<1>1. e = [kind |-> reply.kind, life |-> reply.ttl, fetched_at |-> time,
           valid_until |-> time + Lifetime(reply)]
  BY DEF Store
<1>2. EntryFact(e) = Fact(Received(reply, time))
  BY <1>1 DEF EntryFact, Fact, Received
<1>3. CapOf(reply.kind) \in Nat /\ reply.ttl \in Nat
  BY CacheAssumption DEF CapOf, Reply
<1>4. Lasting(e, time)
  BY <1>1, <1>3, LifetimeCapped DEF Lasting
<1> QED BY <1>2, <1>4

(* An entry that lasts keeps lasting.                                      *)
LEMMA StillLasting ==
  ASSUME NEW e \in Entry, NEW t \in Nat, NEW u \in Nat, t <= u, Lasting(e, t)
  PROVE  Lasting(e, u)
  BY DEF Lasting, Entry

(* The clock never runs backwards.                                         *)
LEMMA ClockRuns ==
  ASSUME TypeOK, [Next]_vars
  PROVE  now \in Nat /\ now' \in Nat /\ now <= now'
<1>1. now' = now \/ now' = now + 1
  BY DEF Next, vars, requestVars, Proceeds, Bypass, HitFresh, HitStale, Miss,
         Prefetch, ServeStale, RefreshWins, RefreshLoses, Lead, Follow,
         FreeSlot, Publish, Receive, Fetches, DirectReturns, LeaderReturns,
         Refreshes, RefreshReturns, RefreshReleases, Panics, DirectPanics,
         LeaderPanics, RefreshPanics, Evict, Tick
<1> QED BY <1>1, PoolAssumption DEF TypeOK

(* Only the end of a fetch puts something into the cache.                  *)
LEMMA CacheWrites ==
  ASSUME TypeOK, [Next]_vars, NEW q \in Questions
  PROVE  \/ cache'[q] \in {cache[q], NoEntry}
         \/ \E r \in Requests, reply \in Replies \cup {Failed} :
              LeaderReturns(r, reply) \/ RefreshReturns(r, reply)
  BY StepKinds
     DEF Background, vars, taskVars, Proceeds, Bypass, HitFresh, HitStale,
         Miss, Prefetch, ServeStale, RefreshWins, RefreshLoses, Lead, Follow,
         FreeSlot, Publish, Receive, DirectReturns, RefreshReleases, Panics,
         DirectPanics, LeaderPanics, RefreshPanics, Evict, Tick, TypeOK

(* A reply that has arrived has been heard about the question asked.       *)
LEMMA ArrivalHeard ==
  ASSUME TypeOK, Placed, NEW r \in Requests, NEW reply \in Replies,
         reply # Failed, LeaderReturns(r, reply) \/ RefreshReturns(r, reply)
  PROVE  /\ FetchCached(Key(r), reply)
         /\ now' = now
         /\ \A q, f : q = Key(r) /\ f = Fact(Received(reply, now))
                        => Says(q, f)'
<1>1. Fetched(reply) = Received(reply, now)
  BY DEF Fetched
<1>2. Received(reply, now) \notin {Blank, Failed}
  BY PoolAssumption, Values DEF Received, Reply
<1>3. CASE LeaderReturns(r, reply)
  <2>1. FetchedItself(r)' /\ response'[r] = Received(reply, now)
    BY <1>1, <1>3, FetchesNews
  <2> QED BY <1>3, <2>1 DEF LeaderReturns, Says, Key, Fact
<1>4. CASE RefreshReturns(r, reply)
  <2>1. result'[r] = Received(reply, now)
    BY <1>1, <1>4, RefreshesNews
  <2> QED BY <1>2, <1>4, <2>1
          DEF RefreshReturns, requestVars, Says, Key, Fact, Blank, Failed
<1> QED BY <1>3, <1>4

(* Whatever the cache holds was heard and is valid long enough only.       *)
LEMMA KeptStep ==
  TypeOK /\ Placed /\ Kept /\ [Next]_vars => Kept'
<1> SUFFICES ASSUME TypeOK, Placed, Kept, [Next]_vars, NEW q \in Questions
             PROVE  KeptWell(q, cache[q])'
  BY DEF Kept
<1>1. KeptWell(q, cache[q]) /\ cache[q] \in Entry \cup {NoEntry}
  BY DEF Kept, TypeOK
<1>2. CASE cache'[q] = NoEntry
  BY <1>2 DEF KeptWell
<1>3. CASE cache'[q] = cache[q] /\ cache[q] # NoEntry
  <2> PICK f : f = EntryFact(cache[q])
    OBVIOUS
  <2>1. Says(q, f) /\ Lasting(cache[q], now)
    BY <1>1, <1>3 DEF KeptWell
  <2>2. Lasting(cache[q], now')
    BY <1>1, <1>3, <2>1, ClockRuns, StillLasting
  <2>3. Says(q, f)'
    BY <2>1, NothingForgotten
  <2>4. f = EntryFact(cache[q])'
    BY <1>3 DEF EntryFact
  <2>5. Lasting(cache[q], now)'
    BY <1>3, <2>2 DEF Lasting
  <2> QED BY <2>3, <2>4, <2>5 DEF KeptWell
<1>4. ASSUME NEW r \in Requests, NEW reply \in Replies, reply # Failed,
             LeaderReturns(r, reply) \/ RefreshReturns(r, reply),
             q = Key(r), Lifetime(reply) # 0
      PROVE  KeptWell(q, cache[q])'
  <2> PICK f : f = Fact(Received(reply, now))
    OBVIOUS
  <2>1. now' = now /\ now \in Nat /\ Says(q, f)'
    BY <1>4, ArrivalHeard, ClockRuns
  <2>2. cache'[q] = Store(cache[q], reply, now)
    BY <1>4, ArrivalHeard DEF FetchCached, TypeOK
  <2>3. /\ EntryFact(Store(cache[q], reply, now)) = f
        /\ Lasting(Store(cache[q], reply, now), now)
    BY <1>4, <2>1, PoolAssumption, StoredWell
  <2>4. EntryFact(cache[q])' = f
    BY <2>2, <2>3 DEF EntryFact
  <2>5. Lasting(cache[q], now)'
    BY <2>1, <2>2, <2>3 DEF Lasting
  <2> QED BY <2>1, <2>4, <2>5 DEF KeptWell
<1>5. ASSUME NEW r \in Requests, NEW reply \in Replies \cup {Failed},
             LeaderReturns(r, reply) \/ RefreshReturns(r, reply)
      PROVE  KeptWell(q, cache[q])'
  <2>1. FetchCached(Key(r), reply)
    BY <1>5 DEF LeaderReturns, RefreshReturns
  <2>2. CASE reply = Failed \/ q # Key(r) \/ Lifetime(reply) = 0
    BY <1>2, <1>3, <2>1, <2>2 DEF FetchCached, Store, TypeOK
  <2>3. CASE reply # Failed /\ q = Key(r) /\ Lifetime(reply) # 0
    BY <1>4, <1>5, <2>3
  <2> QED BY <2>2, <2>3
<1> QED BY <1>2, <1>3, <1>5, CacheWrites

(* A leader leads itself: nobody follows a request that has not led, and a *)
(* request that may still choose leads nobody.                             *)
LEMMA LedStep ==
  TypeOK /\ Placed /\ Led /\ [Next]_vars => Led'
<1> SUFFICES ASSUME TypeOK, Placed, Led, [Next]_vars PROVE Led'
  OBVIOUS
<1> USE PoolAssumption DEF Led
<1>1. CASE UNCHANGED <<leader, single_flight>>
  BY <1>1
<1>2. ASSUME NEW r \in Requests, Lead(r) PROVE Led'
  <2>1. leader[r] = NoOne /\ Key(r) \in Questions
    BY <1>2, FoundType DEF Lead, Placed, Leaders
  <2> QED BY <1>2, <2>1 DEF Lead, TypeOK
<1>3. ASSUME NEW r \in Requests, Follow(r) PROVE Led'
  <2>1. leader[r] = NoOne /\ Key(r) \in Questions
    BY <1>3, FoundType DEF Follow, Placed, Leaders
  <2> QED BY <1>3, <2>1 DEF Follow, TypeOK
<1>4. ASSUME NEW r \in Requests, FreeSlot(r) PROVE Led'
  BY <1>4 DEF FreeSlot, TypeOK
<1> QED
  BY <1>1, <1>2, <1>3, <1>4, StepKinds
     DEF Background, vars, requestVars, Proceeds, Bypass, HitFresh, HitStale,
         Miss, Prefetch, ServeStale, RefreshWins, RefreshLoses, Publish,
         Receive, DirectReturns, LeaderReturns, RefreshReturns,
         RefreshReleases, Panics, DirectPanics, LeaderPanics, RefreshPanics,
         Evict, Tick

(* What a request takes from elsewhere than a fetch of its own has been    *)
(* heard about its question: from the cache, from its refresh, from the    *)
(* request it follows.                                                     *)
LEMMA TakesWhatIsHeard ==
  ASSUME PInv, Kept, Led, NEW s \in Requests
  PROVE  /\ cache[Key(s)] # NoEntry => Says(Key(s), EntryFact(cache[Key(s)]))
         /\ task[s] = "done" /\ result[s] # Failed
              => Says(Key(s), Fact(result[s]))
         /\ pc[s] = "following" /\ response[s] # Blank
              => Says(Key(s), Fact(response[s]))
<1>1. cache[Key(s)] # NoEntry => Says(Key(s), EntryFact(cache[Key(s)]))
  BY FoundType DEF PInv, Kept, KeptWell
<1>2. task[s] = "done" /\ result[s] # Failed => Says(Key(s), Fact(result[s]))
  BY Values DEF PInv, Placed, Tasks, Says
<1>3. ASSUME pc[s] = "following", response[s] # Blank
      PROVE  Says(Key(s), Fact(response[s]))
  <2>1. leader[s] \notin {s, NoOne} /\ leader[s] \in Requests
    BY <1>3 DEF PInv, Placed, Leaders, TypeOK
  <2>2. /\ Key(leader[s]) = Key(s) /\ pc[leader[s]] = "done"
        /\ response[s] = response[leader[s]]
    BY <1>3, <2>1 DEF PInv, Followed, FollowedWell, Follower
  <2>3. FetchedItself(leader[s])
    BY <2>1, <2>2 DEF Led, FetchedItself
  <2> QED BY <2>1, <2>2, <2>3 DEF Says
<1> QED BY <1>1, <1>2, <1>3

(* What a request has come to hold in a step.                              *)
LEMMA HowHeld ==
  ASSUME PInv, [Next]_vars, NEW s \in Requests, Holding(s)'
  PROVE  \/ Holding(s) /\ response'[s] = response[s]
         \/ /\ cache[Key(s)] # NoEntry
            /\ Fact(response[s])' = EntryFact(cache[Key(s)])
         \/ /\ task[s] = "done" /\ result[s] # Failed
            /\ response'[s] = result[s]
         \/ /\ pc[s] = "following" /\ response[s] # Blank
            /\ response'[s] = response[s]
         \/ FetchedItself(s)'
<1>0. Statuses(s) /\ TypeOK /\ Placed
  BY DEF PInv, Placed
<1>1. ASSUME NEW r \in Requests, Proceeds(r) PROVE ~FetchedItself(s)' =>
         \/ Holding(s) /\ response'[s] = response[s]
         \/ /\ cache[Key(s)] # NoEntry
            /\ Fact(response[s])' = EntryFact(cache[Key(s)])
         \/ /\ task[s] = "done" /\ result[s] # Failed
            /\ response'[s] = result[s]
         \/ /\ pc[s] = "following" /\ response[s] # Blank
            /\ response'[s] = response[s]
  <2> USE <1>0 DEF Statuses, Holding, Goto, TypeOK
  <2>1. CASE HitFresh(r) \/ HitStale(r)
    BY <2>1 DEF HitFresh, HitStale, IsFresh, IsStale, Fact, EntryFact, Rebuilt
  <2>2. CASE Bypass(r) \/ Miss(r) \/ Lead(r) \/ Follow(r) \/ FreeSlot(r)
    BY <2>2 DEF Bypass, Miss, Lead, Follow, FreeSlot
  <2>3. CASE Prefetch(r) \/ ServeStale(r) \/ RefreshWins(r) \/ RefreshLoses(r)
    <3>1. Statuses(r)
      BY DEF Placed
    <3> QED BY <2>3, <3>1
            DEF Prefetch, ServeStale, RefreshWins, RefreshLoses
  <2>4. CASE Publish(r)
    BY <2>4 DEF Publish, Subscribers
  <2>5. CASE Receive(r)
    BY <2>5 DEF Receive
  <2> QED BY <1>1, <2>1, <2>2, <2>3, <2>4, <2>5 DEF Proceeds
<1>2. ASSUME NEW r \in Requests, NEW reply \in Replies \cup {Failed},
             \/ DirectReturns(r, reply) \/ LeaderReturns(r, reply)
             \/ RefreshReturns(r, reply)
      PROVE  ~FetchedItself(s)' => Holding(s) /\ response'[s] = response[s]
  <2>1. CASE DirectReturns(r, reply) \/ LeaderReturns(r, reply)
    <3>1. FetchedItself(r)'
      BY <1>0, <2>1, FetchesNews
    <3> QED BY <1>0, <2>1, <3>1
            DEF DirectReturns, LeaderReturns, Holding, Goto, TypeOK
  <2>2. CASE RefreshReturns(r, reply)
    BY <2>2 DEF RefreshReturns, requestVars, Holding
  <2> QED BY <1>2, <2>1, <2>2
<1>3. ASSUME Background PROVE Holding(s) /\ response'[s] = response[s]
  <2>1. CASE \E r \in Requests : Panics(r)
    BY <1>0, <2>1 DEF Panics, DirectPanics, LeaderPanics, RefreshPanics,
                      requestVars, Holding, Goto, TypeOK
  <2> QED BY <1>3, <2>1
          DEF Background, RefreshReleases, Evict, Tick, vars, requestVars,
              Holding
<1> QED BY <1>1, <1>2, <1>3, StepKinds

(* So what it holds was heard.                                             *)
LEMMA ToldStep ==
  PInv /\ Kept /\ Led /\ Told /\ [Next]_vars => Told'
<1> SUFFICES ASSUME PInv, Kept, Led, Told, [Next]_vars, NEW s \in Requests,
                    Holding(s)'
             PROVE  Says(Key(s), Fact(response[s]))'
  BY DEF Told
<1>0. TypeOK /\ Placed /\ query' = query
  BY SameQueries DEF PInv
<1> PICK f : f = Fact(response[s])'
  OBVIOUS
<1> PICK q : q = Key(s)
  OBVIOUS
<1>1. CASE FetchedItself(s)'
  BY <1>1 DEF Says
<1>2. CASE Says(q, f)
  <2>1. Says(q, f)'
    BY <1>0, <1>2, NothingForgotten
  <2>2. q = Key(s)'
    BY <1>0 DEF Key
  <2> QED BY <2>1, <2>2
<1>3. Says(q, f) \/ FetchedItself(s)'
  <2>1. response'[s] = response[s] => f = Fact(response[s])
    BY DEF Fact
  <2>2. response'[s] = result[s] => f = Fact(result[s])
    BY DEF Fact
  <2>3. Holding(s) => Says(q, Fact(response[s]))
    BY DEF Told
  <2> QED BY <2>1, <2>2, <2>3, HowHeld, TakesWhatIsHeard
<1> QED BY <1>1, <1>2, <1>3

(* What is heard in a step is a fact.                                      *)
LEMMA FactualStep ==
  TypeOK /\ Placed /\ Factual /\ [Next]_vars => Factual'
<1> SUFFICES ASSUME TypeOK, Placed, Factual, [Next]_vars, NEW s \in Requests
             PROVE  /\ FetchedItself(s)' => Fact(response'[s]) \in Facts
                    /\ result'[s] \notin {Blank, Failed} =>
                         Fact(result'[s]) \in Facts
  BY DEF Factual, Fact
<1>0. /\ FetchedItself(s) => Fact(response[s]) \in Facts
      /\ result[s] \notin {Blank, Failed} => Fact(result[s]) \in Facts
  BY DEF Factual
<1>1. CASE Quiet(s) /\ result'[s] = result[s]
  BY <1>0, <1>1 DEF Quiet
<1>2. ASSUME NEW r \in Requests, NEW reply \in Replies \cup {Failed},
             \/ DirectReturns(r, reply) \/ LeaderReturns(r, reply)
             \/ RefreshReturns(r, reply)
      PROVE  \/ Quiet(s) /\ result'[s] = result[s]
             \/ /\ response'[s] = Fetched(reply) \/ Quiet(s)
                /\ result'[s] \in {result[s], Fetched(reply)}
  <2>1. DirectReturns(r, reply) \/ LeaderReturns(r, reply) => result' = result
    BY DEF DirectReturns, LeaderReturns, taskVars
  <2> QED BY <1>2, <2>1, FetchesNews, RefreshesNews
<1>3. CASE \E r \in Requests : Proceeds(r)
  BY <1>1, <1>3, ProceedsQuiet, SameResults
<1>4. CASE Background
  BY <1>1, <1>4, BackgroundQuiet, SameResults
<1> QED
  BY <1>0, <1>1, <1>2, <1>3, <1>4, StepKinds, FetchedFact DEF Quiet

-------------------------------------------------------------------------------
(* How the places and responses of the requests show through the mapping.  *)
Over == {"done", "panicked"}

(* Only request r moves to its end, with what it holds now.                *)
Ends(r, place) ==
  /\ pc[r] \notin Over
  /\ pc'[r] = place
  /\ \A s \in Requests \ {r} :
       /\ (pc'[s] = pc[s] \/ (pc[s] \notin Over /\ pc'[s] \notin Over))
       /\ (pc[s] = "done" => response'[s] = response[s])

(* No request ends, and those that have keep their response.               *)
NoneEnds ==
  \A s \in Requests :
    /\ (pc'[s] = pc[s] \/ (pc[s] \notin Over /\ pc'[s] \notin Over))
    /\ (pc[s] = "done" => response'[s] = response[s])

(* The end of a request shows as its answer.                               *)
LEMMA EndMaps ==
  ASSUME NEW r \in Requests, Ends(r, "done")
  PROVE  /\ Phase(r) = "open"
         /\ [s \in Requests |-> Phase(s)]' =
              [[s \in Requests |-> Phase(s)] EXCEPT ![r] = "answered"]
         /\ [s \in Requests |-> IF pc[s] = "done" THEN {Fact(response[s])}
                                                  ELSE {}]' =
              [[s \in Requests |-> IF pc[s] = "done" THEN {Fact(response[s])}
                                                     ELSE {}]
                 EXCEPT ![r] = {Fact(response'[r])}]
  BY DEF Ends, Over, Phase, Fact

(* A panic of a request shows as its loss.                                 *)
LEMMA LossMaps ==
  ASSUME NEW r \in Requests, Ends(r, "panicked")
  PROVE  /\ Phase(r) = "open"
         /\ [s \in Requests |-> Phase(s)]' =
              [[s \in Requests |-> Phase(s)] EXCEPT ![r] = "lost"]
         /\ [s \in Requests |-> IF pc[s] = "done" THEN {Fact(response[s])}
                                                  ELSE {}]' =
              [s \in Requests |-> IF pc[s] = "done" THEN {Fact(response[s])}
                                                    ELSE {}]
  BY DEF Ends, Over, Phase, Fact

(* A step that ends no request shows in no phase or reply.                 *)
LEMMA NoEndMaps ==
  ASSUME NoneEnds
  PROVE  /\ [s \in Requests |-> Phase(s)]' = [s \in Requests |-> Phase(s)]
         /\ [s \in Requests |-> IF pc[s] = "done" THEN {Fact(response[s])}
                                                  ELSE {}]' =
              [s \in Requests |-> IF pc[s] = "done" THEN {Fact(response[s])}
                                                    ELSE {}]
  BY DEF NoneEnds, Over, Phase, Fact

(* What the service sees of a step.  First: nothing.                       *)
LEMMA MapsToStutter ==
  ASSUME NoneEnds, query' = query, result' = result,
         \A s \in Requests : Quiet(s)
  PROVE  UNCHANGED Service!vars
<1>1. [s \in Requests |-> Key(s)]' = [s \in Requests |-> Key(s)]
  BY DEF Key
<1>2. [q \in Questions |-> Heard(q)]' = [q \in Questions |-> Heard(q)]
  BY NothingHeard
<1> QED BY <1>1, <1>2, NoEndMaps DEF Service!vars

(* A request ends with what was heard before.                              *)
LEMMA MapsToAnswer ==
  ASSUME NEW r \in Requests, Ends(r, "done"), query' = query,
         result' = result, \A s \in Requests : Quiet(s), Key(r) \in Questions,
         NEW f, f = Fact(response'[r]), f \in Heard(Key(r))
  PROVE  Service!Answer(r, f)
<1>1. [s \in Requests |-> Key(s)]' = [s \in Requests |-> Key(s)]
  BY DEF Key
<1>2. [q \in Questions |-> Heard(q)]' = [q \in Questions |-> Heard(q)]
  BY NothingHeard
<1> QED BY <1>1, <1>2, EndMaps DEF Service!Answer

(* What is heard of one question, as the service sees it.                  *)
LEMMA NewsMaps ==
  ASSUME query' = query, NEW r \in Requests, Key(r) \in Questions, NEW f,
         \A q : Heard(q)' = IF q = Key(r) THEN Heard(q) \cup {f} ELSE Heard(q)
  PROVE  /\ [s \in Requests |-> Key(s)]' = [s \in Requests |-> Key(s)]
         /\ [q \in Questions |-> Heard(q)]' =
              [[q \in Questions |-> Heard(q)]
                 EXCEPT ![Key(r)] = Heard(Key(r)) \cup {f}]
  BY DEF Key

(* Something is heard, and no request ends.                                *)
LEMMA MapsToHear ==
  ASSUME NoneEnds, query' = query, NEW r \in Requests, Key(r) \in Questions,
         NEW f,
         \A q : Heard(q)' = IF q = Key(r) THEN Heard(q) \cup {f} ELSE Heard(q)
  PROVE  Service!Hear(Key(r), f)
  BY NewsMaps, NoEndMaps DEF Service!Hear

(* A request ends with what is heard as it does.                           *)
LEMMA MapsToRelay ==
  ASSUME NEW r \in Requests, Ends(r, "done"), query' = query,
         Key(r) \in Questions, NEW f, f = Fact(response'[r]),
         \A q : Heard(q)' = IF q = Key(r) THEN Heard(q) \cup {f} ELSE Heard(q)
  PROVE  Service!Relay(r, f)
  BY NewsMaps, EndMaps DEF Service!Relay

(* A request is lost, and nothing is heard.                                *)
LEMMA MapsToLose ==
  ASSUME NEW r \in Requests, Ends(r, "panicked"), query' = query,
         result' = result, \A s \in Requests : Quiet(s)
  PROVE  Service!Lose(r)
<1>1. [s \in Requests |-> Key(s)]' = [s \in Requests |-> Key(s)]
  BY DEF Key
<1>2. [q \in Questions |-> Heard(q)]' = [q \in Questions |-> Heard(q)]
  BY NothingHeard
<1> QED BY <1>1, <1>2, LossMaps DEF Service!Lose
-------------------------------------------------------------------------------
(* What has been heard is made of facts.                                   *)
LEMMA HeardFacts ==
  ASSUME Factual, NEW q, NEW f, f \in Heard(q)
  PROVE  f \in Facts
  BY HeardSays DEF Factual, Says

(* At first nothing is answered and nothing has been heard.                *)
LEMMA ServiceInit == Init => ServiceInv /\ Service!Init
<1> SUFFICES ASSUME Init PROVE ServiceInv /\ Service!Init
  OBVIOUS
<1>1. /\ \A s \in Requests : ~FetchedItself(s) /\ result[s] = Blank
      /\ \A s \in Requests : Phase(s) = "open" /\ pc[s] # "done"
      /\ \A s \in Requests : Key(s) \in Questions /\ ~Holding(s)
  BY PoolAssumption DEF Init, FetchedItself, Phase, Key, Query, Holding
<1>2. \A q \in Questions : Heard(q) = {}
  BY <1>1 DEF Heard
<1>3. ServiceInv
  BY <1>1 DEF Init, ServiceInv, Kept, KeptWell, Led, Told, Factual
<1>4. Service!Init
  BY <1>1, <1>2 DEF Service!Init
<1> QED BY <1>3, <1>4

(* Every step keeps the invariant of the mapping.                          *)
LEMMA ServiceInvStep ==
  PInv /\ ServiceInv /\ [Next]_vars => ServiceInv'
  BY KeptStep, LedStep, ToldStep, FactualStep DEF PInv, ServiceInv

(* Where the requests are after a step: at most one ends, by its own step. *)
LEMMA ProceedsEnds ==
  ASSUME PInv, NEW r \in Requests, Proceeds(r)
  PROVE  NoneEnds \/ Ends(r, "done")
<1>0. TypeOK /\ Statuses(r)
  BY DEF PInv, Placed
<1> USE <1>0 DEF NoneEnds, Ends, Over, Goto, TypeOK
<1>1. CASE Bypass(r) \/ HitFresh(r) \/ HitStale(r) \/ Miss(r)
  BY <1>1 DEF Bypass, HitFresh, HitStale, Miss
<1>2. CASE Prefetch(r) \/ ServeStale(r) \/ RefreshWins(r) \/ RefreshLoses(r)
  BY <1>2 DEF Prefetch, ServeStale, RefreshWins, RefreshLoses
<1>3. CASE Lead(r) \/ Follow(r) \/ FreeSlot(r) \/ Receive(r)
  BY <1>3 DEF Lead, Follow, FreeSlot, Receive
<1>4. CASE Publish(r)
  BY <1>4 DEF Publish, Subscribers
<1> QED BY <1>1, <1>2, <1>3, <1>4 DEF Proceeds

(* Every step of the pool is a step of the service, or none.               *)
LEMMA ServiceStep ==
  PInv /\ ServiceInv /\ ServiceInv' /\ [Next]_vars
    => [Service!Next]_(Service!vars)
<1> SUFFICES ASSUME PInv, ServiceInv, ServiceInv', [Next]_vars
             PROVE  Service!Next \/ UNCHANGED Service!vars
  OBVIOUS
<1>0. TypeOK /\ Placed /\ query' = query
  BY SameQueries DEF PInv
<1>1. ASSUME NEW r \in Requests, Proceeds(r)
      PROVE  Service!Next \/ UNCHANGED Service!vars
  <2>1. result' = result /\ \A s \in Requests : Quiet(s)
    BY <1>0, <1>1, SameResults, ProceedsQuiet
  <2>2. CASE NoneEnds
    BY <1>0, <2>1, <2>2, MapsToStutter
  <2>3. CASE Ends(r, "done")
    <3> PICK f : f = Fact(response'[r])
      OBVIOUS
    <3> PICK q : q = Key(r)
      OBVIOUS
    <3>1. Says(q, f)'
      BY <1>0, <2>3 DEF Ends, ServiceInv, Told, Holding, Key, Fact
    <3>2. f \in Heard(q)
      BY <1>0, <2>1, <3>1, NothingHeard, HeardSays
    <3>3. f \in Facts
      BY <3>2, HeardFacts DEF ServiceInv
    <3>4. Service!Answer(r, f)
      BY <1>0, <2>1, <2>3, <3>2, FoundType, MapsToAnswer
    <3> QED BY <3>3, <3>4 DEF Service!Next
  <2> QED BY <1>1, <2>2, <2>3, ProceedsEnds
<1>2. ASSUME NEW r \in Requests, NEW reply \in Replies \cup {Failed},
             DirectReturns(r, reply) \/ LeaderReturns(r, reply)
      PROVE  Service!Next
  <2> PICK f : f = Fact(response'[r])
    OBVIOUS
  <2>1. f \in Facts
    BY <1>0, <1>2, FetchesNews, FetchedFact
  <2>2. result' = result
    BY <1>2, SameResults DEF Fetches
  <2>3. \A q : Heard(q)' = IF q = Key(r) THEN Heard(q) \cup {f} ELSE Heard(q)
    BY <1>0, <1>2, <2>2, FetchesNews, RequestHears
  <2>4. Key(r) \in Questions
    BY <1>0, FoundType
  <2>5. CASE DirectReturns(r, reply)
    <3>1. Ends(r, "done")
      BY <1>0, <2>5 DEF DirectReturns, Ends, Over, Goto, TypeOK
    <3>2. Service!Relay(r, f)
      BY <1>0, <2>3, <2>4, <3>1, MapsToRelay
    <3> QED BY <2>1, <3>2 DEF Service!Next
  <2>6. CASE LeaderReturns(r, reply)
    <3>1. NoneEnds
      BY <1>0, <2>6 DEF LeaderReturns, NoneEnds, Over, Goto, TypeOK
    <3>2. Service!Hear(Key(r), f)
      BY <1>0, <2>3, <2>4, <3>1, MapsToHear
    <3> QED BY <2>1, <2>4, <3>2 DEF Service!Next
  <2> QED BY <1>2, <2>5, <2>6
<1>3. ASSUME NEW r \in Requests, NEW reply \in Replies \cup {Failed},
             RefreshReturns(r, reply)
      PROVE  Service!Next \/ UNCHANGED Service!vars
  <2> PICK f : f = Fact(result'[r])
    OBVIOUS
  <2>1. f \in Facts /\ result'[r] # Blank
    BY <1>0, <1>3, RefreshesNews, FetchedFact, FetchedType
  <2>2. \A q : Heard(q)' = IF q = Key(r) /\ result'[r] # Failed
                           THEN Heard(q) \cup {f} ELSE Heard(q)
    BY <1>0, <1>3, <2>1, RefreshesNews, RefreshHears
  <2>3. NoneEnds
    BY <1>3 DEF RefreshReturns, requestVars, NoneEnds
  <2>4. Key(r) \in Questions
    BY <1>0, FoundType
  <2>5. CASE result'[r] # Failed
    <3>1. Service!Hear(Key(r), f)
      BY <1>0, <2>2, <2>3, <2>4, <2>5, MapsToHear
    <3> QED BY <2>1, <2>4, <3>1 DEF Service!Next
  <2>6. CASE result'[r] = Failed
    <3>1. [q \in Questions |-> Heard(q)]' = [q \in Questions |-> Heard(q)]
      BY <2>2, <2>6
    <3>2. [s \in Requests |-> Key(s)]' = [s \in Requests |-> Key(s)]
      BY <1>0 DEF Key
    <3> QED BY <2>3, <3>1, <3>2, NoEndMaps DEF Service!vars
  <2> QED BY <2>5, <2>6
<1>4. ASSUME Background PROVE Service!Next \/ UNCHANGED Service!vars
  <2>1. result' = result /\ \A s \in Requests : Quiet(s)
    BY <1>0, <1>4, SameResults, BackgroundQuiet
  <2>2. ASSUME NEW r \in Requests, DirectPanics(r) \/ LeaderPanics(r)
        PROVE  Service!Next
    <3>1. Ends(r, "panicked")
      BY <1>0, <2>2 DEF DirectPanics, LeaderPanics, Ends, Over, Goto, TypeOK
    <3>2. Service!Lose(r)
      BY <1>0, <2>1, <3>1, MapsToLose
    <3> QED BY <3>2 DEF Service!Next
  <2>3. CASE UNCHANGED requestVars
    <3>1. NoneEnds
      BY <2>3 DEF requestVars, NoneEnds
    <3> QED BY <1>0, <2>1, <3>1, MapsToStutter
  <2> QED BY <1>4, <2>2, <2>3
          DEF Background, Panics, RefreshPanics, RefreshReleases, Evict, Tick,
              vars, requestVars
<1> QED BY <1>1, <1>2, <1>3, <1>4, StepKinds

(* The pool implements ResolveService: a request is answered at most once, *)
(* with what an upstream said about the very question it asks, and with a  *)
(* failure only if a client-facing resolution of that question failed.     *)
THEOREM ServiceImplemented == Spec => ImplementsService
<1>1. Init => PInv /\ ServiceInv /\ Service!Init
  BY InvInit, ServiceInit
<1>2. PInv /\ ServiceInv /\ [Next]_vars => (PInv /\ ServiceInv)'
  BY InvStep, ServiceInvStep
<1>3. PInv /\ ServiceInv /\ (PInv /\ ServiceInv)' /\ [Next]_vars
        => [Service!Next]_(Service!vars)
  BY ServiceStep
<1> QED BY <1>1, <1>2, <1>3, PTL DEF Spec, ImplementsService, Service!Spec

(* What a request takes from the cache is within its time when it does so. *)
LEMMA TakenWell ==
  ASSUME PInv, Kept, [Next]_vars, NEW r \in Requests, status'[r] # status[r]
  PROVE  TakenInTime(r)
<1>0. TypeOK /\ Key(r) \in Questions /\ now \in Nat /\ StaleWindow \in Nat
  BY FoundType, PoolAssumption, CacheAssumption DEF PInv, TypeOK
<1> DEFINE e == cache[Key(r)]
<1>1. e # NoEntry => e \in Entry /\ Lasting(e, now) /\ CapOf(e.kind) \in Nat
  BY <1>0, CacheAssumption DEF Kept, KeptWell, TypeOK, CapOf
<1>2. ASSUME HitFresh(r) PROVE TakenInTime(r)
  <2>1. e # NoEntry /\ now <= e.valid_until
    BY <1>2 DEF HitFresh, IsFresh
  <2>2. status'[r] = "hit" /\ response'[r] = Rebuilt(e, e.valid_until - now)
    BY <1>0, <1>2 DEF HitFresh, TypeOK
  <2>3. /\ now - e.fetched_at + (e.valid_until - now) <= e.life
        /\ now - e.fetched_at + (e.valid_until - now) <= CapOf(e.kind)
    BY <1>0, <1>1, <2>1 DEF Entry, Lasting
  <2> HIDE DEF e
  <2> QED BY <2>2, <2>3 DEF TakenInTime, Rebuilt
<1>3. ASSUME HitStale(r) PROVE TakenInTime(r)
  <2>1. e # NoEntry /\ now <= e.valid_until + StaleWindow
    BY <1>3 DEF HitStale, IsStale
  <2>2. status'[r] = "stale" /\ response'[r] = Rebuilt(e, StaleServeTtl)
    BY <1>0, <1>3 DEF HitStale, TypeOK
  <2>3. /\ now - e.fetched_at <= e.life + StaleWindow
        /\ now - e.fetched_at <= CapOf(e.kind) + StaleWindow
    BY <1>0, <1>1, <2>1 DEF Entry, Lasting
  <2> HIDE DEF e
  <2> QED BY <2>2, <2>3 DEF TakenInTime, Rebuilt
<1>4. ASSUME Bypass(r) \/ Miss(r) PROVE TakenInTime(r)
  BY <1>0, <1>4 DEF Bypass, Miss, TakenInTime, TypeOK
<1>5. ASSUME NEW s \in Requests, Proceeds(s)
      PROVE  \/ Bypass(r) \/ HitFresh(r) \/ HitStale(r) \/ Miss(r)
             \/ status'[r] = status[r]
  <2>1. CASE Bypass(s) \/ HitFresh(s) \/ HitStale(s) \/ Miss(s)
    <3>1. s # r => status'[r] = status[r]
      BY <1>0, <2>1 DEF Bypass, HitFresh, HitStale, Miss, TypeOK
    <3> QED BY <2>1, <3>1
  <2>2. CASE Prefetch(s) \/ ServeStale(s) \/ RefreshWins(s) \/ RefreshLoses(s)
    BY <2>2 DEF Prefetch, ServeStale, RefreshWins, RefreshLoses
  <2>3. CASE \/ Lead(s) \/ Follow(s) \/ FreeSlot(s) \/ Publish(s)
             \/ Receive(s)
    BY <2>3 DEF Lead, Follow, FreeSlot, Publish, Receive
  <2> QED BY <1>5, <2>1, <2>2, <2>3 DEF Proceeds
<1>6. ASSUME NEW s \in Requests, NEW reply \in Replies \cup {Failed},
             \/ DirectReturns(s, reply) \/ LeaderReturns(s, reply)
             \/ RefreshReturns(s, reply)
      PROVE  status' = status
  BY <1>6 DEF DirectReturns, LeaderReturns, RefreshReturns, requestVars
<1>7. ASSUME Background PROVE status' = status
  BY <1>7 DEF Background, RefreshReleases, Panics, DirectPanics, LeaderPanics,
              RefreshPanics, Evict, Tick, vars, requestVars
<1> QED BY <1>2, <1>3, <1>4, <1>5, <1>6, <1>7, StepKinds

(* No answer from the cache outlives what its upstream allowed, the cap of *)
(* its kind, and, if it is reported stale, the stale window.               *)
THEOREM LifetimesKept == Spec => ServesWithinLifetime
<1>1. Init => PInv /\ Kept
  BY InvInit, ServiceInit DEF ServiceInv
<1>2. PInv /\ Kept /\ [Next]_vars => (PInv /\ Kept)'
  BY InvStep, KeptStep DEF PInv
<1>3. PInv /\ Kept /\ [Next]_vars
        => [\A r \in Requests : status'[r] # status[r] => TakenInTime(r)]_vars
  BY TakenWell
<1> QED BY <1>1, <1>2, <1>3, PTL DEF Spec, ServesWithinLifetime

-------------------------------------------------------------------------------
(* The counters.  A stale answer is older than anything the refresh that   *)
(* is waited for can return, so giving it out is told apart from relaying  *)
(* what the refresh returned.                                              *)
Aged(r) ==
  /\ response[r].at < now
  /\ result[r] \notin {Blank, Failed} => response[r].at < result[r].at

AgingAt(r) ==
  status[r] = "stale" =>
    \/ Aged(r)
    \/ pc[r] = "done" /\ task[r] = "done" /\ response[r] = result[r]

Aging == \A r \in Requests : AgingAt(r)

(* The requests each counter counts.                                       *)
HitBy == {r \in Requests : status[r] = "hit"}
MissedBy == {r \in Requests : status[r] = "miss"}
PrefetchedBy == {r \in Requests : status[r] = "hit" /\ task[r] # "none"}
StaleTo == {r \in Requests : GaveStale(r)}
NegativeTo ==
  {r \in Requests : status[r] = "hit" /\ response[r].kind = "negative"}
FailedFor == {r \in Requests : OwnFetchFailed(r)}
RefreshFailedFor == {r \in Requests : result[r] = Failed}

(* MetricsAgree, set by set.                                               *)
Balance ==
  /\ metrics["cache_hits"] = Cardinality(HitBy)
  /\ metrics["cache_misses"] = Cardinality(MissedBy)
  /\ metrics["prefetches"] = Cardinality(PrefetchedBy)
  /\ metrics["served_stale"] = Cardinality(StaleTo)
  /\ metrics["negative_cache_hits"] >= Cardinality(NegativeTo)
  /\ metrics["upstream_failed"] = Cardinality(FailedFor)
                                  + Cardinality(RefreshFailedFor)

(* The two say the same.                                                   *)
LEMMA BalanceIsAgreement == Balance <=> MetricsAgree
  BY DEF Balance, MetricsAgree, HitBy, MissedBy, PrefetchedBy, StaleTo,
         NegativeTo, FailedFor, RefreshFailedFor

(* How the size of a set of requests moves when one request may join it.   *)
Joins(before, after, r) ==
  /\ Cardinality(before) \in Nat /\ Cardinality(after) \in Nat
  /\ (r \in after <=> r \in before) => Cardinality(after) = Cardinality(before)
  /\ r \in after /\ r \notin before
       => Cardinality(after) = Cardinality(before) + 1

(* So it does when all others stay in or out.                              *)
LEMMA OneJoins ==
  ASSUME NEW before \in SUBSET Requests, NEW after \in SUBSET Requests,
         NEW r \in Requests,
         \A s \in Requests \ {r} : s \in after <=> s \in before
  PROVE  Joins(before, after, r)
<1>1. /\ IsFiniteSet(before) /\ Cardinality(before) \in Nat
      /\ IsFiniteSet(after) /\ Cardinality(after) \in Nat
  BY FS_Subset, FS_CardinalityType, PoolAssumption
<1>2. CASE r \in after <=> r \in before
  <2>1. after = before
    BY <1>2
  <2> QED BY <1>1, <1>2, <2>1 DEF Joins
<1>3. CASE r \in after /\ r \notin before
  <2>1. after = before \cup {r}
    BY <1>3
  <2> QED BY <1>1, <1>3, <2>1, FS_AddElement DEF Joins
<1>4. CASE r \notin after /\ r \in before
  BY <1>1, <1>4 DEF Joins
<1> QED BY <1>2, <1>3, <1>4

(* What the counters know of a request does not change.                    *)
SameMarks(s) ==
  /\ s \in HitBy' <=> s \in HitBy
  /\ s \in MissedBy' <=> s \in MissedBy
  /\ s \in PrefetchedBy' <=> s \in PrefetchedBy
  /\ s \in StaleTo' <=> s \in StaleTo
  /\ s \in NegativeTo' <=> s \in NegativeTo
  /\ s \in FailedFor' <=> s \in FailedFor
  /\ s \in RefreshFailedFor' <=> s \in RefreshFailedFor

(* Each set of marks moves by at most one request in a step.               *)
LEMMA MarksJoin ==
  ASSUME NEW r \in Requests, \A s \in Requests \ {r} : SameMarks(s)
  PROVE  /\ Joins(HitBy, HitBy', r) /\ Joins(MissedBy, MissedBy', r)
         /\ Joins(PrefetchedBy, PrefetchedBy', r)
         /\ Joins(StaleTo, StaleTo', r) /\ Joins(NegativeTo, NegativeTo', r)
         /\ Joins(FailedFor, FailedFor', r)
         /\ Joins(RefreshFailedFor, RefreshFailedFor', r)
<1>1. /\ HitBy \in SUBSET Requests /\ HitBy' \in SUBSET Requests
      /\ MissedBy \in SUBSET Requests /\ MissedBy' \in SUBSET Requests
      /\ PrefetchedBy \in SUBSET Requests /\ PrefetchedBy' \in SUBSET Requests
      /\ StaleTo \in SUBSET Requests /\ StaleTo' \in SUBSET Requests
      /\ NegativeTo \in SUBSET Requests /\ NegativeTo' \in SUBSET Requests
      /\ FailedFor \in SUBSET Requests /\ FailedFor' \in SUBSET Requests
      /\ RefreshFailedFor \in SUBSET Requests
      /\ RefreshFailedFor' \in SUBSET Requests
  BY DEF HitBy, MissedBy, PrefetchedBy, StaleTo, NegativeTo, FailedFor,
         RefreshFailedFor
<1>2. \A s \in Requests \ {r} : SameMarks(s)
  OBVIOUS
<1> QED BY <1>1, <1>2, OneJoins DEF SameMarks

(* A step that changes no mark and no counter keeps the balance.           *)
LEMMA Unmarked ==
  ASSUME Balance, metrics' = metrics, \A s \in Requests : SameMarks(s)
  PROVE  Balance'
<1>1. /\ HitBy' = HitBy /\ MissedBy' = MissedBy /\ StaleTo' = StaleTo
      /\ PrefetchedBy' = PrefetchedBy /\ NegativeTo' = NegativeTo
      /\ FailedFor' = FailedFor /\ RefreshFailedFor' = RefreshFailedFor
  <2>1. \A s : SameMarks(s) \/ s \notin Requests
    OBVIOUS
  <2> QED BY <2>1 DEF SameMarks, HitBy, MissedBy, PrefetchedBy, StaleTo,
                      NegativeTo, FailedFor, RefreshFailedFor
<1> QED BY <1>1 DEF Balance

(* A stale answer stays older than what its refresh returns: it was past   *)
(* its validity when it was taken, and the refresh began only then.        *)
LEMMA AgingStep ==
  PInv /\ Kept /\ Aging /\ [Next]_vars => Aging'
<1> SUFFICES ASSUME PInv, Kept, Aging, [Next]_vars, NEW s \in Requests
             PROVE  AgingAt(s)'
  BY DEF Aging
<1>0. /\ TypeOK /\ Placed /\ Statuses(s) /\ Tasks(s) /\ Responses(s)
      /\ AgingAt(s) /\ now \in Nat /\ now' \in Nat /\ now <= now'
      /\ response[s].at \in Nat /\ result[s].at \in Nat
  BY ClockRuns DEF PInv, Placed, Aging, TypeOK, Response
<1>1. ASSUME response'[s] = response[s], result'[s] = result[s],
             status'[s] = status[s], task'[s] = task[s],
             pc'[s] = pc[s] \/ pc'[s] = "done"
      PROVE  AgingAt(s)'
  BY <1>0, <1>1 DEF AgingAt, Aged
<1>2. ASSUME HitStale(s) PROVE AgingAt(s)'
  <2> DEFINE e == cache[Key(s)]
  <2>1. /\ e \in Entry /\ Lasting(e, now) /\ now > e.valid_until
    BY <1>0, <1>2, FoundType DEF Kept, KeptWell, HitStale, IsStale
  <2>2. e.fetched_at \in Nat /\ e.valid_until \in Nat /\ e.fetched_at < now
    BY <1>0, <2>1 DEF Entry, Lasting
  <2>3. result'[s] = Blank /\ now' = now
    BY <1>0, <1>2 DEF HitStale, taskVars, Tasks
  <2>4. response'[s] = Rebuilt(e, StaleServeTtl)
    BY <1>0, <1>2 DEF HitStale, TypeOK
  <2> HIDE DEF e
  <2> QED BY <2>2, <2>3, <2>4 DEF AgingAt, Aged, Rebuilt
<1>3. ASSUME NEW r \in Requests, Proceeds(r) PROVE AgingAt(s)'
  <2> USE <1>0 DEF Goto, TypeOK
  <2>1. CASE HitStale(r)
    <3>1. CASE r = s
      BY <1>2, <2>1, <3>1
    <3>2. CASE r # s
      BY <1>1, <2>1, <3>2 DEF HitStale, taskVars
    <3> QED BY <3>1, <3>2
  <2>2. CASE Bypass(r) \/ HitFresh(r) \/ Miss(r)
    <3>1. CASE r = s
      BY <2>2, <3>1 DEF Bypass, HitFresh, Miss, AgingAt
    <3>2. CASE r # s
      BY <1>1, <2>2, <3>2 DEF Bypass, HitFresh, Miss, taskVars
    <3> QED BY <3>1, <3>2
  <2>3. CASE Prefetch(r) \/ ServeStale(r)
    <3>1. CASE r = s
      BY <2>3, <3>1 DEF Prefetch, ServeStale, SpawnRefresh, Statuses, AgingAt,
                        Aged
    <3>2. CASE r # s
      BY <1>1, <2>3, <3>2 DEF Prefetch, ServeStale, SpawnRefresh
    <3> QED BY <3>1, <3>2
  <2>4. CASE RefreshWins(r)
    <3>1. CASE r = s
      BY <2>4, <3>1 DEF RefreshWins, taskVars, AgingAt
    <3>2. CASE r # s
      BY <1>1, <2>4, <3>2 DEF RefreshWins, taskVars
    <3> QED BY <3>1, <3>2
  <2>5. CASE RefreshLoses(r) \/ Receive(r)
    BY <1>1, <2>5 DEF RefreshLoses, Receive, taskVars
  <2>6. CASE Lead(r) \/ Follow(r) \/ FreeSlot(r)
    <3>1. CASE r = s
      BY <2>6, <3>1 DEF Lead, Follow, FreeSlot, Statuses, AgingAt
    <3>2. CASE r # s
      BY <1>1, <2>6, <3>2 DEF Lead, Follow, FreeSlot, taskVars
    <3> QED BY <3>1, <3>2
  <2>7. CASE Publish(r)
    <3>1. CASE pc[s] = "following"
      BY <2>7, <3>1 DEF Publish, Statuses, AgingAt
    <3>2. CASE pc[s] # "following"
      BY <1>1, <2>7, <3>2 DEF Publish, Subscribers, taskVars
    <3> QED BY <3>1, <3>2
  <2> QED BY <1>3, <2>1, <2>2, <2>3, <2>4, <2>5, <2>6, <2>7 DEF Proceeds
<1>4. ASSUME NEW r \in Requests, NEW reply \in Replies \cup {Failed},
             DirectReturns(r, reply) \/ LeaderReturns(r, reply)
      PROVE  AgingAt(s)'
  <2>1. CASE r = s
    BY <1>0, <1>4, <2>1 DEF DirectReturns, LeaderReturns, Statuses, AgingAt
  <2>2. CASE r # s
    BY <1>0, <1>1, <1>4, <2>2 DEF DirectReturns, LeaderReturns, Goto, TypeOK,
                                  taskVars
  <2> QED BY <2>1, <2>2
<1>5. ASSUME NEW r \in Requests, NEW reply \in Replies \cup {Failed},
             RefreshReturns(r, reply)
      PROVE  AgingAt(s)'
  <2>1. CASE r = s
    <3>1. /\ now' = now /\ response' = response /\ status' = status
          /\ task[s] = "running" /\ result'[s] = Fetched(reply)
      BY <1>0, <1>5, <2>1, RefreshesNews DEF RefreshReturns, requestVars
    <3>2. Fetched(reply) = Failed \/ Fetched(reply).at = now
      BY DEF Fetched, Received
    <3> QED BY <1>0, <3>1, <3>2 DEF AgingAt, Aged
  <2>2. CASE r # s
    BY <1>0, <1>1, <1>5, <2>2 DEF RefreshReturns, requestVars, TypeOK
  <2> QED BY <2>1, <2>2
<1>6. ASSUME Background PROVE AgingAt(s)'
  <2>1. ASSUME NEW r \in Requests, RefreshReleases(r) \/ RefreshPanics(r)
        PROVE  AgingAt(s)'
    BY <1>0, <2>1 DEF RefreshReleases, RefreshPanics, requestVars, AgingAt,
                      Aged, TypeOK
  <2>2. ASSUME NEW r \in Requests, DirectPanics(r) \/ LeaderPanics(r)
        PROVE  AgingAt(s)'
    BY <1>0, <2>2 DEF DirectPanics, LeaderPanics, taskVars, AgingAt, Aged,
                      Statuses, Goto, TypeOK
  <2>3. CASE (\E q \in Questions : Evict(q)) \/ Tick \/ UNCHANGED vars
    BY <1>1, <2>3 DEF Evict, Tick, vars, requestVars, taskVars
  <2> QED BY <1>6, <2>1, <2>2, <2>3 DEF Background, Panics
<1> QED BY <1>3, <1>4, <1>5, <1>6, StepKinds

(* What the marks of a request depend on.                                  *)
LEMMA MarksKept ==
  ASSUME NEW s \in Requests, status'[s] = status[s],
         \/ result'[s] = result[s]
         \/ /\ status[s] # "stale"
            /\ result'[s] = Failed <=> result[s] = Failed,
         response'[s] = response[s]
           \/ (status[s] = "miss" /\ ~OwnFetchFailed(s) /\ ~OwnFetchFailed(s)'),
         task'[s] = task[s] \/ status[s] # "hit",
         pc'[s] = pc[s] \/ status[s] # "stale",
         \/ leader'[s] = leader[s]
         \/ response[s] # Failed /\ response'[s] # Failed
  PROVE  SameMarks(s)
  BY DEF SameMarks, HitBy, MissedBy, PrefetchedBy, StaleTo, NegativeTo,
         FailedFor, RefreshFailedFor, GaveStale, OwnFetchFailed

(* What a request does by itself changes no other request's marks.         *)
LEMMA OthersMarks ==
  ASSUME PInv, NEW r \in Requests, Proceeds(r), NEW s \in Requests \ {r}
  PROVE  SameMarks(s)
<1>0. TypeOK /\ Placed /\ Statuses(s) /\ Leaders(s)
  BY DEF PInv, Placed
<1>1. CASE Publish(r)
  <2>1. CASE s \in Subscribers(r)
    <3>1. status[s] = "miss" /\ leader[s] \notin {s, NoOne}
      BY <1>0, <2>1 DEF Subscribers, Statuses, Leaders
    <3> QED BY <1>0, <1>1, <3>1, MarksKept
            DEF Publish, OwnFetchFailed, taskVars, Goto, TypeOK
  <2>2. CASE s \notin Subscribers(r)
    BY <1>0, <1>1, <2>2, MarksKept DEF Publish, taskVars, Goto, TypeOK
  <2> QED BY <2>1, <2>2
<1>2. CASE Bypass(r) \/ HitFresh(r) \/ HitStale(r) \/ Miss(r)
  BY <1>0, <1>2, MarksKept
     DEF Bypass, HitFresh, HitStale, Miss, taskVars, Goto, TypeOK
<1>3. CASE Prefetch(r) \/ ServeStale(r)
  BY <1>0, <1>3, MarksKept
     DEF Prefetch, ServeStale, SpawnRefresh, Goto, TypeOK
<1>4. CASE RefreshWins(r) \/ RefreshLoses(r) \/ Receive(r)
  BY <1>0, <1>4, MarksKept
     DEF RefreshWins, RefreshLoses, Receive, taskVars, Goto, TypeOK
<1>5. CASE Lead(r) \/ Follow(r) \/ FreeSlot(r)
  BY <1>0, <1>5, MarksKept DEF Lead, Follow, FreeSlot, taskVars, Goto, TypeOK
<1> QED BY <1>1, <1>2, <1>3, <1>4, <1>5 DEF Proceeds

(* The steps that no counter knows of.                                     *)
LEMMA OwnMarks ==
  ASSUME PInv, NEW r \in Requests,
         \/ Bypass(r) \/ Lead(r) \/ Follow(r) \/ FreeSlot(r) \/ Publish(r)
         \/ Receive(r) \/ RefreshWins(r)
         \/ (Prefetch(r) /\ Key(r) \in in_flight)
         \/ (ServeStale(r) /\ Key(r) \notin in_flight)
  PROVE  SameMarks(r) /\ metrics' = metrics
<1>0. /\ TypeOK /\ Placed /\ Statuses(r) /\ Leaders(r) /\ Responses(r)
      /\ Tasks(r)
  BY DEF PInv, Placed
<1>1. CASE Bypass(r)
  <2>1. /\ status[r] = "none" /\ status'[r] = "uncached" /\ result'[r] # Failed
        /\ result[r] # Failed /\ response'[r] # Failed /\ response[r] # Failed
    BY <1>0, <1>1, Values
       DEF Bypass, taskVars, Statuses, Tasks, Responses, TypeOK
  <2>2. metrics' = metrics
    BY <1>1 DEF Bypass
  <2> QED BY <2>1, <2>2
          DEF SameMarks, HitBy, MissedBy, PrefetchedBy, StaleTo, NegativeTo,
              FailedFor, RefreshFailedFor, GaveStale, OwnFetchFailed
<1>2. CASE Lead(r) \/ Follow(r) \/ FreeSlot(r) \/ Receive(r)
  BY <1>0, <1>2, MarksKept, Values
     DEF Lead, Follow, FreeSlot, Receive, taskVars, Statuses, Responses
<1>3. CASE Publish(r)
  BY <1>0, <1>3, MarksKept DEF Publish, Subscribers, taskVars, Statuses
<1>4. CASE RefreshWins(r)
  <2>1. /\ status[r] = "stale" /\ status' = status /\ pc[r] # "done"
        /\ response'[r] = result[r] /\ result' = result /\ task' = task
        /\ result[r] # Failed /\ response[r] # Failed /\ metrics' = metrics
    BY <1>0, <1>4, Values
       DEF RefreshWins, taskVars, Statuses, Responses, TypeOK
  <2> QED BY <2>1
          DEF SameMarks, HitBy, MissedBy, PrefetchedBy, StaleTo, NegativeTo,
              FailedFor, RefreshFailedFor, GaveStale, OwnFetchFailed
<1>5. CASE Prefetch(r) /\ Key(r) \in in_flight
  BY <1>0, <1>5, MarksKept DEF Prefetch, SpawnRefresh, Statuses
<1>6. CASE ServeStale(r) /\ Key(r) \notin in_flight
  <2>1. /\ status[r] = "stale" /\ status' = status /\ pc[r] # "done"
        /\ pc'[r] # "done" /\ response' = response /\ result' = result
        /\ leader' = leader /\ metrics' = metrics
    BY <1>0, <1>6 DEF ServeStale, Statuses, Goto, TypeOK
  <2> QED BY <2>1
          DEF SameMarks, HitBy, MissedBy, PrefetchedBy, StaleTo, NegativeTo,
              FailedFor, RefreshFailedFor, GaveStale, OwnFetchFailed
<1> QED BY <1>1, <1>2, <1>3, <1>4, <1>5, <1>6

(* Which marks a counted step of request r changes, and what it counts.    *)
LEMMA HitMarks ==
  ASSUME PInv, NEW r \in Requests, HitFresh(r)
  PROVE  /\ r \in HitBy' /\ r \notin HitBy
         /\ r \in MissedBy' <=> r \in MissedBy
         /\ r \in PrefetchedBy' <=> r \in PrefetchedBy
         /\ r \in StaleTo' <=> r \in StaleTo
         /\ r \notin NegativeTo
         /\ r \in NegativeTo' <=> cache[Key(r)].kind = "negative"
         /\ r \in FailedFor' <=> r \in FailedFor
         /\ r \in RefreshFailedFor' <=> r \in RefreshFailedFor
<1> DEFINE e == cache[Key(r)]
<1>1. /\ status[r] = "none" /\ status'[r] = "hit" /\ result' = result
      /\ task[r] = "none" /\ task' = task /\ response[r] # Failed
  BY Values DEF HitFresh, taskVars, PInv, Placed, Statuses, Tasks, Responses,
                TypeOK
<1>2. response'[r] = Rebuilt(e, e.valid_until - now)
  BY DEF HitFresh, PInv, TypeOK
<1>3. response'[r].kind = e.kind /\ response'[r] # Failed
  <2>1. e.kind # "failed"
    BY FoundType DEF HitFresh, PInv, Entry
  <2> QED BY <1>2, <2>1 DEF Rebuilt, Failed
<1> HIDE DEF e
<1>4. r \in NegativeTo' <=> e.kind = "negative"
  BY <1>1, <1>3 DEF NegativeTo
<1>5. /\ r \in HitBy' /\ r \notin HitBy
      /\ r \in MissedBy' <=> r \in MissedBy
      /\ r \in PrefetchedBy' <=> r \in PrefetchedBy
      /\ r \in StaleTo' <=> r \in StaleTo
      /\ r \notin NegativeTo
      /\ r \in FailedFor' <=> r \in FailedFor
      /\ r \in RefreshFailedFor' <=> r \in RefreshFailedFor
  BY <1>1, <1>3
     DEF HitBy, MissedBy, PrefetchedBy, StaleTo, NegativeTo, FailedFor,
         RefreshFailedFor, GaveStale, OwnFetchFailed
<1> QED BY <1>4, <1>5 DEF e

(* A lookup that finds something stale, or nothing, marks a miss at most.  *)
LEMMA LookupMarks ==
  ASSUME PInv, NEW r \in Requests, HitStale(r) \/ Miss(r)
  PROVE  /\ r \in HitBy' <=> r \in HitBy
         /\ r \in MissedBy' <=> Miss(r)
         /\ r \notin MissedBy
         /\ r \in PrefetchedBy' <=> r \in PrefetchedBy
         /\ r \in StaleTo' <=> r \in StaleTo
         /\ r \in NegativeTo' <=> r \in NegativeTo
         /\ r \in FailedFor' <=> r \in FailedFor
         /\ r \in RefreshFailedFor' <=> r \in RefreshFailedFor
<1>0. /\ TypeOK /\ status[r] = "none" /\ response[r] # Failed
      /\ result' = result
  BY Values DEF HitStale, Miss, taskVars, PInv, Placed, Statuses, Responses
<1>1. CASE HitStale(r)
  <2>1. status'[r] = "stale" /\ pc'[r] = "stale"
    BY <1>0, <1>1 DEF HitStale, Goto, TypeOK
  <2>2. response'[r] # Failed
    BY <1>0, <1>1, FoundType, RebuiltType, CacheAssumption, Values
       DEF HitStale, TypeOK
  <2>3. ~Miss(r)
    BY <1>1 DEF HitStale, Miss, IsMiss
  <2> QED BY <1>0, <2>1, <2>2, <2>3
          DEF HitBy, MissedBy, PrefetchedBy, StaleTo, NegativeTo, FailedFor,
              RefreshFailedFor, GaveStale, OwnFetchFailed
<1>2. CASE Miss(r)
  <2>1. status'[r] = "miss" /\ response' = response
    BY <1>0, <1>2 DEF Miss, TypeOK
  <2> QED BY <1>0, <1>2, <2>1
          DEF HitBy, MissedBy, PrefetchedBy, StaleTo, NegativeTo, FailedFor,
              RefreshFailedFor, GaveStale, OwnFetchFailed
<1> QED BY <1>1, <1>2

(* A prefetch marks the request that spawns it.                            *)
LEMMA PrefetchMarks ==
  ASSUME PInv, NEW r \in Requests, Prefetch(r), Key(r) \notin in_flight
  PROVE  /\ Count({"prefetches"})
         /\ r \in PrefetchedBy' /\ r \notin PrefetchedBy
         /\ r \in HitBy' <=> r \in HitBy
         /\ r \in MissedBy' <=> r \in MissedBy
         /\ r \in StaleTo' <=> r \in StaleTo
         /\ r \in NegativeTo' <=> r \in NegativeTo
         /\ r \in FailedFor' <=> r \in FailedFor
         /\ r \in RefreshFailedFor' <=> r \in RefreshFailedFor
<1>1. /\ status[r] = "hit" /\ status' = status /\ result' = result
      /\ response' = response /\ leader' = leader
      /\ task[r] = "none" /\ task'[r] = "running" /\ Count({"prefetches"})
  BY DEF Prefetch, SpawnRefresh, PInv, Placed, Statuses, Tasks, TypeOK
<1> QED BY <1>1
        DEF HitBy, MissedBy, PrefetchedBy, StaleTo, NegativeTo, FailedFor,
            RefreshFailedFor, GaveStale, OwnFetchFailed

(* A stale answer that is given out is told from what a refresh returns.   *)
LEMMA StaleMarks ==
  ASSUME PInv, Aging, NEW r \in Requests,
         RefreshLoses(r) \/ (ServeStale(r) /\ Key(r) \in in_flight)
  PROVE  /\ Count({"served_stale"})
         /\ r \in StaleTo' /\ r \notin StaleTo
         /\ r \in HitBy' <=> r \in HitBy
         /\ r \in MissedBy' <=> r \in MissedBy
         /\ r \in PrefetchedBy' <=> r \in PrefetchedBy
         /\ r \in NegativeTo' <=> r \in NegativeTo
         /\ r \in FailedFor' <=> r \in FailedFor
         /\ r \in RefreshFailedFor' <=> r \in RefreshFailedFor
<1>1. /\ status[r] = "stale" /\ status' = status /\ pc[r] # "done"
      /\ pc'[r] = "done" /\ response' = response /\ result' = result
      /\ leader' = leader /\ Count({"served_stale"})
  BY DEF RefreshLoses, ServeStale, SpawnRefresh, taskVars, Goto, PInv, Placed,
         Statuses, TypeOK
<1>2. response[r] # result[r]
  <2>1. Aged(r) /\ response[r].kind \in ReplyKind /\ response[r].at \in Nat
    BY <1>1 DEF Aging, AgingAt, PInv, Placed, Responses, TypeOK, Response
  <2> QED BY <2>1, Values DEF Aged
<1> QED BY <1>1, <1>2
        DEF HitBy, MissedBy, PrefetchedBy, StaleTo, NegativeTo, FailedFor,
            RefreshFailedFor, GaveStale, OwnFetchFailed

(* Only a failed fetch ends with a failure.                                *)
LEMMA FetchedFailed ==
  ASSUME NEW reply \in Replies \cup {Failed}
  PROVE  Fetched(reply) = Failed <=> reply = Failed
  BY PoolAssumption, Values DEF Fetched, Received, Reply

(* A request's own fetch that ends marks its failure, and nothing else.    *)
LEMMA FetchMarks ==
  ASSUME PInv, NEW r \in Requests, NEW reply \in Replies \cup {Failed},
         DirectReturns(r, reply) \/ LeaderReturns(r, reply)
  PROVE  /\ \A s \in Requests \ {r} : SameMarks(s)
         /\ r \in HitBy' <=> r \in HitBy
         /\ r \in MissedBy' <=> r \in MissedBy
         /\ r \in PrefetchedBy' <=> r \in PrefetchedBy
         /\ r \in StaleTo' <=> r \in StaleTo
         /\ r \in NegativeTo' <=> r \in NegativeTo
         /\ r \in RefreshFailedFor' <=> r \in RefreshFailedFor
         /\ r \notin FailedFor
         /\ r \in FailedFor' <=> reply = Failed
<1>0. TypeOK /\ Statuses(r) /\ Leaders(r) /\ Responses(r)
  BY DEF PInv, Placed
<1>1. \A s \in Requests \ {r} : SameMarks(s)
  BY <1>0, MarksKept DEF DirectReturns, LeaderReturns, taskVars, Goto, TypeOK
<1>2. /\ status[r] \in {"miss", "uncached"} /\ status' = status
      /\ task' = task /\ result' = result /\ leader' = leader
      /\ leader[r] \in {r, NoOne} /\ response'[r] = Fetched(reply)
      /\ response[r] # Failed
  BY <1>0, Values DEF DirectReturns, LeaderReturns, taskVars, Statuses,
                      Leaders, Responses, TypeOK
<1>3. /\ r \in HitBy' <=> r \in HitBy
      /\ r \in MissedBy' <=> r \in MissedBy
      /\ r \in PrefetchedBy' <=> r \in PrefetchedBy
      /\ r \in StaleTo' <=> r \in StaleTo
      /\ r \in NegativeTo' <=> r \in NegativeTo
      /\ r \in RefreshFailedFor' <=> r \in RefreshFailedFor
  BY <1>2 DEF HitBy, MissedBy, PrefetchedBy, StaleTo, NegativeTo,
              RefreshFailedFor, GaveStale
<1>4. r \notin FailedFor /\ (r \in FailedFor' <=> reply = Failed)
  BY <1>2, FetchedFailed DEF FailedFor, OwnFetchFailed
<1> QED BY <1>1, <1>3, <1>4

(* A refresh that ends marks its failure, and does not undo what is known  *)
(* of the stale answer its request may have given out.                     *)
LEMMA RefreshMarks ==
  ASSUME PInv, Aging, Aging', NEW r \in Requests,
         NEW reply \in Replies \cup {Failed}, RefreshReturns(r, reply)
  PROVE  /\ \A s \in Requests \ {r} : SameMarks(s)
         /\ r \in HitBy' <=> r \in HitBy
         /\ r \in MissedBy' <=> r \in MissedBy
         /\ r \in PrefetchedBy' <=> r \in PrefetchedBy
         /\ r \in StaleTo' <=> r \in StaleTo
         /\ r \in NegativeTo' <=> r \in NegativeTo
         /\ r \in FailedFor' <=> r \in FailedFor
         /\ r \notin RefreshFailedFor
         /\ r \in RefreshFailedFor' <=> reply = Failed
<1>0. TypeOK /\ Placed /\ Responses(r) /\ AgingAt(r) /\ AgingAt(r)'
  BY DEF PInv, Placed, Aging
<1>1. \A s \in Requests \ {r} : SameMarks(s)
  BY <1>0, MarksKept DEF RefreshReturns, requestVars, TypeOK
<1>2. /\ UNCHANGED requestVars /\ task[r] = "running" /\ task'[r] = "stored"
      /\ result[r] = Blank /\ result'[r] = Fetched(reply)
  BY <1>0, RefreshesNews DEF RefreshReturns, TypeOK
<1>3. status[r] = "stale" => response[r] # Blank /\ response'[r] # result'[r]
  <2> SUFFICES ASSUME status[r] = "stale"
               PROVE  response[r] # Blank /\ response'[r] # result'[r]
    OBVIOUS
  <2>1. response[r].kind \in ReplyKind /\ response[r].at \in Nat
    BY <1>0 DEF Responses, TypeOK, Response
  <2>2. Aged(r)'
    BY <1>0, <1>2 DEF AgingAt, requestVars
  <2>3. response' = response
    BY <1>2 DEF requestVars
  <2> QED BY <2>1, <2>2, <2>3, Values DEF Aged
<1>4. /\ r \in HitBy' <=> r \in HitBy
      /\ r \in MissedBy' <=> r \in MissedBy
      /\ r \in PrefetchedBy' <=> r \in PrefetchedBy
      /\ r \in StaleTo' <=> r \in StaleTo
      /\ r \in NegativeTo' <=> r \in NegativeTo
      /\ r \in FailedFor' <=> r \in FailedFor
  BY <1>2, <1>3
     DEF requestVars, HitBy, MissedBy, PrefetchedBy, StaleTo, NegativeTo,
         FailedFor, GaveStale, OwnFetchFailed
<1>5. r \notin RefreshFailedFor /\ (r \in RefreshFailedFor' <=> reply = Failed)
  BY <1>2, FetchedFailed, Values DEF RefreshFailedFor
<1> QED BY <1>1, <1>4, <1>5

(* Every counter moves with the requests it counts.                        *)
LEMMA BalanceStep ==
  PInv /\ Aging /\ Aging' /\ Balance /\ [Next]_vars => Balance'
<1> SUFFICES ASSUME PInv, Aging, Aging', Balance, [Next]_vars PROVE Balance'
  OBVIOUS
<1>0. TypeOK /\ Placed /\ metrics \in [Counter -> Nat]
  BY DEF PInv, TypeOK
<1>1. ASSUME NEW r \in Requests, Proceeds(r) PROVE Balance'
  <2>0. \A s \in Requests \ {r} : SameMarks(s)
    BY <1>1, OthersMarks
  <2>1. CASE SameMarks(r) /\ metrics' = metrics
    BY <2>0, <2>1, Unmarked
  <2>2. CASE HitFresh(r)
    <3>1. CASE cache[Key(r)].kind = "negative"
      <4>1. Count({"cache_hits", "negative_cache_hits"})
        BY <2>2, <3>1 DEF HitFresh
      <4> QED BY <1>0, <2>0, <2>2, <3>1, <4>1, MarksJoin, HitMarks
              DEF Joins, Balance, Count, Counter
    <3>2. CASE cache[Key(r)].kind # "negative"
      <4>1. Count({"cache_hits"})
        BY <2>2, <3>2 DEF HitFresh
      <4> QED BY <1>0, <2>0, <2>2, <3>2, <4>1, MarksJoin, HitMarks
              DEF Joins, Balance, Count, Counter
    <3> QED BY <3>1, <3>2
  <2>3. CASE HitStale(r)
    <3>1. ~Miss(r) /\ (Count({}) \/ Count({"negative_cache_hits"}))
      BY <2>3 DEF HitStale, Miss, IsMiss
    <3> QED BY <1>0, <2>0, <2>3, <3>1, MarksJoin, LookupMarks
            DEF Joins, Balance, Count, Counter
  <2>4. CASE Miss(r)
    <3>1. Count({"cache_misses"})
      BY <2>4 DEF Miss
    <3> QED BY <1>0, <2>0, <2>4, <3>1, MarksJoin, LookupMarks
            DEF Joins, Balance, Count, Counter
  <2>5. CASE Prefetch(r) /\ Key(r) \notin in_flight
    BY <1>0, <2>0, <2>5, MarksJoin, PrefetchMarks
       DEF Joins, Balance, Count, Counter
  <2>6. CASE RefreshLoses(r) \/ (ServeStale(r) /\ Key(r) \in in_flight)
    BY <1>0, <2>0, <2>6, MarksJoin, StaleMarks
       DEF Joins, Balance, Count, Counter
  <2> QED BY <1>1, <2>1, <2>2, <2>3, <2>4, <2>5, <2>6, OwnMarks DEF Proceeds
<1>2. ASSUME NEW r \in Requests, NEW reply \in Replies \cup {Failed},
             \/ DirectReturns(r, reply) \/ LeaderReturns(r, reply)
             \/ RefreshReturns(r, reply)
      PROVE  Balance'
  <2>1. IF reply = Failed THEN Count({"upstream_failed"})
                          ELSE metrics' = metrics
    <3>1. metrics' \in [Counter -> Nat] /\ (Count({}) => metrics' = metrics)
      BY <1>0, <1>2, CountType, FetchCachedType, FoundType
         DEF DirectReturns, LeaderReturns, RefreshReturns, Count
    <3> QED BY <1>2, <3>1
            DEF DirectReturns, LeaderReturns, RefreshReturns, FetchCached
  <2>2. CASE DirectReturns(r, reply) \/ LeaderReturns(r, reply)
    BY <1>0, <2>1, <2>2, MarksJoin, FetchMarks
       DEF Joins, Balance, Count, Counter
  <2>3. CASE RefreshReturns(r, reply)
    BY <1>0, <2>1, <2>3, MarksJoin, RefreshMarks
       DEF Joins, Balance, Count, Counter
  <2> QED BY <1>2, <2>2, <2>3
<1>3. ASSUME Background PROVE Balance'
  <2>1. metrics' = metrics
    BY <1>3 DEF Background, RefreshReleases, Panics, DirectPanics,
                LeaderPanics, RefreshPanics, Evict, Tick, vars
  <2>2. ASSUME NEW s \in Requests PROVE SameMarks(s)
    <3>1. Statuses(s)
      BY <1>0 DEF Placed
    <3>2. /\ status'[s] = status[s] /\ result'[s] = result[s]
          /\ response'[s] = response[s] /\ leader'[s] = leader[s]
      BY <1>3 DEF Background, RefreshReleases, Panics, DirectPanics,
                  LeaderPanics, RefreshPanics, Evict, Tick, vars,
                  requestVars, taskVars
    <3>3. pc'[s] = pc[s] \/ status[s] # "stale"
      BY <1>0, <1>3, <3>1
         DEF Background, RefreshReleases, Panics, DirectPanics, LeaderPanics,
             RefreshPanics, Evict, Tick, vars, requestVars, Goto, TypeOK,
             Statuses
    <3>4. (task[s] = "none") <=> (task'[s] = "none")
      BY <1>0, <1>3
         DEF Background, RefreshReleases, Panics, DirectPanics, LeaderPanics,
             RefreshPanics, Evict, Tick, vars, taskVars, TypeOK
    <3> QED BY <3>2, <3>3, <3>4
            DEF SameMarks, HitBy, MissedBy, PrefetchedBy, StaleTo, NegativeTo,
                FailedFor, RefreshFailedFor, GaveStale, OwnFetchFailed
  <2> QED BY <2>1, <2>2, Unmarked
<1> QED BY <1>1, <1>2, <1>3, StepKinds

(* The counters match the requests: hits, misses and prefetches those that *)
(* were, a stale answer when and only when one was given, a failure per    *)
(* failed fetch and not per client.                                        *)
THEOREM CountersAgree == Spec => []MetricsAgree
<1>1. Init => PInv /\ Kept /\ Aging /\ Balance
  <2> SUFFICES ASSUME Init PROVE Aging /\ Balance
    BY InvInit, ServiceInit DEF ServiceInv
  <2>1. Aging
    BY DEF Init, Aging, AgingAt
  <2>2. /\ HitBy = {} /\ MissedBy = {} /\ PrefetchedBy = {} /\ StaleTo = {}
        /\ NegativeTo = {} /\ FailedFor = {} /\ RefreshFailedFor = {}
    BY Values DEF Init, HitBy, MissedBy, PrefetchedBy, StaleTo, NegativeTo,
                  FailedFor, RefreshFailedFor, GaveStale, OwnFetchFailed
  <2>3. Balance
    BY <2>2, FS_EmptySet DEF Init, Balance, Counter
  <2> QED BY <2>1, <2>3
<1>2. PInv /\ Kept /\ Aging /\ Balance /\ [Next]_vars
        => (PInv /\ Kept /\ Aging /\ Balance)'
  BY InvStep, KeptStep, AgingStep, BalanceStep DEF PInv
<1>3. Balance => MetricsAgree
  BY BalanceIsAgreement
<1> QED BY <1>1, <1>2, <1>3, PTL DEF Spec

===============================================================================
