------------------------------ MODULE Stack_proof -----------------------------
(***************************************************************************)
(* Proofs about Stack, for any requests, questions, replies, upstreams and *)
(* panics: the stack is a pool, so that all of Pool_proof holds for it;    *)
(* its upstreams keep the invariant of Upstream_proof although panics drop *)
(* calls in their midst; and whoever is failed was failed by all of them.  *)
(***************************************************************************)
EXTENDS Stack, Pool_proof

UpP == INSTANCE Upstream_proof WITH Queries <- Requests, pc <- place,
                                    reply <- verdict

(* A request past its lookup has a status to report.                       *)
Settled(r) == pc[r] # "new" => status[r] # "none"

(* A failure, wherever it is held, is the upstreams' verdict on the fetch  *)
(* it comes from.                                                          *)
Blamed(r) == response[r] = Failed => verdict[FetchedBy(r)] = "failed"

StackInv ==
  /\ PInv
  /\ UpP!IInv
  /\ \A r \in Requests : Settled(r) /\ Blamed(r)
-------------------------------------------------------------------------------
(* The instance of Upstream that Stack steps is the one proved about.      *)
LEMMA UpstreamsConfigured == UpP!UpstreamAssumption
  BY StackAssumption, PoolAssumption DEF UpP!UpstreamAssumption

LEMMA SameStart == Up!Init <=> UpP!Init
  BY DEF UpP!Init, Up!Init, UpP!Upstreams, Up!Upstreams

LEMMA SameStep ==
  ASSUME NEW t \in Requests
  PROVE  Up!Step(t) <=> UpP!Step(t)
<1> USE DEF Up!Goto, UpP!Goto, Up!Free, UpP!Free
<1>1. Up!NextUpstream(t) <=> UpP!NextUpstream(t)
  BY DEF Up!NextUpstream, UpP!NextUpstream
<1>2. \A reason : Up!PassOver(t, reason) <=> UpP!PassOver(t, reason)
  BY <1>1 DEF Up!PassOver, UpP!PassOver
<1>3. /\ Up!Begin(t) <=> UpP!Begin(t)
      /\ Up!Reuse(t) <=> UpP!Reuse(t)
      /\ Up!Dial(t) <=> UpP!Dial(t)
      /\ Up!Dialed(t) <=> UpP!Dialed(t)
      /\ Up!DialFails(t) <=> UpP!DialFails(t)
  BY <1>1, <1>2
     DEF Up!Begin, UpP!Begin, Up!Reuse, UpP!Reuse, Up!Dial, UpP!Dial,
         Up!Dialed, UpP!Dialed, Up!DialFails, UpP!DialFails
<1>4. /\ Up!Truncated(t) <=> UpP!Truncated(t)
      /\ Up!Answered(t) <=> UpP!Answered(t)
      /\ Up!ServFails(t) <=> UpP!ServFails(t)
      /\ Up!SendFails(t) <=> UpP!SendFails(t)
      /\ Up!Invalidate(t) <=> UpP!Invalidate(t)
  BY <1>2
     DEF Up!Exchanging, UpP!Exchanging, Up!Truncated, UpP!Truncated,
         Up!Answered, UpP!Answered, Up!ServFails, UpP!ServFails,
         Up!SendFails, UpP!SendFails, Up!Emptied, UpP!Emptied,
         Up!Invalidate, UpP!Invalidate
<1> QED BY <1>3, <1>4 DEF Up!Step, UpP!Step
-------------------------------------------------------------------------------
(* A call of resolve keeps the invariant of the upstreams.                 *)
LEMMA ResolvesKeeps ==
  ASSUME UpP!IInv, NEW r \in Requests, Resolves(r)
  PROVE  UpP!IInv'
<1>1. UpP!Next
  BY SameStep DEF Resolves, UpP!Next
<1> QED BY <1>1, UpstreamsConfigured, UpP!InductiveStep

(* So does what goes on above the calls.                                   *)
LEMMA IdleUpstreams ==
  ASSUME UpP!IInv, UNCHANGED upVars
  PROVE  UpP!IInv'
<1>1. UNCHANGED UpP!vars
  BY DEF upVars, UpP!vars
<1> QED BY <1>1, UpstreamsConfigured, UpP!InductiveStep

(* And so does a panic: the call it drops holds no mutex any more, and no  *)
(* other call held the one it did.                                         *)
LEMMA UnwindsKeeps ==
  ASSUME UpP!IInv, NEW r \in Requests, Unwinds(r)
  PROVE  UpP!IInv'
<1>1. /\ holder' = [u \in UpP!Upstreams |-> IF holder[u] = r THEN NoOne
                                                         ELSE holder[u]]
      /\ place' = [place EXCEPT ![r] = "done"]
      /\ UNCHANGED <<cell, gen, at, conn, attempt, lost, passed, verdict>>
  BY DEF Unwinds, Up!Upstreams, UpP!Upstreams
<1>2. UpP!TypeOK
  BY DEF UpP!IInv
<1>3. /\ place'[r] = "done"
      /\ \A t \in Requests \ {r} : place'[t] = place[t]
  BY <1>1, <1>2 DEF UpP!TypeOK
<1>4. UpP!TypeOK'
  BY <1>1, <1>2 DEF UpP!TypeOK, UpP!PcValue
<1>5. UpP!DialingAlone'
  <2>1. ASSUME NEW t \in Requests, place'[t] = "dialing"
        PROVE  holder'[at'[t]] = t
    <3>1. t # r /\ place[t] = "dialing"
      BY <1>3, <2>1
    <3>2. holder[at[t]] = t
      BY <3>1 DEF UpP!IInv, UpP!DialingAlone
    <3>3. at[t] \in UpP!Upstreams
      BY <3>1 DEF UpP!IInv, UpP!Located, UpP!LocatedQuery
    <3> QED BY <1>1, <3>1, <3>2, <3>3
  <2>2. ASSUME NEW u \in UpP!Upstreams, holder'[u] # NoOne
        PROVE  place'[holder'[u]] = "dialing" /\ at'[holder'[u]] = u
    <3>1. holder'[u] = holder[u] /\ holder[u] # r /\ holder[u] # NoOne
      BY <1>1, <2>2
    <3>2. holder[u] \in Requests
      BY <1>2, <3>1 DEF UpP!TypeOK
    <3>3. place[holder[u]] = "dialing" /\ at[holder[u]] = u
      BY <3>1 DEF UpP!IInv, UpP!DialingAlone
    <3> QED BY <1>1, <1>3, <3>1, <3>2, <3>3
  <2> QED BY <2>1, <2>2 DEF UpP!DialingAlone
<1>6. UpP!Located'
  BY <1>1, <1>3
     DEF UpP!IInv, UpP!Located, UpP!LocatedQuery, UpP!Exchanging
<1>7. UpP!LostBounds'
  BY <1>1, <1>3 DEF UpP!IInv, UpP!LostBounds, UpP!LostBounded
<1>8. UpP!RedialsOnlyTheLost' /\ UpP!LostNotKept' /\ UpP!GivesUpOnlyAfterTwo'
  BY <1>1
     DEF UpP!IInv, UpP!RedialsOnlyTheLost, UpP!LostBySome, UpP!LostNotKept,
         UpP!GivesUpOnlyAfterTwo
<1>9. UpP!RetriesOnAnother'
  BY <1>1, <1>3 DEF UpP!IInv, UpP!RetriesOnAnother, UpP!Exchanging
<1>10. UpP!Turns'
  BY <1>1, <1>3 DEF UpP!IInv, UpP!Turns, UpP!LostOne, UpP!LostTwo
<1>11. UpP!PassedBefore'
  BY <1>1, <1>3 DEF UpP!IInv, UpP!PassedBefore, UpP!PassedOnes
<1> QED
  BY <1>4, <1>5, <1>6, <1>7, <1>8, <1>9, <1>10, <1>11 DEF UpP!IInv

(* No step takes back the upstreams' verdict that a call failed.           *)
LEMMA VerdictStands ==
  ASSUME UpP!IInv, StackNext \/ UNCHANGED <<vars, upVars>>,
         NEW t \in Requests, verdict[t] = "failed"
  PROVE  verdict'[t] = "failed"
<1>1. CASE UNCHANGED verdict
  BY <1>1
<1>2. ASSUME NEW s \in Requests, UpP!Step(s)
      PROVE  verdict'[t] = "failed"
  <2>1. verdict \in [Requests -> {"none", "answer", "failed"}]
    BY DEF UpP!IInv, UpP!TypeOK
  <2>2. place[t] = "done"
    BY DEF UpP!IInv, UpP!PassedBefore, UpP!PassedOnes
  <2>3. place[s] # "done"
    BY <1>2
       DEF UpP!Step, UpP!Begin, UpP!Reuse, UpP!Dial, UpP!Dialed,
           UpP!DialFails, UpP!Truncated, UpP!Answered, UpP!ServFails,
           UpP!SendFails, UpP!Invalidate, UpP!Exchanging
  <2>4. \/ UNCHANGED verdict
        \/ \E v : verdict' = [verdict EXCEPT ![s] = v]
    BY <1>2
       DEF UpP!Step, UpP!Begin, UpP!Reuse, UpP!Dial, UpP!Dialed,
           UpP!DialFails, UpP!Truncated, UpP!Answered, UpP!ServFails,
           UpP!SendFails, UpP!Invalidate, UpP!PassOver, UpP!NextUpstream
  <2> QED BY <2>1, <2>2, <2>3, <2>4
<1>3. UNCHANGED verdict \/ \E s \in Requests : UpP!Step(s)
  BY SameStep
     DEF StackNext, AboveFetches, Resolves, Returns, Unwinds, upVars
<1> QED BY <1>1, <1>2, <1>3
-------------------------------------------------------------------------------
(* Where the pool steps, the verdict relayed is one it may get.            *)
LEMMA StackSteps == StackNext \/ UNCHANGED <<vars, upVars>> => [Next]_vars
<1>1. ASSUME NEW r \in Requests, Returns(r) PROVE Next
  <2>1. PICK reply \in Verdicts(r) :
          DirectReturns(r, reply) \/ LeaderReturns(r, reply)
                                  \/ RefreshReturns(r, reply)
    BY <1>1 DEF Returns
  <2>2. reply \in Replies \cup {Failed}
    BY DEF Verdicts
  <2>3. Fetches(r) \/ Refreshes(r)
    BY <2>1, <2>2 DEF Fetches, Refreshes
  <2> QED BY <2>3 DEF Next
<1>2. ASSUME AboveFetches PROVE Next
  BY <1>2 DEF AboveFetches, Next
<1>3. ASSUME NEW r \in Requests, Unwinds(r) PROVE Next
  BY <1>3 DEF Unwinds, Next
<1>4. ASSUME NEW r \in Requests, Resolves(r) PROVE UNCHANGED vars
  BY <1>4 DEF Resolves
<1>5. UNCHANGED <<vars, upVars>> => UNCHANGED vars
  OBVIOUS
<1> QED BY <1>1, <1>2, <1>3, <1>4, <1>5 DEF StackNext

(* Every behaviour of the stack is one of the pool: what is proved of Pool *)
(* for any fetches holds for those that share UpstreamSet's connections.   *)
THEOREM StackIsAPool == StackSpec => Spec
<1>1. StackInit => Init
  BY DEF StackInit
<1>2. [StackNext]_<<vars, upVars>> => [Next]_vars
  BY StackSteps
<1> QED BY <1>1, <1>2, PTL DEF StackSpec, Spec
-------------------------------------------------------------------------------
(* The upstreams' invariant goes on under every step of the stack.         *)
LEMMA UpstreamsStep ==
  ASSUME UpP!IInv, StackNext \/ UNCHANGED <<vars, upVars>>
  PROVE  UpP!IInv'
<1>1. ASSUME NEW r \in Requests, Returns(r) PROVE UpP!IInv'
  BY <1>1, IdleUpstreams DEF Returns
<1>2. ASSUME AboveFetches PROVE UpP!IInv'
  BY <1>2, IdleUpstreams DEF AboveFetches
<1>3. UNCHANGED <<vars, upVars>> => UpP!IInv'
  BY IdleUpstreams
<1> QED BY <1>1, <1>2, <1>3, ResolvesKeeps, UnwindsKeeps DEF StackNext

(* A request has a status from its lookup on, and keeps it.                *)
LEMMA SettledStep ==
  ASSUME PInv, [Next]_vars, NEW s \in Requests, Settled(s)
  PROVE  Settled(s)'
<1> USE DEF Settled
<1>1. Statuses(s) /\ TypeOK
  BY DEF PInv, Placed
<1>2. ASSUME NEW r \in Requests, Proceeds(r) PROVE Settled(s)'
  <2> USE <1>1 DEF Statuses, Goto, TypeOK
  <2>1. CASE Bypass(r) \/ HitFresh(r) \/ HitStale(r) \/ Miss(r)
    BY <2>1 DEF Bypass, HitFresh, HitStale, Miss
  <2>2. CASE UNCHANGED status /\ pc[r] # "new" /\ \E p : Goto(r, p)
    BY <2>2
  <2> QED BY <1>2, <2>1, <2>2
          DEF Proceeds, Prefetch, ServeStale, RefreshWins, RefreshLoses, Lead,
              Follow, FreeSlot, Publish, Receive
<1>3. ASSUME NEW r \in Requests, Fetches(r) \/ Panics(r) PROVE Settled(s)'
  BY <1>1, <1>3
     DEF Fetches, DirectReturns, LeaderReturns, Panics, DirectPanics,
         LeaderPanics, RefreshPanics, requestVars, Goto, TypeOK
<1>4. UNCHANGED requestVars => Settled(s)'
  BY DEF requestVars
<1> QED BY <1>2, <1>3, <1>4
        DEF Next, Refreshes, RefreshReturns, RefreshReleases, Evict, Tick, vars,
            requestVars

(* What is done with a failure above the fetches blames no one else: those *)
(* that are told of it followed the one it comes from.                     *)
LEMMA AboveBlames ==
  ASSUME StackInv, PInv', AboveFetches, NEW s \in Requests
  PROVE  Blamed(s)'
<1>1. Blamed(s) /\ Statuses(s) /\ Leaders(s) /\ Responses(s) /\ TypeOK
  BY DEF StackInv, PInv, Placed
<1>2. UNCHANGED verdict
  BY DEF AboveFetches, upVars
<1>3. UNCHANGED <<response, leader>> => Blamed(s)'
  BY <1>1, <1>2 DEF Blamed, FetchedBy
<1>4. ASSUME NEW r \in Requests, Proceeds(r) PROVE Blamed(s)'
  <2>1. CASE Bypass(r) \/ Miss(r) \/ Prefetch(r) \/ ServeStale(r)
             \/ RefreshLoses(r) \/ FreeSlot(r) \/ Receive(r)
    BY <1>3, <2>1
       DEF Bypass, Miss, Prefetch, ServeStale, RefreshLoses, FreeSlot, Receive
  <2>2. CASE HitFresh(r) \/ HitStale(r)
    <3>1. CASE s = r
      <4>1. status'[s] \in {"hit", "stale"}
        BY <1>1, <2>2, <3>1 DEF HitFresh, HitStale, TypeOK
      <4>2. response'[s].kind \in ReplyKind
        BY <4>1 DEF PInv, Placed, Responses
      <4> QED BY <4>2, Values DEF Blamed
    <3>2. CASE s # r
      <4>1. response'[s] = response[s] /\ leader' = leader
        BY <1>1, <2>2, <3>2 DEF HitFresh, HitStale, TypeOK
      <4> QED BY <1>1, <1>2, <4>1 DEF Blamed, FetchedBy
    <3> QED BY <3>1, <3>2
  <2>3. CASE RefreshWins(r)
    <3>1. /\ leader' = leader
          /\ response'[s] = response[s] \/ response'[s] # Failed
      BY <1>1, <2>3 DEF RefreshWins, TypeOK
    <3> QED BY <1>1, <1>2, <3>1 DEF Blamed, FetchedBy
  <2>4. CASE Lead(r) \/ Follow(r)
    <3>1. /\ response' = response
          /\ \/ leader'[s] = leader[s]
             \/ s = r /\ pc[s] = "missed"
      BY <1>1, <2>4 DEF Lead, Follow, TypeOK
    <3>2. pc[s] = "missed" => response[s] # Failed
      BY <1>1, Values DEF Responses
    <3> QED BY <1>1, <1>2, <3>1, <3>2 DEF Blamed, FetchedBy
  <2>5. CASE Publish(r)
    <3>1. CASE s \in Subscribers(r)
      <4>1. response'[s] = response[r] /\ leader' = leader
        BY <2>5, <3>1 DEF Publish
      <4>2. leader[s] = r /\ leader[r] = r
        BY <2>5, <3>1 DEF Publish, Subscribers, StackInv, PInv, Placed, Leaders
      <4>3. FetchedBy(s)' = r /\ FetchedBy(r) = r
        BY <4>1, <4>2, PoolAssumption DEF FetchedBy
      <4>4. response[r] = Failed => verdict[r] = "failed"
        BY <4>3 DEF StackInv, Blamed
      <4> QED BY <1>2, <4>1, <4>3, <4>4 DEF Blamed
    <3>2. CASE s \notin Subscribers(r)
      <4>1. response'[s] = response[s] /\ leader' = leader
        BY <2>5, <3>2 DEF Publish
      <4> QED BY <1>1, <1>2, <4>1 DEF Blamed, FetchedBy
    <3> QED BY <3>1, <3>2
  <2> QED BY <1>4, <2>1, <2>2, <2>3, <2>4, <2>5 DEF Proceeds
<1>5. \/ \E r \in Requests : RefreshReleases(r)
      \/ \E q \in Questions : Evict(q)
      \/ Tick
      => UNCHANGED <<response, leader>>
  BY DEF RefreshReleases, Evict, Tick, requestVars
<1> QED BY <1>3, <1>4, <1>5 DEF AboveFetches

(* A fetch that returns a failure was failed by its upstreams.             *)
LEMMA ReturnsBlames ==
  ASSUME StackInv, NEW r \in Requests, Returns(r), NEW s \in Requests
  PROVE  Blamed(s)'
<1>1. /\ Blamed(s) /\ TypeOK
      /\ pc[r] \in {"direct", "leading"} => leader[r] \in {r, NoOne}
  BY DEF StackInv, PInv, Placed, Leaders
<1>2. verdict' = verdict
  BY DEF Returns, upVars
<1>3. PICK reply \in Verdicts(r) :
        DirectReturns(r, reply) \/ LeaderReturns(r, reply)
                                \/ RefreshReturns(r, reply)
  BY DEF Returns
<1>4. reply \in Replies \cup {Failed}
  BY DEF Verdicts
<1>5. CASE RefreshReturns(r, reply)
  <2>1. UNCHANGED <<response, leader>>
    BY <1>5 DEF RefreshReturns, requestVars
  <2> QED BY <1>1, <1>2, <2>1 DEF Blamed, FetchedBy
<1>6. CASE DirectReturns(r, reply) \/ LeaderReturns(r, reply)
  <2>1. /\ pc[r] \in {"direct", "leading"}
        /\ leader' = leader
        /\ response' = [response EXCEPT ![r] = Fetched(reply)]
    BY <1>6 DEF DirectReturns, LeaderReturns
  <2>2. CASE s = r
    <3>1. FetchedBy(s)' = r
      BY <1>1, <2>1, <2>2 DEF FetchedBy
    <3>2. reply \notin Replies => verdict[r] = "failed"
      BY DEF Verdicts
    <3>3. reply \in Replies => Fetched(reply) # Failed
      <4>1. reply \in Replies => reply # Failed
        BY PoolAssumption, Values
      <4> QED BY <1>1, <1>4, <4>1, FetchedFailed
    <3>4. response'[s] = Fetched(reply)
      BY <1>1, <2>1, <2>2 DEF TypeOK
    <3> QED BY <1>2, <3>1, <3>2, <3>3, <3>4 DEF Blamed
  <2>3. CASE s # r
    <3>1. response'[s] = response[s] /\ leader' = leader
      BY <1>1, <2>1, <2>3 DEF TypeOK
    <3> QED BY <1>1, <1>2, <3>1 DEF Blamed, FetchedBy
  <2> QED BY <2>2, <2>3
<1> QED BY <1>3, <1>5, <1>6
-------------------------------------------------------------------------------
(* At the start nobody has failed.                                         *)
LEMMA StackInvInit == StackInit => StackInv
<1> SUFFICES ASSUME StackInit PROVE StackInv
  OBVIOUS
<1>1. PInv
  BY InvInit DEF StackInit
<1>2. UpP!IInv
  BY SameStart, UpstreamsConfigured, UpP!InductiveInit DEF StackInit
<1>3. \A r \in Requests : Settled(r) /\ Blamed(r)
  BY Values DEF StackInit, Init, Settled, Blamed
<1> QED BY <1>1, <1>2, <1>3 DEF StackInv

(* No step of the stack breaks its invariant.                              *)
LEMMA StackInvStep ==
  ASSUME StackInv, StackNext \/ UNCHANGED <<vars, upVars>>
  PROVE  StackInv'
<1>1. PInv /\ UpP!IInv
  BY DEF StackInv
<1>2. [Next]_vars
  BY StackSteps
<1>3. PInv'
  BY <1>1, <1>2, InvStep
<1>4. UpP!IInv'
  BY <1>1, UpstreamsStep
<1>5. ASSUME NEW s \in Requests PROVE Settled(s)'
  BY <1>1, <1>2, SettledStep DEF StackInv
<1>6. ASSUME NEW s \in Requests PROVE Blamed(s)'
  <2>1. UNCHANGED <<response, leader>> => Blamed(s)'
    <3>1. FetchedBy(s) \in Requests
      BY DEF PInv, TypeOK, StackInv, FetchedBy
    <3>2. verdict[FetchedBy(s)] = "failed" => verdict'[FetchedBy(s)] = "failed"
      BY <1>1, <3>1, VerdictStands
    <3> QED BY <3>2 DEF StackInv, Blamed, FetchedBy
  <2>2. ASSUME NEW r \in Requests, Unwinds(r) PROVE Blamed(s)'
    BY <2>1, <2>2
       DEF Unwinds, Panics, DirectPanics, LeaderPanics, RefreshPanics,
           requestVars
  <2>3. ASSUME NEW r \in Requests, Resolves(r) PROVE Blamed(s)'
    BY <2>1, <2>3 DEF Resolves, vars
  <2>4. UNCHANGED <<vars, upVars>> => Blamed(s)'
    BY <2>1 DEF vars
  <2> QED BY <1>3, <2>2, <2>3, <2>4, AboveBlames, ReturnsBlames DEF StackNext
<1> QED BY <1>3, <1>4, <1>5, <1>6 DEF StackInv

(* The invariant of the stack, its pool's and its upstreams' together.     *)
THEOREM StackInductive == StackSpec => []StackInv
<1>1. StackInv /\ [StackNext]_<<vars, upVars>> => StackInv'
  BY StackInvStep
<1> QED BY StackInvInit, <1>1, PTL DEF StackSpec

(* What Upstream promises of its mutexes and connections holds when pool   *)
(* tasks make its calls and panics drop them half way: one dial at a time, *)
(* one redial per lost connection, a second turn on another connection.    *)
THEOREM UpstreamsUnderThePool ==
  StackSpec => [](Up!DialingAlone /\ Up!RedialsOnlyTheLost
                                  /\ Up!RetriesOnAnother)
<1>1. StackInv => Up!DialingAlone
  BY DEF StackInv, UpP!IInv, UpP!DialingAlone, Up!DialingAlone,
         UpP!Upstreams, Up!Upstreams
<1>2. StackInv => Up!RedialsOnlyTheLost
  BY DEF StackInv, UpP!IInv, UpP!RedialsOnlyTheLost, Up!RedialsOnlyTheLost,
         UpP!LostBySome, Up!LostBySome, UpP!Upstreams, Up!Upstreams
<1>3. StackInv => Up!RetriesOnAnother
  BY DEF StackInv, UpP!IInv, UpP!RetriesOnAnother, Up!RetriesOnAnother,
         UpP!Exchanging, Up!Exchanging
<1> QED BY StackInductive, <1>1, <1>2, <1>3, PTL

(* Who is failed had nothing in the cache, asked or followed one that      *)
(* asked the same, and that one's fetch was failed by every upstream.      *)
LEMMA Earned == StackInv => FailureIsEarned
<1> SUFFICES ASSUME StackInv, NEW r \in Requests,
                    pc[r] = "done", response[r] = Failed
             PROVE  LET f == FetchedBy(r) IN
                    /\ status[r] \in {"miss", "uncached"}
                    /\ Key(f) = Key(r)
                    /\ \A u \in Up!Upstreams :
                         \/ passed[f][u] \in {"servfail", "undialable"}
                         \/ /\ passed[f][u] = "lost"
                            /\ \E g, h \in 1..gen[u] :
                                 /\ g # h
                                 /\ {<<u, g>>, <<u, h>>} \subseteq lost[f]
  BY DEF FailureIsEarned
<1> DEFINE f == FetchedBy(r)
<1>0. PInv /\ TypeOK /\ UpP!IInv
  BY DEF StackInv, PInv
<1>1. status[r] \in {"miss", "uncached"}
  <2>1. status[r] \notin {"hit", "stale"}
    BY <1>0, Values DEF PInv, Placed, Responses
  <2>2. status[r] # "none"
    BY DEF StackInv, Settled
  <2> QED BY <1>0, <2>1, <2>2 DEF TypeOK, CacheStatus
<1>2. f \in Requests /\ Key(f) = Key(r)
  <2>1. CASE Follower(r)
    BY <1>0, <2>1 DEF PInv, Followed, FollowedWell, Follower, FetchedBy, TypeOK
  <2>2. CASE ~Follower(r)
    BY <2>2 DEF Follower, FetchedBy
  <2> QED BY <2>1, <2>2
<1>3. verdict[f] = "failed"
  BY DEF StackInv, Blamed
<1>4. ASSUME NEW u \in Up!Upstreams
      PROVE  \/ passed[f][u] \in {"servfail", "undialable"}
             \/ /\ passed[f][u] = "lost"
                /\ \E g, h \in 1..gen[u] :
                     g # h /\ {<<u, g>>, <<u, h>>} \subseteq lost[f]
  <2>1. u \in UpP!Upstreams
    BY DEF Up!Upstreams, UpP!Upstreams
  <2>2. passed[f][u] \in UpP!Reason
    BY <1>0, <1>2, <2>1 DEF UpP!IInv, UpP!TypeOK
  <2>3. passed[f][u] # "no"
    BY <1>0, <1>2, <1>3, <2>1 DEF UpP!IInv, UpP!GivesUpOnlyAfterTwo
  <2>4. passed[f][u] = "lost" => \E g, h \in 1..gen[u] :
          g # h /\ <<u, g>> \in lost[f] /\ <<u, h>> \in lost[f]
    BY <1>0, <1>2, <2>1 DEF UpP!IInv, UpP!GivesUpOnlyAfterTwo
  <2> QED BY <2>2, <2>3, <2>4 DEF UpP!Reason
<1> QED BY <1>1, <1>2, <1>4

(* A client is failed only once every upstream has failed its question,    *)
(* by the fetch it made or the one it followed, whatever panics beside it. *)
THEOREM FailuresAreEarned == StackSpec => []FailureIsEarned
<1> QED BY StackInductive, Earned, PTL
===============================================================================
