--------------------------------- MODULE Stack --------------------------------
(***************************************************************************)
(* The resolver pool of Pool over the upstreams of Upstream, as            *)
(* Pool::connect puts them together: what Pool calls a fetch is a call of  *)
(* UpstreamSet::resolve, and the fetches of requests and of the refreshes  *)
(* they spawned share the upstreams' connections and mutexes.              *)
(*                                                                         *)
(* A request makes one fetch at most, on its own or through its refresh    *)
(* task, so that the queries of Upstream are the requests of Pool.         *)
(***************************************************************************)
EXTENDS Pool

CONSTANTS
  UpstreamCount,  \* how many upstreams are configured
  PlainOnes       \* which of them are Do53; the others are DoT

ASSUME StackAssumption ==
  /\ UpstreamCount \in Nat \ {0}
  /\ PlainOnes \subseteq 1..UpstreamCount

VARIABLES cell, gen, holder, place, at, conn, attempt, lost, passed, verdict

upVars == <<cell, gen, holder, place, at, conn, attempt, lost, passed, verdict>>

Up == INSTANCE Upstream WITH Queries <- Requests, pc <- place,
                             reply <- verdict

StackInit == Init /\ Up!Init

(* resolve_observed runs the fetch itself, or waits for who does.          *)
Foreground(r) == pc[r] \in {"direct", "leading"}

Fetching(r) == Foreground(r) \/ task[r] = "running"

(* The call of Resolver::resolve in resolve_and_cache, under way.          *)
Resolves(r) ==
  /\ Fetching(r)
  /\ Up!Step(r)
  /\ UNCHANGED vars

(* What the upstreams' verdict is to the pool.                             *)
Verdicts(r) ==
  IF verdict[r] = "failed" THEN {Failed} ELSE Replies

(* The call returns, and resolve_and_cache does the rest.                  *)
Returns(r) ==
  /\ place[r] = "done"
  /\ \E reply \in Verdicts(r) :
       DirectReturns(r, reply) \/ LeaderReturns(r, reply)
                               \/ RefreshReturns(r, reply)
  /\ UNCHANGED upVars

(* A panic drops the call with the task, and the mutex it dialed under.    *)
Unwinds(r) ==
  /\ Panics(r)
  /\ holder' = [u \in Up!Upstreams |-> IF holder[u] = r THEN NoOne
                                                        ELSE holder[u]]
  /\ place' = [place EXCEPT ![r] = "done"]
  /\ UNCHANGED <<cell, gen, at, conn, attempt, lost, passed, verdict>>

AboveFetches ==
  /\ \/ \E r \in Requests : Proceeds(r) \/ RefreshReleases(r)
     \/ \E q \in Questions : Evict(q)
     \/ Tick
  /\ UNCHANGED upVars

StackNext ==
  \/ AboveFetches
  \/ \E r \in Requests : Resolves(r) \/ Returns(r) \/ Unwinds(r)

StackSpec == StackInit /\ [][StackNext]_<<vars, upVars>>

(* The executor runs every ready task, and an exchange has a timeout.  So  *)
(* much Pool assumes of requests alone.  Here a dial must end whoever it   *)
(* is for: a refresh that hangs in one keeps the mutex that requests need. *)
StackFairness ==
  \A r \in Requests :
    /\ WF_<<vars, upVars>>(Proceeds(r) /\ UNCHANGED upVars)
    /\ WF_<<vars, upVars>>(Foreground(r) /\ (Resolves(r) \/ Returns(r)))
    /\ WF_<<vars, upVars>>(Resolves(r) /\ place[r] = "dialing")

FairStack == StackSpec /\ StackFairness
-------------------------------------------------------------------------------
(* The request whose fetch a request answers from.                         *)
FetchedBy(r) == IF leader[r] = NoOne THEN r ELSE leader[r]

(* A client is failed only if nothing was cached for it and every upstream *)
(* was tried for its question, by its own fetch or the one it followed,    *)
(* and failed it: over lost connections only after two of them.  Refreshes *)
(* that fail beside it, and requests that panic, add no failure.           *)
FailureIsEarned ==
  \A r \in Requests : pc[r] = "done" /\ response[r] = Failed =>
    LET f == FetchedBy(r) IN
    /\ status[r] \in {"miss", "uncached"}
    /\ Key(f) = Key(r)
    /\ \A u \in Up!Upstreams :
         \/ passed[f][u] \in {"servfail", "undialable"}
         \/ /\ passed[f][u] = "lost"
            /\ \E g, h \in 1..gen[u] :
                 g # h /\ {<<u, g>>, <<u, h>>} \subseteq lost[f]

(* What Pool assumes of the upstreams they provide: the fetch of a request *)
(* ends, whatever dials, fails, panics or hangs beside it.                 *)
FetchesEnd == \A r \in Requests : WF_vars(Fetches(r))
===============================================================================
