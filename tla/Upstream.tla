------------------------------- MODULE Upstream -------------------------------
(***************************************************************************)
(* The upstreams of upstream.rs: Upstream, which keeps one live connection *)
(* and redials it when it fails, and UpstreamSet, which fails over from    *)
(* one upstream to the next.  Concurrent queries share the connections.    *)
(*                                                                         *)
(* A query is one call of UpstreamSet::resolve.  The async mutex around an *)
(* upstream's cell is held across a dial, the only await inside it; every  *)
(* other critical section is one step that needs the mutex free.  A query  *)
(* blocked on the mutex may get it in any order, which includes tokio's    *)
(* first-come order.                                                       *)
(*                                                                         *)
(* The network is the environment: a dial may succeed or fail, and so may  *)
(* any exchange, because the server closed the connection, because it      *)
(* broke, or because no answer came within UPSTREAM_TIMEOUT.               *)
(***************************************************************************)
EXTENDS Naturals

CONSTANTS
  Queries,    \* the calls of UpstreamSet::resolve
  UpstreamCount,      \* how many upstreams are configured
  PlainOnes,  \* which of them are Do53 and may truncate; the others are DoT
  NoOne       \* no query

ASSUME UpstreamAssumption ==
  /\ UpstreamCount \in Nat
  /\ PlainOnes \subseteq 1..UpstreamCount
  /\ NoOne \notin Queries

Upstreams == 1..UpstreamCount

VARIABLES
  cell,     \* the generation of the connection in each upstream's cell, or 0
  gen,      \* the last generation each upstream has given out
  holder,   \* the query that dials under each upstream's mutex
  pc,       \* where each query is
  at,       \* the upstream it is trying
  conn,     \* the generation of the connection it is using there, or 0
  attempt,  \* how many exchanges have failed it there
  lost,     \* every <<upstream, generation>> that has failed it
  passed,   \* why it went on from each upstream
  reply     \* what it returns

vars == <<cell, gen, holder, pc, at, conn, attempt, lost, passed, reply>>

PcValue == {"idle", "acquire", "dialing", "sending", "retrying",
            "invalidate", "done"}

Reason == {"no", "servfail", "undialable", "lost"}

(* Pool::connect dials every upstream and refuses to start unless each     *)
(* of them can be connected to.                                            *)
Init ==
  /\ cell = [u \in Upstreams |-> 1]
  /\ gen = [u \in Upstreams |-> 1]
  /\ holder = [u \in Upstreams |-> NoOne]
  /\ pc = [t \in Queries |-> "idle"]
  /\ at = [t \in Queries |-> 0]
  /\ conn = [t \in Queries |-> 0]
  /\ attempt = [t \in Queries |-> 0]
  /\ lost = [t \in Queries |-> {}]
  /\ passed = [t \in Queries |-> [u \in Upstreams |-> "no"]]
  /\ reply = [t \in Queries |-> "none"]

Goto(t, place) == pc' = [pc EXCEPT ![t] = place]

Free(u) == holder[u] = NoOne

(* The loop of UpstreamSet::resolve: on to the upstream after at[t], or to *)
(* its end, None, after the last.                                          *)
NextUpstream(t) ==
  /\ conn' = [conn EXCEPT ![t] = 0]
  /\ attempt' = [attempt EXCEPT ![t] = 0]
  /\ IF at[t] < UpstreamCount
     THEN /\ Goto(t, "acquire")
          /\ at' = [at EXCEPT ![t] = @ + 1]
          /\ UNCHANGED reply
     ELSE /\ Goto(t, "done")
          /\ reply' = [reply EXCEPT ![t] = "failed"]
          /\ UNCHANGED at

PassOver(t, reason) ==
  /\ passed' = [passed EXCEPT ![t][at[t]] = reason]
  /\ NextUpstream(t)

Begin(t) ==
  /\ pc[t] = "idle"
  /\ NextUpstream(t)
  /\ UNCHANGED <<cell, gen, holder, lost, passed>>
-------------------------------------------------------------------------------
(* acquire, with a connection in the cell.                                 *)
Reuse(t) ==
  /\ pc[t] = "acquire"
  /\ Free(at[t])
  /\ cell[at[t]] # 0
  /\ conn' = [conn EXCEPT ![t] = cell[at[t]]]
  /\ Goto(t, "sending")
  /\ UNCHANGED <<cell, gen, holder, at, attempt, lost, passed, reply>>

(* Mutant: the cell is looked at before the mutex is locked.               *)
DialUnlocked(t) ==
  /\ pc[t] = "acquire"
  /\ cell[at[t]] = 0
  /\ holder' = [holder EXCEPT ![at[t]] = t]
  /\ Goto(t, "dialing")
  /\ UNCHANGED <<cell, gen, at, conn, attempt, lost, passed, reply>>

(* acquire, with an empty cell: the mutex stays held while dialing.        *)
Dial(t) ==
  /\ pc[t] = "acquire"
  /\ Free(at[t])
  /\ cell[at[t]] = 0
  /\ holder' = [holder EXCEPT ![at[t]] = t]
  /\ Goto(t, "dialing")
  /\ UNCHANGED <<cell, gen, at, conn, attempt, lost, passed, reply>>

Dialed(t) ==
  LET g == gen[at[t]] + 1 IN
  /\ pc[t] = "dialing"
  /\ gen' = [gen EXCEPT ![at[t]] = g]
  /\ cell' = [cell EXCEPT ![at[t]] = g]
  /\ conn' = [conn EXCEPT ![t] = g]
  /\ holder' = [holder EXCEPT ![at[t]] = NoOne]
  /\ Goto(t, "sending")
  /\ UNCHANGED <<at, attempt, lost, passed, reply>>

(* Mutant: the mutex is not let go on the error path of a dial.            *)
DialFailsHolding(t) ==
  /\ pc[t] = "dialing"
  /\ PassOver(t, "undialable")
  /\ UNCHANGED <<cell, gen, holder, lost>>

(* A failed dial ends this upstream's resolve at once, whatever the turn.  *)
DialFails(t) ==
  /\ pc[t] = "dialing"
  /\ holder' = [holder EXCEPT ![at[t]] = NoOne]
  /\ PassOver(t, "undialable")
  /\ UNCHANGED <<cell, gen, lost>>
-------------------------------------------------------------------------------
(* Conn::resolve: one exchange, and a second one over TCP if the answer    *)
(* came truncated over UDP.                                                *)
Exchanging(t) == pc[t] \in {"sending", "retrying"}

Truncated(t) ==
  /\ pc[t] = "sending"
  /\ at[t] \in PlainOnes
  /\ Goto(t, "retrying")
  /\ UNCHANGED <<cell, gen, holder, at, conn, attempt, lost, passed, reply>>

(* Any response but SERVFAIL, NXDOMAIN and NODATA too, is the answer.      *)
Answered(t) ==
  /\ Exchanging(t)
  /\ Goto(t, "done")
  /\ reply' = [reply EXCEPT ![t] = "answer"]
  /\ UNCHANGED <<cell, gen, holder, at, conn, attempt, lost, passed>>

(* SERVFAIL is a response for Upstream, which keeps the connection, and a  *)
(* failure for UpstreamSet, which goes on.                                 *)
ServFails(t) ==
  /\ Exchanging(t)
  /\ PassOver(t, "servfail")
  /\ UNCHANGED <<cell, gen, holder, lost>>

SendFails(t) ==
  /\ Exchanging(t)
  /\ Goto(t, "invalidate")
  /\ attempt' = [attempt EXCEPT ![t] = @ + 1]
  /\ lost' = [lost EXCEPT ![t] = @ \cup {<<at[t], conn[t]>>}]
  /\ UNCHANGED <<cell, gen, holder, at, conn, passed, reply>>

(* Mutants: whatever connection is in the cell goes, or none does.         *)
EmptiedAlways(u, g) == [cell EXCEPT ![u] = 0]
EmptiedNever(u, g) == cell

(* invalidate(g): empty the cell if it still holds the connection that     *)
(* failed.                                                                 *)
Emptied(u, g) == IF cell[u] = g THEN [cell EXCEPT ![u] = 0] ELSE cell

(* Mutant: one turn of Upstream::resolve is all.                           *)
InvalidateOnce(t) ==
  /\ pc[t] = "invalidate"
  /\ Free(at[t])
  /\ cell' = Emptied(at[t], conn[t])
  /\ PassOver(t, "lost")
  /\ UNCHANGED <<gen, holder, lost>>

(* Then the second turn of Upstream::resolve, or its end after two.        *)
Invalidate(t) ==
  /\ pc[t] = "invalidate"
  /\ Free(at[t])
  /\ cell' = Emptied(at[t], conn[t])
  /\ \/ /\ attempt[t] < 2
        /\ Goto(t, "acquire")
        /\ conn' = [conn EXCEPT ![t] = 0]
        /\ UNCHANGED <<at, attempt, passed, reply>>
     \/ /\ attempt[t] = 2
        /\ PassOver(t, "lost")
  /\ UNCHANGED <<gen, holder, lost>>

Step(t) ==
  \/ Begin(t) \/ Reuse(t) \/ Dial(t) \/ Dialed(t) \/ DialFails(t)
  \/ Truncated(t) \/ Answered(t) \/ ServFails(t) \/ SendFails(t)
  \/ Invalidate(t)

Next == \E t \in Queries : Step(t)

Spec == Init /\ [][Next]_vars

(* Tasks are scheduled, and dials and exchanges end, by an answer or by a  *)
(* timeout.  A query asks for a mutex finitely often, so that it gets the  *)
(* mutex needs no more than that whoever holds it lets it go.              *)
FairSpec == Spec /\ \A t \in Queries : WF_vars(Step(t))
-------------------------------------------------------------------------------
(* Every variable stays within the values the code gives it.               *)
TypeOK ==
  /\ cell \in [Upstreams -> Nat]
  /\ gen \in [Upstreams -> Nat]
  /\ holder \in [Upstreams -> Queries \cup {NoOne}]
  /\ pc \in [Queries -> PcValue]
  /\ at \in [Queries -> 0..UpstreamCount]
  /\ conn \in [Queries -> Nat]
  /\ attempt \in [Queries -> 0..2]
  /\ lost \in [Queries -> SUBSET (Upstreams \X Nat)]
  /\ passed \in [Queries -> [Upstreams -> Reason]]
  /\ reply \in [Queries -> {"none", "answer", "failed"}]

(* The mutex of an upstream is held by the query that dials it and by no   *)
(* other, so no two queries dial one upstream at the same time.            *)
DialingAlone ==
  /\ \A t \in Queries : pc[t] = "dialing" => holder[at[t]] = t
  /\ \A u \in Upstreams : holder[u] # NoOne =>
       pc[holder[u]] = "dialing" /\ at[holder[u]] = u

LostBySome(u, g) == \E t \in Queries : <<u, g>> \in lost[t]

(* Every connection but the newest was replaced because it failed a query, *)
(* and the newest is gone from its cell only if it failed one: a burst of  *)
(* failures on one connection costs one redial, and a late failure of an   *)
(* old connection never costs the new one.                                 *)
RedialsOnlyTheLost ==
  \A u \in Upstreams :
    /\ \A g \in 1..gen[u] : g < gen[u] => LostBySome(u, g)
    /\ cell[u] # gen[u] => cell[u] = 0 /\ LostBySome(u, gen[u])

(* A query never sends on a connection that has already failed it: the     *)
(* second turn of the loop always finds another connection.                *)
RetriesOnAnother ==
  \A t \in Queries : Exchanging(t) => <<at[t], conn[t]>> \notin lost[t]

(* A query gives up on an upstream over lost connections only after two    *)
(* different ones failed it; it fails as a whole only when every upstream  *)
(* was given up, and is answered by the first that was not.                *)
GivesUpOnlyAfterTwo ==
  \A t \in Queries :
    /\ \A u \in Upstreams : passed[t][u] = "lost" =>
         \E g, h \in 1..gen[u] :
           g # h /\ <<u, g>> \in lost[t] /\ <<u, h>> \in lost[t]
    /\ reply[t] = "failed" => \A u \in Upstreams : passed[t][u] # "no"
    /\ reply[t] = "answer" =>
         \A u \in Upstreams : u < at[t] <=> passed[t][u] # "no"

(* Every query ends, however connections fail and whoever else dials.      *)
EveryQueryEnds == \A t \in Queries : <>(pc[t] = "done")
===============================================================================
