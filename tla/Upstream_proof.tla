---------------------------- MODULE Upstream_proof ----------------------------
(***************************************************************************)
(* Proofs about Upstream, for any set of queries and any number of         *)
(* upstreams.                                                              *)
(***************************************************************************)
EXTENDS Upstream, TLAPS

(* Where a query is, which upstream it tries and which connection it has.  *)
LocatedQuery(t) ==
  /\ pc[t] = "idle" => at[t] = 0 /\ lost[t] = {}
  /\ pc[t] \notin {"idle", "done"} => at[t] \in Upstreams
  /\ pc[t] = "dialing" => cell[at[t]] = 0
  /\ pc[t] \in {"acquire", "dialing"} => conn[t] = 0
  /\ Exchanging(t) \/ pc[t] = "invalidate" => conn[t] \in 1..gen[at[t]]

Located ==
  /\ \A u \in Upstreams : gen[u] >= 1
  /\ \A t \in Queries : LocatedQuery(t)

(* What a query has lost: connections that were given out, of upstreams it *)
(* has come to, and the one it is about to invalidate.                     *)
LostBounded(t) ==
  /\ \A u \in Upstreams, g \in Nat : <<u, g>> \in lost[t] =>
       u <= at[t] /\ g \in 1..gen[u]
  /\ pc[t] = "invalidate" => <<at[t], conn[t]>> \in lost[t]

LostBounds == \A t \in Queries : LostBounded(t)

(* A connection a query has lost and let go of is no longer in the cell.   *)
LostNotKept ==
  \A t \in Queries, g \in Nat :
    <<at[t], g>> \in lost[t] /\ g # conn[t] => cell[at[t]] # g

(* The turn of the loop a query is in matches the connections it has lost. *)
LostOne(t) == \E g \in Nat : <<at[t], g>> \in lost[t]

LostTwo(t) ==
  \E g, h \in Nat :
    g # h /\ <<at[t], g>> \in lost[t] /\ <<at[t], h>> \in lost[t]

Turns ==
  \A t \in Queries :
    /\ pc[t] \in {"acquire", "dialing", "sending", "retrying"} =>
         attempt[t] < 2
    /\ attempt[t] >= 1 => LostOne(t)
    /\ attempt[t] = 2 => LostTwo(t)

(* The upstreams passed over are those before the current one, and the     *)
(* current one too once the query has failed.                              *)
PassedOnes(t) ==
  /\ \A u \in Upstreams :
       passed[t][u] # "no" <=> u < at[t] \/ (u = at[t] /\ reply[t] = "failed")
  /\ reply[t] = "failed" => at[t] = UpstreamCount
  /\ pc[t] # "done" => reply[t] = "none"

PassedBefore == \A t \in Queries : PassedOnes(t)

IInv ==
  /\ TypeOK
  /\ DialingAlone
  /\ Located
  /\ LostBounds
  /\ RedialsOnlyTheLost
  /\ RetriesOnAnother
  /\ LostNotKept
  /\ Turns
  /\ PassedBefore
  /\ GivesUpOnlyAfterTwo
-------------------------------------------------------------------------------
(* What going on to the next upstream does to the variables it sets.       *)
LEMMA NextUpstreamType ==
  ASSUME TypeOK, NEW t \in Queries, NextUpstream(t)
  PROVE  /\ pc' \in [Queries -> PcValue]
         /\ at' \in [Queries -> 0..UpstreamCount]
         /\ conn' \in [Queries -> Nat]
         /\ attempt' \in [Queries -> 0..2]
         /\ reply' \in [Queries -> {"none", "answer", "failed"}]
<1> USE DEF TypeOK, NextUpstream, Goto
<1>0. {"acquire", "done"} \subseteq PcValue
  BY DEF PcValue
<1>1. conn' \in [Queries -> Nat] /\ attempt' \in [Queries -> 0..2]
  OBVIOUS
<1>2. CASE at[t] < UpstreamCount
  <2>1. at[t] + 1 \in 0..UpstreamCount
    BY <1>2, UpstreamAssumption
  <2>2. at' \in [Queries -> 0..UpstreamCount]
    BY <1>2, <2>1
  <2> QED BY <1>0, <1>1, <1>2, <2>2
<1>3. CASE ~(at[t] < UpstreamCount)
  BY <1>0, <1>1, <1>3
<1> QED BY <1>2, <1>3

(* Every step keeps the types; the bound on attempts needs Turns.          *)
LEMMA TypeStep ==
  ASSUME TypeOK, Located, Turns, [Next]_vars
  PROVE  TypeOK'
<1>0. /\ {"acquire", "dialing", "sending", "retrying", "invalidate", "done"}
           \subseteq PcValue
      /\ {"servfail", "undialable", "lost"} \subseteq Reason
  BY DEF PcValue, Reason
<1> USE DEF TypeOK, Goto
<1>1. ASSUME NEW t \in Queries, Begin(t) PROVE TypeOK'
  BY <1>1, NextUpstreamType DEF Begin
<1>2. ASSUME NEW t \in Queries, pc[t] \notin {"idle", "done"}
      PROVE  at[t] \in Upstreams
  BY <1>2 DEF Located, LocatedQuery
<1>3. ASSUME NEW t \in Queries, Reuse(t) PROVE TypeOK'
  <2>1. cell[at[t]] \in Nat
    BY <1>2, <1>3 DEF Reuse
  <2> QED BY <1>0, <1>3, <2>1 DEF Reuse
<1>4. ASSUME NEW t \in Queries, Dial(t) PROVE TypeOK'
  BY <1>0, <1>4 DEF Dial
<1>5. ASSUME NEW t \in Queries, Dialed(t) PROVE TypeOK'
  <2>1. gen[at[t]] + 1 \in Nat
    BY <1>2, <1>5 DEF Dialed
  <2> QED BY <1>0, <1>5, <2>1 DEF Dialed
<1>6. ASSUME NEW t \in Queries, NEW reason \in Reason, PassOver(t, reason)
      PROVE  passed' \in [Queries -> [Upstreams -> Reason]]
  BY <1>6 DEF PassOver
<1>7. ASSUME NEW t \in Queries, DialFails(t) PROVE TypeOK'
  BY <1>0, <1>6, <1>7, NextUpstreamType DEF DialFails, PassOver
<1>8. ASSUME NEW t \in Queries, Truncated(t) PROVE TypeOK'
  BY <1>0, <1>8 DEF Truncated
<1>9. ASSUME NEW t \in Queries, Answered(t) PROVE TypeOK'
  BY <1>0, <1>9 DEF Answered
<1>10. ASSUME NEW t \in Queries, ServFails(t) PROVE TypeOK'
  BY <1>0, <1>6, <1>10, NextUpstreamType DEF ServFails, PassOver
<1>11. ASSUME NEW t \in Queries, SendFails(t) PROVE TypeOK'
  <2>1. at[t] \in Upstreams /\ conn[t] \in Nat
    BY <1>2, <1>11 DEF SendFails, Exchanging
  <2>2. attempt' \in [Queries -> 0..2]
    BY <1>11 DEF SendFails, Exchanging, Turns
  <2>3. lost' \in [Queries -> SUBSET (Upstreams \X Nat)]
    BY <1>11, <2>1 DEF SendFails
  <2> QED BY <1>0, <1>11, <2>2, <2>3 DEF SendFails
<1>12. ASSUME NEW t \in Queries, Invalidate(t) PROVE TypeOK'
  <2>1. cell' \in [Upstreams -> Nat]
    BY <1>12 DEF Invalidate, Emptied
  <2>2. CASE attempt[t] < 2
    <3>1. /\ Goto(t, "acquire")
          /\ conn' = [conn EXCEPT ![t] = 0]
          /\ UNCHANGED <<at, attempt, passed, reply, gen, holder, lost>>
      BY <1>12, <2>2 DEF Invalidate
    <3> QED BY <1>0, <2>1, <3>1
  <2>3. CASE attempt[t] = 2
    <3>1. PassOver(t, "lost") /\ UNCHANGED <<gen, holder, lost>>
      BY <1>12, <2>3 DEF Invalidate
    <3>2. NextUpstream(t)
      BY <3>1 DEF PassOver
    <3>3. passed' \in [Queries -> [Upstreams -> Reason]]
      BY <1>0, <1>6, <3>1
    <3> QED BY <2>1, <3>1, <3>2, <3>3, NextUpstreamType
  <2> QED BY <1>12, <2>2, <2>3 DEF Invalidate
<1>13. CASE UNCHANGED vars
  BY <1>13 DEF vars
<1> QED
  BY <1>1, <1>3, <1>4, <1>5, <1>7, <1>8, <1>9, <1>10, <1>11, <1>12, <1>13
  DEF Next, Step

(* What going on to the next upstream does to the query itself.            *)
LEMMA NextUpstreamEffect ==
  ASSUME TypeOK, NEW t \in Queries, NextUpstream(t)
  PROVE  /\ conn'[t] = 0 /\ attempt'[t] = 0
         /\ \/ /\ at[t] < UpstreamCount
               /\ pc'[t] = "acquire"
               /\ at'[t] = at[t] + 1
               /\ reply' = reply
            \/ /\ at[t] = UpstreamCount
               /\ pc'[t] = "done"
               /\ at'[t] = at[t]
               /\ reply'[t] = "failed"
<1> USE DEF TypeOK, NextUpstream, Goto
<1>1. CASE at[t] < UpstreamCount
  BY <1>1
<1>2. CASE ~(at[t] < UpstreamCount)
  <2>1. at[t] = UpstreamCount
    <3>1. at[t] \in 0..UpstreamCount /\ UpstreamCount \in Nat
      BY UpstreamAssumption
    <3> HIDE DEF TypeOK, NextUpstream, Goto
    <3> QED BY <1>2, <3>1
  <2> QED BY <1>2, <2>1
<1> QED BY <1>1, <1>2

(* A step of a query changes nothing of another one.                       *)
LEMMA Frame ==
  ASSUME TypeOK, NEW t \in Queries, Step(t), NEW s \in Queries, s # t
  PROVE  /\ pc'[s] = pc[s] /\ at'[s] = at[s] /\ conn'[s] = conn[s]
         /\ attempt'[s] = attempt[s] /\ lost'[s] = lost[s]
         /\ passed'[s] = passed[s] /\ reply'[s] = reply[s]
<1> USE DEF TypeOK, Goto
<1>1. ASSUME NextUpstream(t)
      PROVE  /\ pc'[s] = pc[s] /\ at'[s] = at[s] /\ conn'[s] = conn[s]
             /\ attempt'[s] = attempt[s] /\ reply'[s] = reply[s]
  BY <1>1 DEF NextUpstream
<1>2. ASSUME NEW reason, PassOver(t, reason)
      PROVE  /\ pc'[s] = pc[s] /\ at'[s] = at[s] /\ conn'[s] = conn[s]
             /\ attempt'[s] = attempt[s] /\ passed'[s] = passed[s]
             /\ reply'[s] = reply[s]
  BY <1>1, <1>2 DEF PassOver
<1>3. CASE Begin(t)
  BY <1>1, <1>3 DEF Begin
<1>4. CASE Reuse(t) \/ Dial(t) \/ Dialed(t)
  BY <1>4 DEF Reuse, Dial, Dialed
<1>5. CASE DialFails(t)
  BY <1>2, <1>5 DEF DialFails
<1>6. CASE Truncated(t) \/ Answered(t) \/ SendFails(t)
  BY <1>6 DEF Truncated, Answered, SendFails
<1>7. CASE ServFails(t)
  BY <1>2, <1>7 DEF ServFails
<1>8. CASE Invalidate(t)
  <2>1. CASE attempt[t] < 2
    BY <1>8, <2>1 DEF Invalidate
  <2>2. CASE attempt[t] = 2
    BY <1>2, <1>8, <2>2 DEF Invalidate
  <2> QED BY <1>8, <2>1, <2>2 DEF Invalidate
<1> QED BY <1>3, <1>4, <1>5, <1>6, <1>7, <1>8 DEF Step

(* Generations only grow, and what is lost stays lost.                     *)
LEMMA Grows ==
  ASSUME TypeOK, NEW t \in Queries, Step(t)
  PROVE  /\ \A u \in Upstreams : gen'[u] >= gen[u]
         /\ \A s \in Queries : lost[s] \subseteq lost'[s]
<1> USE DEF TypeOK
<1>1. CASE Dialed(t)
  BY <1>1 DEF Dialed
<1>2. CASE SendFails(t)
  BY <1>2 DEF SendFails
<1>3. CASE ~Dialed(t) /\ ~SendFails(t)
  BY <1>3 DEF Step, Begin, Reuse, Dial, DialFails, Truncated, Answered,
              ServFails, Invalidate
<1> QED BY <1>1, <1>2, <1>3

(* Only Dial takes the mutex, and only the end of that dial lets it go.    *)
LEMMA DialingStep ==
  ASSUME TypeOK, Located, DialingAlone, NEW t \in Queries, Step(t)
  PROVE  DialingAlone'
<1> USE DEF TypeOK
<1>1. CASE Dial(t)
  <2>1. at[t] \in Upstreams
    BY <1>1 DEF Dial, Located, LocatedQuery
  <2>2. /\ pc' = [pc EXCEPT ![t] = "dialing"]
        /\ holder' = [holder EXCEPT ![at[t]] = t]
        /\ at' = at /\ holder[at[t]] = NoOne
    BY <1>1 DEF Dial, Goto, Free
  <2> QED BY <2>1, <2>2, UpstreamAssumption DEF DialingAlone
<1>2. CASE Dialed(t) \/ DialFails(t)
  <2>1. /\ pc[t] = "dialing" /\ pc'[t] # "dialing"
        /\ holder' = [holder EXCEPT ![at[t]] = NoOne]
    <3>1. CASE Dialed(t)
      BY <3>1 DEF Dialed, Goto
    <3>2. CASE DialFails(t)
      BY <3>2, NextUpstreamEffect DEF DialFails, PassOver
    <3> QED BY <1>2, <3>1, <3>2
  <2>2. at[t] \in Upstreams /\ holder[at[t]] = t
    BY <2>1 DEF Located, LocatedQuery, DialingAlone
  <2>3. \A s \in Queries : s # t => pc'[s] = pc[s] /\ at'[s] = at[s]
    BY Frame
  <2>4. \A s \in Queries : pc'[s] = "dialing" => holder'[at'[s]] = s
    BY <2>1, <2>2, <2>3 DEF DialingAlone
  <2>5. ASSUME NEW u \in Upstreams, holder'[u] # NoOne
        PROVE  pc'[holder'[u]] = "dialing" /\ at'[holder'[u]] = u
    <3>1. u # at[t] /\ holder'[u] = holder[u]
      BY <2>1, <2>2, <2>5
    <3>2. holder[u] \in Queries /\ holder[u] # t
      BY <2>5, <3>1 DEF DialingAlone
    <3> QED BY <2>3, <2>5, <3>1, <3>2 DEF DialingAlone
  <2> QED BY <2>4, <2>5 DEF DialingAlone
<1>3. CASE ~Dial(t) /\ ~Dialed(t) /\ ~DialFails(t)
  <2>1. holder' = holder
    BY <1>3 DEF Step, Begin, Reuse, Truncated, Answered, ServFails,
                SendFails, Invalidate
  <2>2. pc[t] # "dialing"
    BY <1>3 DEF Step, Begin, Reuse, Truncated, Answered, ServFails,
                SendFails, Invalidate, Exchanging
  <2>3. pc'[t] # "dialing"
    <3>1. CASE NextUpstream(t)
      BY <3>1, NextUpstreamEffect
    <3>2. CASE ~NextUpstream(t)
      BY <1>3, <3>2 DEF Step, Begin, Reuse, Truncated, Answered, ServFails,
                        SendFails, Invalidate, PassOver, Goto
    <3> QED BY <3>1, <3>2
  <2>4. \A s \in Queries : s # t => pc'[s] = pc[s] /\ at'[s] = at[s]
    BY Frame
  <2> QED BY <2>1, <2>2, <2>3, <2>4 DEF DialingAlone
<1> QED BY <1>1, <1>2, <1>3

(* What a step does to the cells and generations.                          *)
LEMMA CellSteps ==
  ASSUME TypeOK, Located, DialingAlone, NEW t \in Queries, Step(t)
  PROVE  \/ cell' = cell /\ gen' = gen
         \/ /\ Dialed(t) /\ at[t] \in Upstreams
            /\ gen' = [gen EXCEPT ![at[t]] = gen[at[t]] + 1]
            /\ cell' = [cell EXCEPT ![at[t]] = gen[at[t]] + 1]
         \/ /\ Invalidate(t) /\ at[t] \in Upstreams /\ gen' = gen
            /\ cell[at[t]] = conn[t]
            /\ cell' = [cell EXCEPT ![at[t]] = 0]
<1>1. CASE Dialed(t)
  BY <1>1 DEF Dialed, Located, LocatedQuery
<1>2. CASE Invalidate(t)
  BY <1>2 DEF Invalidate, Emptied, Located, LocatedQuery
<1>3. CASE ~Dialed(t) /\ ~Invalidate(t)
  BY <1>3 DEF Step, Begin, Reuse, Dial, DialFails, Truncated, Answered,
              ServFails, SendFails
<1> QED BY <1>1, <1>2, <1>3

(* Nobody touches the cell of an upstream while another query dials it.    *)
LEMMA DialedAlone ==
  ASSUME TypeOK, Located, DialingAlone, NEW t \in Queries, Step(t),
         NEW s \in Queries, s # t, pc[s] = "dialing"
  PROVE  cell'[at[s]] = cell[at[s]]
<1>1. holder[at[s]] = s /\ at[s] \in Upstreams
  BY DEF DialingAlone, Located, LocatedQuery
<1>2. CASE cell' = cell
  BY <1>2
<1>3. CASE Dialed(t)
  <2>1. at[t] # at[s]
    BY <1>1, <1>3 DEF Dialed, DialingAlone
  <2> QED BY <1>1, <1>3, <2>1 DEF Dialed, TypeOK
<1>4. CASE Invalidate(t)
  <2>1. at[t] # at[s]
    BY <1>1, <1>4, UpstreamAssumption DEF Invalidate, Free
  <2> QED BY <1>1, <1>4, <2>1 DEF Invalidate, Emptied, TypeOK
<1> QED BY <1>2, <1>3, <1>4, CellSteps

(* A query that goes on is located at the next upstream or is done.        *)
LEMMA LocatedNext ==
  ASSUME TypeOK, NEW t \in Queries, NextUpstream(t)
  PROVE  LocatedQuery(t)'
<1>1. CASE at[t] < UpstreamCount
  <2>1. pc'[t] = "acquire" /\ at'[t] = at[t] + 1 /\ conn'[t] = 0
    BY <1>1, NextUpstreamEffect, UpstreamAssumption
  <2>2. at[t] \in Nat /\ UpstreamCount \in Nat /\ at[t] + 1 \in 1..UpstreamCount
    BY <1>1, UpstreamAssumption DEF TypeOK
  <2> QED BY <2>1, <2>2 DEF LocatedQuery, Exchanging, Upstreams
<1>2. CASE ~(at[t] < UpstreamCount)
  <2>1. pc'[t] = "done"
    BY <1>2, NextUpstreamEffect
  <2> QED BY <2>1 DEF LocatedQuery, Exchanging
<1> QED BY <1>1, <1>2

(* Every step leaves every query located.                                  *)
LEMMA LocatedStep ==
  ASSUME TypeOK, TypeOK', Located, DialingAlone, RedialsOnlyTheLost,
         NEW t \in Queries, Step(t)
  PROVE  Located'
<1>1. \A u \in Upstreams :
        gen[u] \in Nat /\ gen[u] >= 1 /\ gen'[u] >= gen[u] /\ gen'[u] \in Nat
  BY Grows DEF Located, LocatedQuery, TypeOK
<1>2. ASSUME NEW s \in Queries, s # t PROVE LocatedQuery(s)'
  <2>1. /\ pc'[s] = pc[s] /\ at'[s] = at[s] /\ conn'[s] = conn[s]
        /\ lost'[s] = lost[s]
    BY <1>2, Frame
  <2>2. pc[s] = "dialing" => cell'[at[s]] = 0
    BY <1>2, DialedAlone DEF Located, LocatedQuery
  <2>3. ASSUME Exchanging(s) \/ pc[s] = "invalidate"
        PROVE  conn[s] \in 1..gen'[at[s]]
    <3>1. at[s] \in Upstreams /\ conn[s] \in 1..gen[at[s]]
      BY <2>3 DEF Located, LocatedQuery, Exchanging
    <3> QED BY <1>1, <3>1
  <2> QED BY <2>1, <2>2, <2>3 DEF Located, LocatedQuery, Exchanging
<1>3. LocatedQuery(t)'
  <2>1. CASE NextUpstream(t)
    BY <2>1, LocatedNext
  <2>2. CASE Reuse(t)
    <3>1. /\ at[t] \in Upstreams /\ at'[t] = at[t] /\ gen' = gen
          /\ pc'[t] = "sending" /\ conn'[t] = cell[at[t]] /\ cell[at[t]] # 0
      BY <2>2 DEF Reuse, Goto, Located, LocatedQuery, TypeOK
    <3>2. cell[at[t]] = gen[at[t]]
      BY <3>1 DEF RedialsOnlyTheLost
    <3> QED BY <1>1, <3>1, <3>2 DEF LocatedQuery, Exchanging
  <2>3. CASE Dial(t)
    BY <2>3 DEF Dial, Goto, Located, LocatedQuery, Exchanging, TypeOK
  <2>4. CASE Dialed(t)
    <3>1. /\ at[t] \in Upstreams /\ at'[t] = at[t] /\ pc'[t] = "sending"
          /\ gen'[at[t]] = gen[at[t]] + 1 /\ conn'[t] = gen[at[t]] + 1
      BY <2>4 DEF Dialed, Goto, Located, LocatedQuery, TypeOK
    <3> QED BY <1>1, <3>1 DEF LocatedQuery, Exchanging
  <2>5. CASE Truncated(t) \/ Answered(t) \/ SendFails(t)
    BY <2>5 DEF Truncated, Answered, SendFails, Goto, Located, LocatedQuery,
                Exchanging, TypeOK
  <2>6. CASE Invalidate(t) /\ attempt[t] < 2
    BY <2>6 DEF Invalidate, Goto, Located, LocatedQuery, Exchanging, TypeOK
  <2> QED
    BY <2>1, <2>2, <2>3, <2>4, <2>5, <2>6
    DEF Step, Begin, DialFails, ServFails, Invalidate, PassOver
<1> QED BY <1>1, <1>2, <1>3 DEF Located, LocatedQuery, Exchanging

(* What a query has lost stays within what was given out.                  *)
LEMMA LostStep ==
  ASSUME TypeOK, TypeOK', Located, LostBounds, NEW t \in Queries, Step(t)
  PROVE  LostBounds'
<1>1. \A u \in Upstreams :
        gen[u] \in Nat /\ gen'[u] \in Nat /\ gen'[u] >= gen[u]
  BY Grows DEF TypeOK
<1>2. \A s \in Queries : at[s] \in Nat /\ at'[s] \in Nat
  BY UpstreamAssumption DEF TypeOK
<1>3. ASSUME NEW s \in Queries, lost'[s] = lost[s], at'[s] >= at[s],
             \/ pc'[s] # "invalidate"
             \/ pc'[s] = pc[s] /\ at'[s] = at[s] /\ conn'[s] = conn[s]
      PROVE  LostBounded(s)'
  <2>1. \A u \in Upstreams, g \in Nat : <<u, g>> \in lost'[s] =>
          u <= at'[s] /\ g \in 1..gen'[u]
    <3> SUFFICES ASSUME NEW u \in Upstreams, NEW g \in Nat,
                        <<u, g>> \in lost'[s]
                 PROVE  u <= at'[s] /\ g \in 1..gen'[u]
      OBVIOUS
    <3>1. <<u, g>> \in lost[s]
      BY <1>3
    <3>2. u <= at[s] /\ g \in 1..gen[u]
      BY <3>1 DEF LostBounds, LostBounded
    <3>3. u \in Nat /\ at'[s] >= at[s]
      BY <1>3, UpstreamAssumption DEF Upstreams
    <3> QED BY <1>1, <1>2, <3>2, <3>3
  <2> QED BY <1>3, <2>1 DEF LostBounds, LostBounded
<1>4. ASSUME NEW s \in Queries, s # t
      PROVE  LostBounded(s)'
  <2>1. /\ lost'[s] = lost[s] /\ at'[s] = at[s] /\ conn'[s] = conn[s]
        /\ pc'[s] = pc[s]
    BY <1>4, Frame
  <2>2. at'[s] >= at[s]
    BY <1>2, <2>1
  <2> QED BY <1>3, <2>1, <2>2
<1>5. CASE SendFails(t)
  <2>1. /\ at'[t] = at[t] /\ conn'[t] = conn[t] /\ gen' = gen
        /\ at[t] \in Upstreams /\ conn[t] \in 1..gen[at[t]]
        /\ lost'[t] = lost[t] \cup {<<at[t], conn[t]>>}
    BY <1>5 DEF SendFails, Exchanging, Located, LocatedQuery, TypeOK
  <2>2. \A u \in Upstreams, g \in Nat : <<u, g>> \in lost'[t] =>
          u <= at'[t] /\ g \in 1..gen'[u]
    <3> SUFFICES ASSUME NEW u \in Upstreams, NEW g \in Nat,
                        <<u, g>> \in lost'[t]
                 PROVE  u <= at[t] /\ g \in 1..gen[u]
      BY <2>1
    <3>1. CASE <<u, g>> \in lost[t]
      BY <3>1 DEF LostBounds, LostBounded
    <3>2. CASE <<u, g>> = <<at[t], conn[t]>>
      BY <1>2, <2>1, <3>2
    <3> QED BY <2>1, <3>1, <3>2
  <2> QED BY <1>4, <2>1, <2>2 DEF LostBounds, LostBounded
<1>6. CASE ~SendFails(t)
  <2>1. lost'[t] = lost[t]
    BY <1>6 DEF Step, Begin, Reuse, Dial, Dialed, DialFails, Truncated,
                Answered, ServFails, Invalidate
  <2>2. at'[t] >= at[t] /\ pc'[t] # "invalidate"
    <3>1. CASE NextUpstream(t)
      BY <1>2, <3>1, NextUpstreamEffect
    <3>2. CASE ~NextUpstream(t)
      <4>1. at'[t] = at[t] /\ pc'[t] # "invalidate"
        BY <1>6, <3>2 DEF Step, Begin, Reuse, Dial, Dialed, DialFails,
             Truncated, Answered, ServFails, Invalidate, PassOver, Goto, TypeOK
      <4> QED BY <1>2, <4>1
    <3> QED BY <3>1, <3>2
  <2>3. LostBounded(t)'
    BY <1>3, <2>1, <2>2
  <2> QED BY <1>4, <2>3 DEF LostBounds, LostBounded
<1> QED BY <1>5, <1>6

(* A generation is replaced, and leaves its cell, only once it is lost.    *)
LEMMA RedialStep ==
  ASSUME TypeOK, TypeOK', Located, DialingAlone, LostBounds,
         RedialsOnlyTheLost, NEW t \in Queries, Step(t)
  PROVE  RedialsOnlyTheLost'
<1>1. \A u \in Upstreams : gen[u] \in Nat /\ gen[u] >= 1
  BY DEF TypeOK, Located, LocatedQuery
<1>2. ASSUME NEW u, NEW g, LostBySome(u, g)
      PROVE  LostBySome(u, g)'
  BY <1>2, Grows DEF LostBySome
<1>3. CASE cell' = cell /\ gen' = gen
  BY <1>2, <1>3 DEF RedialsOnlyTheLost
<1>4. CASE /\ Dialed(t) /\ at[t] \in Upstreams
           /\ gen' = [gen EXCEPT ![at[t]] = gen[at[t]] + 1]
           /\ cell' = [cell EXCEPT ![at[t]] = gen[at[t]] + 1]
  <2>1. cell[at[t]] = 0
    BY <1>4 DEF Dialed, Located, LocatedQuery
  <2>2. LostBySome(at[t], gen[at[t]])
    BY <1>1, <1>4, <2>1 DEF RedialsOnlyTheLost
  <2>3. ASSUME NEW u \in Upstreams, u # at[t]
        PROVE  gen'[u] = gen[u] /\ cell'[u] = cell[u]
    BY <1>4, <2>3 DEF TypeOK
  <2>4. gen'[at[t]] = gen[at[t]] + 1 /\ cell'[at[t]] = gen[at[t]] + 1
    BY <1>4 DEF TypeOK
  <2>5. ASSUME NEW g \in 1..gen'[at[t]], g < gen'[at[t]]
        PROVE  LostBySome(at[t], g)
    <3>1. \A n \in Nat : \A m \in 1..(n + 1) :
            m < n + 1 => m = n \/ (m \in 1..n /\ m < n)
      OBVIOUS
    <3>2. g = gen[at[t]] \/ (g \in 1..gen[at[t]] /\ g < gen[at[t]])
      BY <1>1, <1>4, <2>4, <2>5, <3>1
    <3> QED BY <1>4, <2>2, <3>2 DEF RedialsOnlyTheLost
  <2> QED BY <1>2, <2>3, <2>4, <2>5 DEF RedialsOnlyTheLost
<1>5. CASE /\ Invalidate(t) /\ at[t] \in Upstreams /\ gen' = gen
           /\ cell[at[t]] = conn[t]
           /\ cell' = [cell EXCEPT ![at[t]] = 0]
  <2>1. conn[t] \in 1..gen[at[t]] /\ <<at[t], conn[t]>> \in lost[t]
    BY <1>5 DEF Invalidate, Located, LocatedQuery, LostBounds,
       LostBounded
  <2>2. conn[t] = gen[at[t]]
    BY <1>1, <1>5, <2>1 DEF RedialsOnlyTheLost
  <2>3. LostBySome(at[t], gen[at[t]])
    BY <2>1, <2>2 DEF LostBySome
  <2> QED BY <1>2, <1>5, <2>3 DEF RedialsOnlyTheLost, TypeOK
<1> QED BY <1>3, <1>4, <1>5, CellSteps

(* A query sends only on a connection it has not lost.                     *)
LEMMA RetriesStep ==
  ASSUME TypeOK, Located, LostBounds, RetriesOnAnother, LostNotKept,
         NEW t \in Queries, Step(t)
  PROVE  RetriesOnAnother'
<1>1. ASSUME NEW s \in Queries, s # t, Exchanging(s)'
      PROVE  <<at'[s], conn'[s]>> \notin lost'[s]
  BY <1>1, Frame DEF RetriesOnAnother, Exchanging
<1>2. ASSUME Exchanging(t)'
      PROVE  <<at'[t], conn'[t]>> \notin lost'[t]
  <2>1. CASE Reuse(t)
    <3>1. /\ at'[t] = at[t] /\ conn'[t] = cell[at[t]] /\ lost'[t] = lost[t]
          /\ cell[at[t]] # conn[t] /\ cell[at[t]] \in Nat
      BY <2>1 DEF Reuse, Located, LocatedQuery, TypeOK
    <3> QED BY <3>1 DEF LostNotKept
  <2>2. CASE Dialed(t)
    <3>1. /\ at'[t] = at[t] /\ conn'[t] = gen[at[t]] + 1
          /\ lost'[t] = lost[t] /\ at[t] \in Upstreams /\ gen[at[t]] \in Nat
      BY <2>2 DEF Dialed, Located, LocatedQuery, TypeOK
    <3>2. SUFFICES ASSUME <<at[t], gen[at[t]] + 1>> \in lost[t] PROVE FALSE
      BY <3>1
    <3>3. \A g \in Nat : <<at[t], g>> \in lost[t] => g \in 1..gen[at[t]]
      BY <3>1 DEF LostBounds, LostBounded
    <3> QED BY <3>1, <3>2, <3>3
  <2>3. CASE Truncated(t)
    BY <2>3 DEF Truncated, RetriesOnAnother, Exchanging
  <2>4. CASE NextUpstream(t)
    BY <1>2, <2>4, NextUpstreamEffect DEF Exchanging
  <2>5. CASE ~Reuse(t) /\ ~Dialed(t) /\ ~Truncated(t) /\ ~NextUpstream(t)
    BY <1>2, <2>5 DEF Step, Begin, Dial, DialFails, Answered, ServFails,
         SendFails, Invalidate, PassOver, Goto, Exchanging, TypeOK
  <2> QED BY <2>1, <2>2, <2>3, <2>4, <2>5
<1> QED BY <1>1, <1>2 DEF RetriesOnAnother

(* A lost connection that was let go of does not come back to its cell.    *)
LEMMA KeptStep ==
  ASSUME TypeOK, Located, LostBounds, DialingAlone, RetriesOnAnother,
         LostNotKept, NEW t \in Queries, Step(t)
  PROVE  LostNotKept'
<1>1. ASSUME NEW s \in Queries, NEW g \in Nat, <<at[s], g>> \in lost[s],
             at[s] \in Upstreams, cell[at[s]] # g
      PROVE  cell'[at[s]] # g
  <2>1. g \in 1..gen[at[s]] /\ gen[at[s]] \in Nat
    BY <1>1 DEF LostBounds, LostBounded, TypeOK
  <2> QED BY <1>1, <2>1, CellSteps DEF TypeOK
<1>2. ASSUME NEW s \in Queries, NEW g \in Nat, <<at[s], g>> \in lost[s]
      PROVE  at[s] \in Upstreams
  BY <1>2 DEF TypeOK
<1>3. ASSUME NEW s \in Queries, s # t, NEW g \in Nat,
             <<at'[s], g>> \in lost'[s], g # conn'[s]
      PROVE  cell'[at'[s]] # g
  <2>1. at'[s] = at[s] /\ lost'[s] = lost[s] /\ conn'[s] = conn[s]
    BY <1>3, Frame
  <2> QED BY <1>1, <1>2, <1>3, <2>1 DEF LostNotKept
<1>4. ASSUME NEW g \in Nat, <<at'[t], g>> \in lost'[t], g # conn'[t]
      PROVE  cell'[at'[t]] # g
  <2>1. CASE Reuse(t)
    BY <1>4, <2>1 DEF Reuse, TypeOK
  <2>2. CASE Dialed(t)
    <3>1. /\ at[t] \in Upstreams /\ at'[t] = at[t]
          /\ cell'[at[t]] = conn'[t]
      BY <2>2 DEF Dialed, Located, LocatedQuery, TypeOK
    <3> QED BY <1>4, <3>1
  <2>3. CASE Dial(t) \/ Truncated(t) \/ Answered(t)
    BY <1>4, <2>3 DEF Dial, Truncated, Answered, LostNotKept
  <2>4. CASE SendFails(t)
    <3>1. /\ at'[t] = at[t] /\ conn'[t] = conn[t] /\ cell' = cell
          /\ lost'[t] = lost[t] \cup {<<at[t], conn[t]>>}
      BY <2>4 DEF SendFails, TypeOK
    <3> QED BY <1>4, <3>1 DEF LostNotKept
  <2>5. CASE NextUpstream(t) /\ lost' = lost /\ at[t] < UpstreamCount
    <3>1. at'[t] = at[t] + 1 /\ at[t] \in Nat /\ <<at'[t], g>> \in lost[t]
      BY <1>4, <2>5, NextUpstreamEffect, UpstreamAssumption DEF TypeOK
    <3>2. at'[t] \in Upstreams
      BY <3>1 DEF TypeOK
    <3>3. at'[t] <= at[t]
      BY <3>1, <3>2 DEF LostBounds, LostBounded
    <3> QED BY <3>1, <3>3
  <2>6. CASE NextUpstream(t) /\ lost' = lost /\ ~(at[t] < UpstreamCount)
    <3>1. at'[t] = at[t] /\ <<at[t], g>> \in lost[t]
      BY <1>4, <2>6, NextUpstreamEffect
    <3>2. CASE g # conn[t]
      BY <1>1, <1>2, <3>1, <3>2 DEF LostNotKept
    <3>3. CASE g = conn[t]
      <4>1. ~Exchanging(t) /\ g # 0
        BY <1>2, <3>1, <3>3 DEF RetriesOnAnother, LostBounds, LostBounded
      <4>2. pc[t] \notin {"acquire", "dialing", "idle"}
        BY <3>1, <3>3, <4>1 DEF Located, LocatedQuery
      <4>3. Invalidate(t)
        BY <4>1, <4>2 DEF Step, Begin, Reuse, Dial, Dialed, DialFails,
                          Truncated, Answered, ServFails, SendFails, Exchanging
      <4>4. cell'[at[t]] # conn[t]
        BY <1>2, <3>1, <3>3, <4>1, <4>3 DEF Invalidate, Emptied, TypeOK
      <4> QED BY <3>1, <3>3, <4>4
    <3> QED BY <3>2, <3>3
  <2>7. CASE Invalidate(t) /\ attempt[t] < 2
    <3>1. /\ at'[t] = at[t] /\ lost' = lost /\ at[t] \in Upstreams
          /\ cell'[at[t]] \in {0, cell[at[t]]}
          /\ g # 0
      BY <1>4, <2>7
      DEF Invalidate, Emptied, Located, LocatedQuery, LostBounds, LostBounded,
                        TypeOK
    <3>2. cell'[at[t]] # conn[t] \/ conn[t] = 0
      BY <2>7, <3>1 DEF Invalidate, Emptied, TypeOK
    <3> QED BY <1>4, <3>1, <3>2 DEF LostNotKept
  <2> QED
    BY <2>1, <2>2, <2>3, <2>4, <2>5, <2>6, <2>7
    DEF Step, Begin, DialFails, ServFails, Invalidate, PassOver
<1> QED BY <1>3, <1>4 DEF LostNotKept

(* The count of attempts follows the connections lost.                     *)
LEMMA TurnsStep ==
  ASSUME TypeOK, Located, RetriesOnAnother, Turns, NEW t \in Queries, Step(t)
  PROVE  Turns'
<1>1. ASSUME NEW s \in Queries, s # t
      PROVE  /\ pc'[s] = pc[s] /\ attempt'[s] = attempt[s]
             /\ LostOne(s)' = LostOne(s) /\ LostTwo(s)' = LostTwo(s)
  BY <1>1, Frame DEF LostOne, LostTwo
<1>2. CASE NextUpstream(t)
  BY <1>1, <1>2, NextUpstreamEffect DEF Turns
<1>3. CASE SendFails(t)
  <2>1. /\ pc'[t] = "invalidate" /\ attempt'[t] = attempt[t] + 1
        /\ attempt[t] \in 0..2 /\ attempt[t] < 2
        /\ at'[t] = at[t] /\ conn[t] \in Nat
        /\ lost'[t] = lost[t] \cup {<<at[t], conn[t]>>}
        /\ <<at[t], conn[t]>> \notin lost[t]
    BY <1>3 DEF SendFails, Exchanging, Goto, Turns, RetriesOnAnother, TypeOK
  <2>2. LostOne(t)'
    BY <2>1 DEF LostOne
  <2>3. attempt[t] = 1 => LostTwo(t)'
    BY <2>1 DEF Turns, LostOne, LostTwo
  <2> QED BY <1>1, <2>1, <2>2, <2>3 DEF Turns
<1>4. CASE ~NextUpstream(t) /\ ~SendFails(t)
  <2>1. /\ attempt'[t] = attempt[t] /\ at'[t] = at[t] /\ lost'[t] = lost[t]
        /\ pc[t] \in {"acquire", "dialing", "sending", "retrying"}
             \/ attempt[t] < 2
    BY <1>4 DEF Step, Begin, Reuse, Dial, Dialed, DialFails, Truncated,
         Answered, ServFails, Invalidate, PassOver, Exchanging
  <2>2. attempt'[t] < 2 /\ LostOne(t)' = LostOne(t)
    BY <2>1 DEF Turns, LostOne
  <2>3. attempt[t] # 2
    BY <2>1 DEF Turns
  <2> QED BY <1>1, <2>1, <2>2, <2>3 DEF Turns
<1> QED BY <1>2, <1>3, <1>4

(* Upstreams are passed over one after the other, each with a reason.      *)
LEMMA PassedStep ==
  ASSUME TypeOK, Located, PassedBefore, NEW t \in Queries, Step(t)
  PROVE  PassedBefore'
<1>1. ASSUME NEW s \in Queries, s # t PROVE PassedOnes(s)'
  BY <1>1, Frame DEF PassedBefore, PassedOnes
<1>2. ASSUME NextUpstream(t), pc[t] # "done",
             \A u \in Upstreams :
               passed'[t][u] # "no" <=> u <= at[t]
      PROVE  PassedOnes(t)'
  <2>1. reply[t] = "none" /\ at[t] \in 0..UpstreamCount /\ UpstreamCount \in Nat
    BY <1>2, UpstreamAssumption DEF PassedBefore, PassedOnes, TypeOK
  <2>2. CASE at[t] < UpstreamCount
    <3>1. at'[t] = at[t] + 1 /\ reply'[t] = "none"
      BY <1>2, <2>1, <2>2, NextUpstreamEffect
    <3>2. \A u \in Upstreams : u <= at[t] <=> u < at'[t]
      BY <2>1, <3>1 DEF Upstreams
    <3> QED BY <1>2, <3>1, <3>2 DEF PassedOnes
  <2>3. CASE ~(at[t] < UpstreamCount)
    <3>1. at'[t] = at[t] /\ reply'[t] = "failed" /\ pc'[t] = "done"
          /\ at[t] = UpstreamCount
      BY <1>2, <2>3, NextUpstreamEffect
    <3>2. \A u \in Upstreams : u <= at[t] <=> u < at[t] \/ u = at[t]
      BY <2>1 DEF Upstreams
    <3> QED BY <1>2, <3>1, <3>2 DEF PassedOnes
  <2> QED BY <2>2, <2>3
<1>3. ASSUME NEW reason \in Reason \ {"no"}, PassOver(t, reason),
             pc[t] \notin {"idle", "done"}
      PROVE  PassedOnes(t)'
  <2>1. /\ at[t] \in Upstreams /\ reply[t] = "none"
        /\ passed'[t] = [passed[t] EXCEPT ![at[t]] = reason]
    BY <1>3
    DEF PassOver, Located, LocatedQuery, PassedBefore, PassedOnes, TypeOK
  <2>2. ASSUME NEW u \in Upstreams
        PROVE  passed'[t][u] # "no" <=> u <= at[t]
    <3>1. passed'[t][u] = IF u = at[t] THEN reason ELSE passed[t][u]
      BY <2>1 DEF TypeOK
    <3>2. passed[t][u] # "no" <=> u < at[t]
      BY <2>1 DEF PassedBefore, PassedOnes
    <3>3. u <= at[t] <=> u < at[t] \/ u = at[t]
      BY <2>1, UpstreamAssumption DEF Upstreams
    <3> QED BY <3>1, <3>2, <3>3
  <2> QED BY <1>2, <1>3, <2>2 DEF PassOver
<1>4. ASSUME Begin(t)
      PROVE  PassedOnes(t)'
  <2>1. at[t] = 0 /\ passed' = passed /\ reply[t] = "none"
    BY <1>4 DEF Begin, Located, LocatedQuery, PassedBefore, PassedOnes
  <2>2. \A u \in Upstreams : passed'[t][u] # "no" <=> u <= at[t]
    BY <2>1, UpstreamAssumption DEF Upstreams, PassedBefore, PassedOnes
  <2> QED BY <1>2, <1>4, <2>2 DEF Begin
<1>5. {"servfail", "undialable", "lost"} \subseteq Reason \ {"no"}
  BY DEF Reason
<1>6. ASSUME DialFails(t) \/ ServFails(t)
      PROVE  PassedOnes(t)'
  BY <1>3, <1>5, <1>6 DEF DialFails, ServFails, Exchanging
<1>7. ASSUME Invalidate(t) /\ attempt[t] = 2
      PROVE  PassedOnes(t)'
  BY <1>3, <1>5, <1>7 DEF Invalidate
<1>8. ASSUME Invalidate(t) /\ attempt[t] < 2
      PROVE  PassedOnes(t)'
  BY <1>8 DEF Invalidate, Goto, PassedBefore, PassedOnes, TypeOK
<1>9. ASSUME Answered(t)
      PROVE  PassedOnes(t)'
  BY <1>9 DEF Answered, Exchanging, Goto, PassedBefore, PassedOnes, TypeOK
<1>10. ASSUME Reuse(t) \/ Dial(t) \/ Dialed(t) \/ Truncated(t) \/ SendFails(t)
      PROVE  PassedOnes(t)'
  BY <1>10 DEF Reuse, Dial, Dialed, Truncated, SendFails, Exchanging, Goto,
               PassedBefore, PassedOnes, TypeOK
<1>11. PassedOnes(t)'
  BY <1>4, <1>6, <1>7, <1>8, <1>9, <1>10 DEF Step, Invalidate
<1> QED BY <1>1, <1>11 DEF PassedBefore

(* The part of GivesUpOnlyAfterTwo that is not about the order.            *)
TwoLost(t) ==
  \A u \in Upstreams : passed[t][u] = "lost" =>
    \E g, h \in 1..gen[u] :
      g # h /\ <<u, g>> \in lost[t] /\ <<u, h>> \in lost[t]

(* The reason "lost" is given after two different connections.             *)
LEMMA GivesUpStep ==
  ASSUME TypeOK, TypeOK', Located, LostBounds, Turns, PassedBefore',
         \A s \in Queries : TwoLost(s), NEW t \in Queries, Step(t)
  PROVE  \A s \in Queries : TwoLost(s)'
<1> SUFFICES ASSUME NEW s \in Queries, NEW u \in Upstreams,
                    passed'[s][u] = "lost"
             PROVE  \E g, h \in 1..gen'[u] :
                      /\ g # h
                      /\ <<u, g>> \in lost'[s] /\ <<u, h>> \in lost'[s]
  BY DEF TwoLost
<1>1. gen[u] \in Nat /\ gen'[u] \in Nat /\ gen'[u] >= gen[u]
  BY Grows DEF TypeOK
<1>2. lost[s] \subseteq lost'[s]
  BY Grows
<1>3. CASE passed[s][u] = "lost"
  <2>1. PICK g, h \in 1..gen[u] :
          g # h /\ <<u, g>> \in lost[s] /\ <<u, h>> \in lost[s]
    BY <1>3 DEF TwoLost
  <2>2. g \in 1..gen'[u] /\ h \in 1..gen'[u]
    BY <1>1, <2>1
  <2> QED BY <1>2, <2>1, <2>2
<1>4. CASE passed[s][u] # "lost"
  <2>1. s = t
    BY <1>4, Frame
  <2>2. Invalidate(t) /\ attempt[t] = 2 /\ u = at[t]
    <3>1. ASSUME NEW reason, PassOver(t, reason), passed'[t][u] = "lost",
                 passed[t][u] # "lost"
          PROVE  u = at[t] /\ reason = "lost"
      BY <3>1 DEF PassOver, TypeOK
    <3> QED
      BY <1>4, <2>1, <3>1
      DEF Step, Begin, Reuse, Dial, Dialed, DialFails, Truncated, Answered,
          ServFails, SendFails, Invalidate
  <2>3. PICK g \in Nat, h \in Nat :
          g # h /\ <<u, g>> \in lost[t] /\ <<u, h>> \in lost[t]
    BY <2>2 DEF Turns, LostTwo
  <2>4. g \in 1..gen[u] /\ h \in 1..gen[u]
    BY <2>3 DEF LostBounds, LostBounded
  <2> QED BY <1>1, <1>2, <2>1, <2>3, <2>4
<1> QED BY <1>3, <1>4

(* Every upstream is the last one or comes before it.                      *)
LEMMA LastUpstream ==
  \A u \in Upstreams : u < UpstreamCount \/ u = UpstreamCount
  BY UpstreamAssumption DEF Upstreams

(* The invariant holds initially.                                          *)
LEMMA InductiveInit == Init => IInv
<1> SUFFICES ASSUME Init PROVE IInv
  OBVIOUS
<1>1. TypeOK
  BY UpstreamAssumption DEF Init, TypeOK, Upstreams, PcValue, Reason
<1>2. DialingAlone /\ Located /\ LostBounds /\ LostNotKept
  BY DEF Init, DialingAlone, Located, LocatedQuery, LostBounds, LostBounded,
         LostNotKept, Exchanging
<1>3. RedialsOnlyTheLost /\ RetriesOnAnother /\ Turns
  BY DEF Init, RedialsOnlyTheLost, RetriesOnAnother, Turns, Exchanging
<1>4. PassedBefore
  <2>1. \A u \in Upstreams : ~(u < 0) /\ u # 0
    BY UpstreamAssumption DEF Upstreams
  <2> QED BY <2>1 DEF Init, PassedBefore, PassedOnes
<1>5. GivesUpOnlyAfterTwo
  BY DEF Init, GivesUpOnlyAfterTwo
<1> QED BY <1>1, <1>2, <1>3, <1>4, <1>5 DEF IInv

(* The invariant is inductive: one lemma above per conjunct.               *)
LEMMA InductiveStep == IInv /\ [Next]_vars => IInv'
<1> SUFFICES ASSUME IInv, [Next]_vars PROVE IInv'
  OBVIOUS
<1> USE DEF IInv
<1>1. TypeOK'
  BY TypeStep
<1>2. ASSUME NEW t \in Queries, Step(t) PROVE IInv'
  <2>1. DialingAlone' /\ Located' /\ LostBounds'
    BY <1>1, <1>2, DialingStep, LocatedStep, LostStep
  <2>2. RedialsOnlyTheLost' /\ RetriesOnAnother' /\ LostNotKept' /\ Turns'
    BY <1>1, <1>2, RedialStep, RetriesStep, KeptStep, TurnsStep
  <2>3. PassedBefore'
    BY <1>2, PassedStep
  <2>4. \A s \in Queries : TwoLost(s)'
    BY <1>1, <1>2, <2>3, GivesUpStep DEF GivesUpOnlyAfterTwo, TwoLost
  <2>5. GivesUpOnlyAfterTwo'
    BY <2>3, <2>4, LastUpstream
    DEF GivesUpOnlyAfterTwo, TwoLost, PassedBefore, PassedOnes
  <2> QED BY <1>1, <2>1, <2>2, <2>3, <2>5
<1>3. CASE UNCHANGED vars
  <2> USE <1>3 DEF vars
  <2>1. DialingAlone' /\ Located' /\ LostBounds' /\ LostNotKept'
    BY DEF DialingAlone, Located, LocatedQuery, LostBounds, LostBounded,
           LostNotKept, Exchanging
  <2>2. RedialsOnlyTheLost' /\ RetriesOnAnother'
    BY DEF RedialsOnlyTheLost, LostBySome, RetriesOnAnother, Exchanging
  <2>3. Turns' /\ PassedBefore' /\ GivesUpOnlyAfterTwo'
    BY DEF Turns, LostOne, LostTwo, PassedBefore, PassedOnes,
           GivesUpOnlyAfterTwo
  <2> QED BY <1>1, <2>1, <2>2, <2>3
<1> QED BY <1>2, <1>3 DEF Next

(* The strengthened invariant, of which the results below are parts.       *)
THEOREM Inductive == Spec => []IInv
  BY InductiveInit, InductiveStep, PTL DEF Spec
-------------------------------------------------------------------------------
(* Every variable of the upstreams keeps its type.                         *)
THEOREM TypeCorrect == Spec => []TypeOK
  BY Inductive, PTL DEF IInv

(* The mutex of an upstream lets one query at a time dial it.              *)
THEOREM DialsOneAtATime == Spec => []DialingAlone
  BY Inductive, PTL DEF IInv

(* A burst of failures on one connection costs one redial, and a failure   *)
(* of an old connection never costs the new one, for any number of queries.*)
THEOREM SingleRedial == Spec => []RedialsOnlyTheLost
  BY Inductive, PTL DEF IInv

(* The second turn of Upstream::resolve is never spent on the connection   *)
(* that failed the first.                                                  *)
THEOREM SecondTurnIsFresh == Spec => []RetriesOnAnother
  BY Inductive, PTL DEF IInv

(* A query is failed only when each upstream gave it a reason to go on,    *)
(* and a lost connection is one only the second time.                      *)
THEOREM FailureIsEarned == Spec => []GivesUpOnlyAfterTwo
  BY Inductive, PTL DEF IInv
===============================================================================
