------------------------------ MODULE QueryLog_proof --------------------------
(***************************************************************************)
(* What the query log and its pages guarantee for any number of requests,  *)
(* pages, and any sizes of the ring, the channel and the page.             *)
(*                                                                         *)
(* RingInv relates the ring, position by position, to the end of the       *)
(* history of pushes, PageInv a page's rows and positions to what its      *)
(* subscription was sent, and AccountInv the rows, and what they lack, to  *)
(* the moment the page was rendered, over all its subscriptions since;     *)
(* HistoryInv is what makes the position of an entry unique.               *)
(***************************************************************************)
EXTENDS QueryLog, SequenceTheorems, TLAPS

RingInv ==
  /\ pc \in [Requests -> {"new", "pushed", "sent"}]
  /\ buf \in Seq(Requests) /\ pushed \in Seq(Requests)
  /\ sent \in Seq(Requests)
  /\ Len(buf) <= Limit /\ Len(buf) <= Len(pushed)
  /\ Len(buf) = Limit \/ Len(buf) = Len(pushed)
  /\ \A i \in 1..Len(buf) : buf[i] = pushed[Len(pushed) - Len(buf) + i]
  /\ \A q \in Requests :
       pc[q] # "new" => \E i \in 1..Len(pushed) : pushed[i] = q
  /\ \A i \in 1..Len(sent) : pc[sent[i]] # "new"

(* QueryLog::new leaves room for an entry.                                 *)
LEMMA LimitIsPositive == Limit \in Nat \ {0}
BY QueryLogAssumption DEF Limit

(* The oldest entry that the channel has is one that was sent, or will be  *)
(* the next.                                                               *)
LEMMA OldestIsTyped ==
  ASSUME sent \in Seq(Requests)
  PROVE  Oldest \in 1..Len(sent) + 1
BY QueryLogAssumption DEF Oldest

(* The ring displaces its oldest entry only when it is full.               *)
LEMMA DisplacedIsTail ==
  ASSUME RingInv
  PROVE  /\ Displaced \in Seq(Requests)
         /\ Len(Displaced) =
              IF Len(buf) = Limit THEN Len(buf) - 1 ELSE Len(buf)
         /\ \A i \in 1..Len(Displaced) :
              Displaced[i] = pushed[Len(pushed) - Len(Displaced) + i]
<1>1. CASE Len(buf) = Limit
  <2>1. buf # <<>> /\ buf \in Seq(Requests)
    BY <1>1, LimitIsPositive DEF RingInv
  <2>2. /\ Tail(buf) \in Seq(Requests)
        /\ Len(Tail(buf)) = Len(buf) - 1
        /\ \A i \in 1..Len(Tail(buf)) : Tail(buf)[i] = buf[i + 1]
    BY <2>1, HeadTailProperties
  <2>3. \A i \in 1..Len(Tail(buf)) :
          buf[i + 1] = pushed[Len(pushed) - Len(buf) + (i + 1)]
    BY <2>1, <2>2 DEF RingInv
  <2>4. \A i \in 1..Len(Tail(buf)) :
          Len(pushed) - Len(buf) + (i + 1)
            = Len(pushed) - Len(Tail(buf)) + i
    BY <2>1, <2>2 DEF RingInv
  <2>5. Displaced = Tail(buf)
    BY <1>1 DEF Displaced
  <2> QED
    BY <1>1, <2>2, <2>3, <2>4, <2>5
<1>2. CASE Len(buf) # Limit
  BY <1>2 DEF RingInv, Displaced
<1> QED
  BY <1>1, <1>2

(* A new log is empty.                                                     *)
LEMMA RingBegins == Init => RingInv
BY LimitIsPositive DEF Init, RingInv

(* record under the lock: the entry is the last of both, the ring and the  *)
(* history.                                                                *)
LEMMA PushKeepsRing ==
  ASSUME RingInv, NEW q \in Requests, Push(q)
  PROVE  RingInv'
<1>1. /\ Displaced \in Seq(Requests)
      /\ Len(Displaced) = IF Len(buf) = Limit THEN Len(buf) - 1 ELSE Len(buf)
      /\ \A i \in 1..Len(Displaced) :
           Displaced[i] = pushed[Len(pushed) - Len(Displaced) + i]
  BY DisplacedIsTail
<1>2. /\ buf' = Append(Displaced, q) /\ pushed' = Append(pushed, q)
      /\ pc' = [pc EXCEPT ![q] = "pushed"] /\ sent' = sent
  BY DEF Push
<1>3. /\ buf \in Seq(Requests) /\ pushed \in Seq(Requests)
      /\ Len(buf) \in Nat /\ Len(pushed) \in Nat
      /\ Len(buf) <= Limit /\ Len(buf) <= Len(pushed)
      /\ Len(buf) = Limit \/ Len(buf) = Len(pushed)
  BY DEF RingInv
<1>4. /\ buf' \in Seq(Requests) /\ Len(buf') = Len(Displaced) + 1
      /\ buf'[Len(buf')] = q
      /\ \A i \in 1..Len(Displaced) : buf'[i] = Displaced[i]
  BY <1>1, <1>2, AppendProperties
<1>5. /\ pushed' \in Seq(Requests) /\ Len(pushed') = Len(pushed) + 1
      /\ pushed'[Len(pushed')] = q
      /\ \A i \in 1..Len(pushed) : pushed'[i] = pushed[i]
  BY <1>2, <1>3, AppendProperties
<1>6. /\ Len(buf') <= Limit /\ Len(buf') <= Len(pushed')
      /\ Len(buf') = Limit \/ Len(buf') = Len(pushed')
  BY <1>1, <1>3, <1>4, <1>5, LimitIsPositive
<1>7. ASSUME NEW i \in 1..Len(buf')
      PROVE  buf'[i] = pushed'[Len(pushed') - Len(buf') + i]
  <2>1. CASE i = Len(buf')
    <3>1. Len(buf') \in Nat /\ Len(pushed') \in Nat
      BY <1>4, <1>5, LenProperties
    <3>2. Len(pushed') - Len(buf') + i = Len(pushed')
      BY <2>1, <3>1
    <3> QED
      BY <1>4, <1>5, <2>1, <3>2
  <2>2. CASE i # Len(buf')
    <3>1. i \in 1..Len(Displaced)
      BY <1>1, <1>4, <2>2
    <3>2. Len(pushed') - Len(buf') + i = Len(pushed) - Len(Displaced) + i
          /\ Len(pushed) - Len(Displaced) + i \in 1..Len(pushed)
      BY <1>1, <1>3, <1>4, <1>5, <3>1
    <3> QED
      BY <1>1, <1>4, <1>5, <3>1, <3>2
  <2> QED
    BY <2>1, <2>2
<1>8. ASSUME NEW r \in Requests, pc'[r] # "new"
      PROVE  \E i \in 1..Len(pushed') : pushed'[i] = r
  <2>1. CASE r = q
    BY <1>3, <1>5, <2>1
  <2>2. CASE r # q
    <3>1. PICK i \in 1..Len(pushed) : pushed[i] = r
      BY <1>2, <1>8, <2>2 DEF RingInv
    <3> QED
      BY <1>3, <1>5, <3>1
  <2> QED
    BY <2>1, <2>2
<1>9. \A i \in 1..Len(sent) : pc'[sent[i]] # "new"
  BY <1>2 DEF RingInv
<1> QED
  BY <1>2, <1>4, <1>5, <1>6, <1>7, <1>8, <1>9 DEF RingInv

(* record behind the lock: only what was pushed is sent.                   *)
LEMMA SendKeepsRing ==
  ASSUME RingInv, NEW q \in Requests, Send(q)
  PROVE  RingInv'
<1>1. /\ pc[q] = "pushed" /\ sent' = Append(sent, q)
      /\ pc' = [pc EXCEPT ![q] = "sent"] /\ UNCHANGED <<buf, pushed>>
  BY DEF Send
<1>2. /\ sent' \in Seq(Requests) /\ Len(sent') = Len(sent) + 1
      /\ sent'[Len(sent')] = q
      /\ \A i \in 1..Len(sent) : sent'[i] = sent[i]
  BY <1>1, AppendProperties DEF RingInv
<1>3. \A i \in 1..Len(sent') : i \in 1..Len(sent) \/ i = Len(sent')
  BY <1>2 DEF RingInv
<1>4. \A i \in 1..Len(sent) : sent[i] \in Requests
  BY DEF RingInv
<1>5. \A i \in 1..Len(sent') : pc'[sent'[i]] # "new"
  BY <1>1, <1>2, <1>3, <1>4 DEF RingInv
<1>6. \A r \in Requests : pc'[r] # "new" => pc[r] # "new"
  BY <1>1 DEF RingInv
<1> QED
  BY <1>1, <1>2, <1>5, <1>6, LimitIsPositive DEF RingInv

(* The pages read the log and do not write to it.                          *)
LEMMA PagesKeepRing ==
  ASSUME RingInv, UNCHANGED logVars
  PROVE  RingInv'
BY LimitIsPositive DEF RingInv, logVars

(* Every step keeps the ring what it is said to be.                        *)
LEMMA NextKeepsRing ==
  ASSUME RingInv, [Next]_vars
  PROVE  RingInv'
<1>1. ASSUME NEW q \in Requests, Push(q)
      PROVE  RingInv'
  BY <1>1, PushKeepsRing
<1>2. ASSUME NEW q \in Requests, Send(q)
      PROVE  RingInv'
  BY <1>2, SendKeepsRing
<1>3. ASSUME NEW v \in Viewers,
             Render(v) \/ Subscribe(v) \/ Disconnect(v) \/ Lag(v) \/ Deliver(v)
      PROVE  RingInv'
  <2>1. UNCHANGED logVars
    BY <1>3 DEF Render, Subscribe, Disconnect, Lag, Deliver
  <2> QED
    BY <2>1, PagesKeepRing
<1>4. CASE UNCHANGED vars
  BY <1>4, PagesKeepRing DEF vars
<1> QED
  BY <1>1, <1>2, <1>3, <1>4 DEF Next

(* Sequences that agree from their ends on, as far as the shorter reaches. *)
LEMMA SuffixByPosition ==
  ASSUME NEW S, NEW s \in Seq(S), NEW t \in Seq(S), Len(s) <= Len(t),
         \A i \in 1..Len(s) : s[i] = t[Len(t) - Len(s) + i]
  PROVE  IsSuffix(s, t)
<1> DEFINE rs == Reverse(s)
           rt == Reverse(t)
<1>1. Len(s) \in Nat /\ Len(t) \in Nat
  BY LenProperties
<1>2. /\ rs \in Seq(S) /\ Len(rs) = Len(s)
      /\ \A i \in 1..Len(s) : rs[i] = s[Len(s) - i + 1]
  BY <1>1 DEF Reverse
<1>3. /\ rt \in Seq(S) /\ Len(rt) = Len(t)
      /\ \A i \in 1..Len(t) : rt[i] = t[Len(t) - i + 1]
  BY <1>1 DEF Reverse
<1>4. ASSUME NEW i \in 1..Len(s)
      PROVE  rs[i] = rt[i]
  <2>1. Len(s) - i + 1 \in 1..Len(s) /\ i \in 1..Len(t)
    BY <1>1
  <2>2. Len(t) - Len(s) + (Len(s) - i + 1) = Len(t) - i + 1
    BY <1>1
  <2> QED
    BY <1>2, <1>3, <2>1, <2>2
<1>5. rs = SubSeq(rt, 1, Len(rs))
  <2> HIDE DEF rs, rt
  <2>1. /\ SubSeq(rt, 1, Len(rs)) \in Seq(S)
        /\ Len(SubSeq(rt, 1, Len(rs))) = Len(s)
        /\ \A i \in 1..Len(s) : SubSeq(rt, 1, Len(rs))[i] = rt[i]
    BY <1>1, <1>2, <1>3
  <2> QED
    BY <1>1, <1>2, <1>4, <2>1, SeqEqual
<1> QED
  BY <1>1, <1>2, <1>3, <1>5 DEF IsSuffix, IsPrefix

(* The invariant of the ring, on every behaviour.                          *)
LEMMA RingInvHolds == Spec => []RingInv
<1>1. Init => RingInv
  BY RingBegins
<1>2. RingInv /\ [Next]_vars => RingInv'
  BY NextKeepsRing
<1> QED
  BY <1>1, <1>2, PTL DEF Spec

(* For any number of requests and any configured size: the ring holds the  *)
(* entries that QueryLog::record pushed last, in order, as many as there   *)
(* is room for, and whatever is streamed has been in it.                   *)
THEOREM RingIsDurable == Spec => []RingHoldsTheLatest
<1>1. RingInv => RingHoldsTheLatest
  <2> SUFFICES ASSUME RingInv
               PROVE  RingHoldsTheLatest
    OBVIOUS
  <2>1. buf \in Seq(Requests) /\ pushed \in Seq(Requests)
    BY DEF RingInv
  <2>2. IsSuffix(buf, pushed)
    BY <2>1, SuffixByPosition DEF RingInv
  <2>3. Len(buf) = Len(pushed) => buf = pushed
    <3>1. Len(buf) = Len(pushed) =>
            \A i \in 1..Len(buf) : Len(pushed) - Len(buf) + i = i
      BY <2>1, LenProperties
    <3> QED
      BY <2>1, <3>1, SeqEqual DEF RingInv
  <2>4. ToSet(sent) \subseteq ToSet(pushed)
    <3>1. DOMAIN sent = 1..Len(sent) /\ DOMAIN pushed = 1..Len(pushed)
      BY DEF RingInv
    <3>2. \A i \in 1..Len(sent) :
            sent[i] \in Requests /\ pc[sent[i]] # "new"
      BY DEF RingInv
    <3>3. \A i \in 1..Len(sent) :
            \E j \in 1..Len(pushed) : pushed[j] = sent[i]
      BY <3>2 DEF RingInv
    <3> QED
      BY <3>1, <3>3 DEF ToSet
  <2> QED
    BY <2>2, <2>3, <2>4 DEF RingInv, RingHoldsTheLatest
<1> QED
  BY <1>1, RingInvHolds, PTL
-------------------------------------------------------------------------------
PageTypes ==
  /\ page \in [Viewers -> {"closed", "rendered", "live"}]
  /\ rows \in [Viewers -> Seq(Requests)]
  /\ cursor \in [Viewers -> Nat] /\ since \in [Viewers -> Nat]
  /\ streamed \in [Viewers -> Seq(Nat)]
  /\ skipped \in [Viewers -> SUBSET Nat]

(* What a subscription has passed, it was sent or had lost.                *)
Positions(v) ==
  /\ \A i, j \in 1..Len(streamed[v]) :
       i < j => streamed[v][i] < streamed[v][j]
  /\ page[v] = "live" =>
       /\ 1 <= since[v] /\ since[v] <= cursor[v] /\ cursor[v] <= Len(sent) + 1
       /\ \A i \in 1..Len(streamed[v]) : streamed[v][i] \in 1..cursor[v] - 1
       /\ \A p \in skipped[v] : p < Oldest
       /\ since[v]..cursor[v] - 1 = ToSet(streamed[v]) \cup skipped[v]

(* The page's rows, from the top: what it was sent, from the end.          *)
RowsInv(v) ==
  page[v] = "live" =>
    \A i \in 1..Len(streamed[v]) : i <= MaxRows =>
      /\ i <= Len(rows[v])
      /\ rows[v][i] = sent[streamed[v][Len(streamed[v]) + 1 - i]]

PageInv ==
  /\ sent \in Seq(Requests)
  /\ PageTypes
  /\ \A v \in Viewers : Positions(v) /\ RowsInv(v)

(* No page is open at first.                                               *)
LEMMA PagesBegin == Init => PageInv
<1> SUFFICES ASSUME Init
             PROVE  PageInv
  OBVIOUS
<1>1. sent \in Seq(Requests) /\ PageTypes
  BY DEF Init, PageTypes
<1>2. ASSUME NEW v \in Viewers
      PROVE  Positions(v) /\ RowsInv(v)
  <2>1. page[v] # "live" /\ streamed[v] = <<>>
    BY DEF Init
  <2> QED
    BY <2>1 DEF Positions, RowsInv
<1> QED
  BY <1>1, <1>2 DEF PageInv

(* What the log does, and what other pages do, leaves a page as it is.     *)
LEMMA LeavesPageAlone ==
  ASSUME PageInv, NEW v \in Viewers, sent' \in Seq(Requests),
         Len(sent) <= Len(sent'),
         \A p \in 1..Len(sent) : sent'[p] = sent[p],
         page'[v] = page[v], rows'[v] = rows[v], cursor'[v] = cursor[v],
         since'[v] = since[v], streamed'[v] = streamed[v],
         skipped'[v] = skipped[v]
  PROVE  Positions(v)' /\ RowsInv(v)'
<1>1. Positions(v) /\ RowsInv(v) /\ sent \in Seq(Requests)
  BY DEF PageInv
<1>2. /\ cursor[v] \in Nat /\ since[v] \in Nat /\ skipped[v] \in SUBSET Nat
      /\ streamed[v] \in Seq(Nat) /\ rows[v] \in Seq(Requests)
  BY DEF PageInv, PageTypes
<1>3. Len(sent) \in Nat /\ Len(sent') \in Nat
  BY <1>1, LenProperties
<1>4. Oldest \in Nat /\ Oldest' \in Nat /\ Oldest <= Oldest'
  BY <1>3, QueryLogAssumption DEF Oldest
<1>5. Positions(v)'
  BY <1>1, <1>2, <1>3, <1>4 DEF Positions
<1>6. RowsInv(v)'
  <2> SUFFICES ASSUME page[v] = "live", NEW i \in 1..Len(streamed[v]),
                      i <= MaxRows
               PROVE  /\ i <= Len(rows[v])
                      /\ rows[v][i]
                           = sent'[streamed[v][Len(streamed[v]) + 1 - i]]
    BY DEF RowsInv
  <2>1. /\ i <= Len(rows[v])
        /\ rows[v][i] = sent[streamed[v][Len(streamed[v]) + 1 - i]]
    BY <1>1 DEF RowsInv
  <2>2. Len(streamed[v]) + 1 - i \in 1..Len(streamed[v])
    BY <1>2, LenProperties
  <2>3. /\ cursor[v] <= Len(sent) + 1
        /\ \A k \in 1..Len(streamed[v]) : streamed[v][k] \in 1..cursor[v] - 1
    BY <1>1 DEF Positions
  <2>4. 1..cursor[v] - 1 \subseteq 1..Len(sent)
    BY <1>2, <1>3, <2>3
  <2>5. streamed[v][Len(streamed[v]) + 1 - i] \in 1..Len(sent)
    BY <2>2, <2>3, <2>4
  <2> QED
    BY <2>1, <2>5
<1> QED
  BY <1>5, <1>6

(* An entry that is recorded changes no page.                              *)
LEMMA LogKeepsPages ==
  ASSUME PageInv, NEW q \in Requests, Push(q) \/ Send(q)
  PROVE  PageInv'
<1>1. sent \in Seq(Requests) /\ PageTypes
  BY DEF PageInv
<1>2. sent' = sent \/ sent' = Append(sent, q)
  BY DEF Push, Send
<1>3. UNCHANGED pageVars
  BY DEF Push, Send
<1>4. /\ sent' \in Seq(Requests) /\ Len(sent) <= Len(sent')
      /\ \A p \in 1..Len(sent) : sent'[p] = sent[p]
  BY <1>1, <1>2, AppendProperties, LenProperties
<1>5. \A v \in Viewers : Positions(v)' /\ RowsInv(v)'
  BY <1>3, <1>4, LeavesPageAlone DEF pageVars
<1>6. PageTypes'
  BY <1>1, <1>3 DEF pageVars, PageTypes
<1> QED
  BY <1>4, <1>5, <1>6 DEF PageInv

(* A new subscription has passed nothing and owes nothing.                 *)
LEMMA SubscribeKeepsPage ==
  ASSUME PageInv, NEW v \in Viewers, Subscribe(v)
  PROVE  Positions(v)' /\ RowsInv(v)'
<1>1. /\ sent \in Seq(Requests) /\ sent' = sent
      /\ streamed'[v] = <<>> /\ skipped'[v] = {}
      /\ since'[v] = Len(sent) + 1 /\ cursor'[v] = Len(sent) + 1
  BY DEF Subscribe, First, PageInv, PageTypes, logVars
<1>2. Len(sent) \in Nat
  BY <1>1, LenProperties
<1>3. /\ ToSet(streamed'[v]) = {} /\ since'[v]..cursor'[v] - 1 = {}
      /\ 1..Len(streamed'[v]) = {}
  BY <1>1, <1>2 DEF ToSet
<1>4. /\ 1 <= since'[v] /\ since'[v] <= cursor'[v]
      /\ cursor'[v] <= Len(sent') + 1
  BY <1>1, <1>2
<1>5. Positions(v)'
  BY <1>1, <1>3, <1>4 DEF Positions
<1>6. RowsInv(v)'
  BY <1>3 DEF RowsInv
<1> QED
  BY <1>5, <1>6

(* A lag passes what the channel has lost, and nothing it still has.       *)
LEMMA LagKeepsPage ==
  ASSUME PageInv, NEW v \in Viewers, Lag(v)
  PROVE  Positions(v)' /\ RowsInv(v)'
<1>1. /\ page[v] = "live" /\ cursor[v] < Oldest /\ page' = page
      /\ skipped'[v] = skipped[v] \cup cursor[v]..Oldest - 1
      /\ cursor'[v] = Oldest
      /\ sent' = sent /\ rows' = rows /\ since' = since
      /\ streamed' = streamed
  BY DEF Lag, Lagging, Resumption, PageInv, PageTypes, logVars
<1>2. /\ cursor[v] \in Nat /\ since[v] \in Nat /\ skipped[v] \in SUBSET Nat
      /\ streamed[v] \in Seq(Nat) /\ sent \in Seq(Requests)
      /\ Len(sent) \in Nat
  BY LenProperties DEF PageInv, PageTypes
<1>3. Oldest \in 1..Len(sent) + 1 /\ Oldest' = Oldest
  BY <1>1, <1>2, OldestIsTyped DEF Oldest
<1>4. Positions(v) /\ RowsInv(v)
  BY DEF PageInv
<1>5. since[v]..Oldest - 1
        = (since[v]..cursor[v] - 1) \cup (cursor[v]..Oldest - 1)
  BY <1>1, <1>2, <1>3, <1>4 DEF Positions
<1>6. since'[v]..cursor'[v] - 1 = ToSet(streamed'[v]) \cup skipped'[v]
  BY <1>1, <1>4, <1>5 DEF Positions
<1>7. \A p \in skipped'[v] : p < Oldest'
  BY <1>1, <1>2, <1>3, <1>4 DEF Positions
<1>8. \A i \in 1..Len(streamed'[v]) : streamed'[v][i] \in 1..cursor'[v] - 1
  BY <1>1, <1>2, <1>3, <1>4 DEF Positions
<1>9. /\ 1 <= since'[v] /\ since'[v] <= cursor'[v]
      /\ cursor'[v] <= Len(sent') + 1
  BY <1>1, <1>2, <1>3, <1>4 DEF Positions
<1>10. Positions(v)'
  BY <1>1, <1>4, <1>6, <1>7, <1>8, <1>9 DEF Positions
<1>11. RowsInv(v)'
  BY <1>1, <1>4 DEF RowsInv
<1> QED
  BY <1>10, <1>11

(* The new row is the topmost, and the others have moved down by one.      *)
LEMMA ToppedRows ==
  ASSUME NEW v \in Viewers, rows[v] \in Seq(Requests), NEW e \in Requests
  PROVE  /\ Topped(v, e) \in Seq(Requests)
         /\ Len(Topped(v, e)) = IF Len(rows[v]) + 1 > MaxRows THEN MaxRows
                               ELSE Len(rows[v]) + 1
         /\ \A i \in Nat \ {0} : i <= MaxRows /\ i <= Len(rows[v]) + 1 =>
              /\ i <= Len(Topped(v, e))
              /\ Topped(v, e)[i] = IF i = 1 THEN e ELSE rows[v][i - 1]
<1> DEFINE grown == <<e>> \o rows[v]
<1>1. /\ <<e>> \in Seq(Requests) /\ Len(<<e>>) = 1 /\ <<e>>[1] = e
      /\ Len(rows[v]) \in Nat /\ MaxRows \in Nat \ {0}
  BY QueryLogAssumption, LenProperties
<1>2. /\ grown \in Seq(Requests) /\ Len(grown) = Len(rows[v]) + 1
      /\ \A i \in 1..Len(grown) :
           grown[i] = IF i = 1 THEN e ELSE rows[v][i - 1]
  BY <1>1, ConcatProperties
<1>3. Topped(v, e)
        = IF Len(grown) > MaxRows THEN SubSeq(grown, 1, MaxRows) ELSE grown
  BY DEF Topped
<1> HIDE DEF grown
<1>4. CASE Len(grown) > MaxRows
  <2>1. /\ SubSeq(grown, 1, MaxRows) \in Seq(Requests)
        /\ Len(SubSeq(grown, 1, MaxRows)) = MaxRows
        /\ \A i \in 1..MaxRows : SubSeq(grown, 1, MaxRows)[i] = grown[i]
    BY <1>1, <1>2, <1>4
  <2> QED
    BY <1>1, <1>2, <1>3, <1>4, <2>1
<1>5. CASE ~(Len(grown) > MaxRows)
  BY <1>1, <1>2, <1>3, <1>5
<1> QED
  BY <1>4, <1>5

(* A growing sequence grows on with a number above all it has.             *)
LEMMA GrowsOn ==
  ASSUME NEW s \in Seq(Nat), NEW n \in Nat \ {0},
         \A i, j \in 1..Len(s) : i < j => s[i] < s[j],
         \A i \in 1..Len(s) : s[i] \in 1..n - 1
  PROVE  /\ \A i, j \in 1..Len(Append(s, n)) :
              i < j => Append(s, n)[i] < Append(s, n)[j]
         /\ \A i \in 1..Len(Append(s, n)) : Append(s, n)[i] \in 1..n
         /\ ToSet(Append(s, n)) = ToSet(s) \cup {n}
<1>1. /\ Append(s, n) \in Seq(Nat) /\ Len(Append(s, n)) = Len(s) + 1
      /\ Append(s, n)[Len(s) + 1] = n
      /\ \A i \in 1..Len(s) : Append(s, n)[i] = s[i]
  BY AppendProperties
<1>2. Len(s) \in Nat
  BY LenProperties
<1>3. \A i \in 1..Len(s) + 1 : i \in 1..Len(s) \/ i = Len(s) + 1
  BY <1>2
<1>4. /\ DOMAIN s = 1..Len(s) /\ DOMAIN Append(s, n) = 1..Len(s) + 1
  BY <1>1, LenProperties
<1> DEFINE t == Append(s, n)
<1> HIDE DEF t
<1>5. /\ Len(t) = Len(s) + 1 /\ t[Len(s) + 1] = n
      /\ \A i \in 1..Len(s) : t[i] = s[i]
      /\ DOMAIN t = 1..Len(s) + 1
  BY <1>1, <1>4 DEF t
<1>6. ASSUME NEW i \in 1..Len(t), NEW j \in 1..Len(t), i < j
      PROVE  t[i] < t[j]
  <2>1. i \in 1..Len(s)
    BY <1>2, <1>5, <1>6
  <2>2. CASE j \in 1..Len(s)
    BY <1>5, <1>6, <2>1, <2>2
  <2>3. CASE j = Len(s) + 1
    <3>1. s[i] \in 1..n - 1
      BY <2>1
    <3> QED
      BY <1>5, <2>1, <2>3, <3>1
  <2> QED
    BY <1>3, <1>5, <2>2, <2>3
<1>7. ASSUME NEW i \in 1..Len(t)
      PROVE  t[i] \in 1..n
  <2>1. CASE i \in 1..Len(s)
    <3>1. s[i] \in 1..n - 1
      BY <2>1
    <3> QED
      BY <1>5, <2>1, <3>1
  <2>2. CASE i = Len(s) + 1
    BY <1>5, <2>2
  <2> QED
    BY <1>3, <1>5, <2>1, <2>2
<1>8. ToSet(t) = ToSet(s) \cup {n}
  <2>1. Len(s) + 1 \in 1..Len(s) + 1 /\ 1..Len(s) \subseteq 1..Len(s) + 1
    BY <1>2
  <2>2. ASSUME NEW x \in ToSet(t)
        PROVE  x \in ToSet(s) \cup {n}
    BY <1>3, <1>4, <1>5 DEF ToSet
  <2>3. ASSUME NEW x \in ToSet(s) \cup {n}
        PROVE  x \in ToSet(t)
    BY <1>4, <1>5, <2>1 DEF ToSet
  <2> QED
    BY <2>2, <2>3
<1> QED
  BY <1>6, <1>7, <1>8 DEF t

(* A delivery passes the one entry it streams, and puts it on top.         *)
LEMMA DeliverKeepsPage ==
  ASSUME PageInv, NEW v \in Viewers, Deliver(v)
  PROVE  Positions(v)' /\ RowsInv(v)'
<1>1. /\ page[v] = "live" /\ page' = page /\ cursor[v] <= Len(sent)
      /\ rows'[v] = Topped(v, sent[cursor[v]])
      /\ streamed'[v] = Append(streamed[v], cursor[v])
      /\ cursor'[v] = cursor[v] + 1
      /\ sent' = sent /\ since' = since /\ skipped' = skipped
  BY DEF Deliver, PageInv, PageTypes, logVars
<1>2. /\ cursor[v] \in Nat /\ since[v] \in Nat /\ skipped[v] \in SUBSET Nat
      /\ streamed[v] \in Seq(Nat) /\ rows[v] \in Seq(Requests)
      /\ sent \in Seq(Requests)
      /\ Len(sent) \in Nat /\ Len(streamed[v]) \in Nat
  BY LenProperties DEF PageInv, PageTypes
<1>3. Positions(v) /\ RowsInv(v)
  BY DEF PageInv
<1>4. /\ streamed'[v] \in Seq(Nat)
      /\ Len(streamed'[v]) = Len(streamed[v]) + 1
      /\ streamed'[v][Len(streamed'[v])] = cursor[v]
      /\ \A i \in 1..Len(streamed[v]) : streamed'[v][i] = streamed[v][i]
  BY <1>1, <1>2, AppendProperties
<1>5. \A i \in 1..Len(streamed[v]) : streamed[v][i] \in 1..cursor[v] - 1
  BY <1>1, <1>3 DEF Positions
<1>6. /\ 1 <= since[v] /\ since[v] <= cursor[v]
      /\ since[v]..cursor[v] - 1 = ToSet(streamed[v]) \cup skipped[v]
      /\ \A i, j \in 1..Len(streamed[v]) :
           i < j => streamed[v][i] < streamed[v][j]
      /\ \A p \in skipped[v] : p < Oldest
  BY <1>1, <1>3 DEF Positions
<1>7. Positions(v)'
  <2>1. /\ \A i, j \in 1..Len(streamed'[v]) :
             i < j => streamed'[v][i] < streamed'[v][j]
        /\ \A i \in 1..Len(streamed'[v]) : streamed'[v][i] \in 1..cursor[v]
        /\ ToSet(streamed'[v]) = ToSet(streamed[v]) \cup {cursor[v]}
    <3>1. cursor[v] \in Nat \ {0}
      BY <1>2, <1>6
    <3> QED
      BY <1>1, <1>2, <1>5, <1>6, <3>1, GrowsOn
  <2>2. cursor'[v] - 1 = cursor[v]
    BY <1>1, <1>2
  <2>4. since[v]..cursor'[v] - 1
          = (since[v]..cursor[v] - 1) \cup {cursor[v]}
    BY <1>1, <1>2, <1>6
  <2>5. since'[v]..cursor'[v] - 1 = ToSet(streamed'[v]) \cup skipped'[v]
    BY <1>1, <1>6, <2>1, <2>4
  <2>6. Oldest' = Oldest
    BY <1>1 DEF Oldest
  <2>7. /\ 1 <= since'[v] /\ since'[v] <= cursor'[v]
        /\ cursor'[v] <= Len(sent') + 1
    BY <1>1, <1>2, <1>6
  <2>8. \A p \in skipped'[v] : p < Oldest'
    BY <1>1, <1>6, <2>6
  <2> QED
    BY <2>1, <2>2, <2>5, <2>7, <2>8 DEF Positions
<1>8. RowsInv(v)'
  <2>1. sent[cursor[v]] \in Requests
    BY <1>1, <1>2, <1>6
  <2>2. \A i \in Nat \ {0} : i <= MaxRows /\ i <= Len(rows[v]) + 1 =>
          /\ i <= Len(rows'[v])
          /\ rows'[v][i] = IF i = 1 THEN sent[cursor[v]] ELSE rows[v][i - 1]
    <3>1. rows[v] \in Seq(Requests)
      BY <1>2
    <3>2. \A i \in Nat \ {0} : i <= MaxRows /\ i <= Len(rows[v]) + 1 =>
            /\ i <= Len(Topped(v, sent[cursor[v]]))
            /\ Topped(v, sent[cursor[v]])[i]
                 = IF i = 1 THEN sent[cursor[v]] ELSE rows[v][i - 1]
      BY <2>1, <3>1, ToppedRows
    <3>3. rows'[v] = Topped(v, sent[cursor[v]])
      BY <1>1
    <3> HIDE DEF Topped
    <3> QED
      BY <3>2, <3>3, Zenon
  <2> SUFFICES ASSUME NEW i \in 1..Len(streamed'[v]), i <= MaxRows
               PROVE  /\ i <= Len(rows'[v])
                      /\ rows'[v][i]
                           = sent[streamed'[v][Len(streamed'[v]) + 1 - i]]
    BY <1>1 DEF RowsInv
  <2>3. CASE i = 1
    <3>1. Len(streamed'[v]) + 1 - i = Len(streamed'[v])
      BY <1>2, <1>4, <2>3
    <3>2. i \in Nat \ {0} /\ i <= Len(rows[v]) + 1
      BY <1>2, <2>3, LenProperties
    <3>3. i <= Len(rows'[v]) /\ rows'[v][i] = sent[cursor[v]]
      BY <2>2, <2>3, <3>2
    <3> QED
      BY <1>4, <3>1, <3>3, Zenon
  <2>4. CASE i # 1
    <3>1. i - 1 \in 1..Len(streamed[v]) /\ i - 1 <= MaxRows
      BY <1>2, <1>4, <2>4, QueryLogAssumption
    <3>2. /\ i - 1 <= Len(rows[v])
          /\ rows[v][i - 1] = sent[streamed[v][Len(streamed[v]) + 1 - (i - 1)]]
      BY <1>1, <1>3, <3>1 DEF RowsInv
    <3>3. /\ Len(streamed'[v]) + 1 - i = Len(streamed[v]) + 1 - (i - 1)
          /\ Len(streamed[v]) + 1 - (i - 1) \in 1..Len(streamed[v])
      BY <1>2, <1>4, <3>1
    <3>4. i <= Len(rows'[v]) /\ rows'[v][i] = rows[v][i - 1]
      <4>1. i \in Nat \ {0} /\ i <= Len(rows[v]) + 1
        BY <1>2, <3>1, <3>2
      <4> QED
        BY <2>2, <2>4, <4>1
    <3> QED
      BY <1>4, <3>2, <3>3, <3>4
  <2> QED
    BY <2>3, <2>4
<1> QED
  BY <1>7, <1>8

(* A page that is not live is owed nothing.                                *)
LEMMA LeavingKeepsPage ==
  ASSUME PageInv, NEW v \in Viewers, Render(v) \/ Disconnect(v)
  PROVE  Positions(v)' /\ RowsInv(v)'
<1>1. page'[v] = "rendered" /\ streamed' = streamed
  BY DEF Render, Disconnect, PageInv, PageTypes
<1>2. Positions(v)
  BY DEF PageInv
<1> QED
  BY <1>1, <1>2 DEF Positions, RowsInv

(* What a page does keeps the types, and the log as it is.                 *)
LEMMA PageStepKeepsTypes ==
  ASSUME PageInv, RingInv, NEW v \in Viewers,
         Render(v) \/ Subscribe(v) \/ Disconnect(v) \/ Lag(v) \/ Deliver(v)
  PROVE  sent' = sent /\ PageTypes'
<1>1. /\ sent \in Seq(Requests) /\ Len(sent) \in Nat /\ PageTypes
      /\ Oldest \in Nat
  BY OldestIsTyped, LenProperties DEF PageInv
<1>2. CASE Render(v)
  <2>1. Reverse(buf) \in Seq(Requests)
    BY DEF RingInv, Reverse
  <2> QED
    BY <1>1, <1>2, <2>1 DEF Render, PageTypes, logVars
<1>3. CASE Subscribe(v)
  BY <1>1, <1>3 DEF Subscribe, First, PageTypes, logVars
<1>4. CASE Disconnect(v)
  BY <1>1, <1>4 DEF Disconnect, PageTypes, logVars
<1>5. CASE Lag(v)
  <2>1. cursor[v]..Oldest - 1 \subseteq Nat
    BY <1>1 DEF PageTypes
  <2> QED
    BY <1>1, <1>5, <2>1 DEF Lag, Resumption, PageTypes, logVars
<1>6. CASE Deliver(v)
  <2>1. cursor[v] \in 1..Len(sent)
    BY <1>1, <1>6 DEF Deliver, PageInv, PageTypes, Positions
  <2>2. Topped(v, sent[cursor[v]]) \in Seq(Requests)
    BY <1>1, <2>1, ToppedRows DEF PageTypes
  <2>3. Append(streamed[v], cursor[v]) \in Seq(Nat)
    BY <1>1, <2>1 DEF PageTypes
  <2> QED
    BY <1>1, <1>6, <2>1, <2>2, <2>3 DEF Deliver, PageTypes, logVars
<1> QED
  BY <1>2, <1>3, <1>4, <1>5, <1>6

(* Every step keeps the pages what they are said to be.                    *)
LEMMA NextKeepsPages ==
  ASSUME PageInv, RingInv, [Next]_vars
  PROVE  PageInv'
<1>1. ASSUME NEW q \in Requests, Push(q) \/ Send(q)
      PROVE  PageInv'
  BY <1>1, LogKeepsPages
<1>2. ASSUME NEW v \in Viewers,
             Render(v) \/ Subscribe(v) \/ Disconnect(v) \/ Lag(v) \/ Deliver(v)
      PROVE  PageInv'
  <2>1. sent' = sent /\ PageTypes' /\ sent \in Seq(Requests)
    BY <1>2, PageStepKeepsTypes DEF PageInv
  <2>2. Positions(v)' /\ RowsInv(v)'
    BY <1>2, SubscribeKeepsPage, LagKeepsPage, DeliverKeepsPage,
       LeavingKeepsPage
  <2>3. ASSUME NEW w \in Viewers, w # v
        PROVE  Positions(w)' /\ RowsInv(w)'
    <3>1. /\ page'[w] = page[w] /\ rows'[w] = rows[w]
          /\ cursor'[w] = cursor[w] /\ since'[w] = since[w]
          /\ streamed'[w] = streamed[w] /\ skipped'[w] = skipped[w]
      BY <1>2, <2>3
      DEF PageInv, PageTypes, Render, Subscribe, Disconnect, Lag, Deliver
    <3>2. Len(sent) <= Len(sent')
      BY <2>1, LenProperties
    <3> QED
      BY <2>1, <3>1, <3>2, LeavesPageAlone
  <2> QED
    BY <2>1, <2>2, <2>3 DEF PageInv
<1>3. CASE UNCHANGED vars
  <2>1. sent' = sent /\ sent \in Seq(Requests) /\ Len(sent) <= Len(sent')
    BY <1>3, LenProperties DEF vars, logVars, PageInv
  <2>2. \A v \in Viewers : Positions(v)' /\ RowsInv(v)'
    BY <1>3, <2>1, LeavesPageAlone DEF vars, pageVars
  <2>3. PageTypes'
    BY <1>3 DEF vars, pageVars, PageInv, PageTypes
  <2> QED
    BY <2>1, <2>2, <2>3 DEF PageInv
<1> QED
  BY <1>1, <1>2, <1>3 DEF Next

(* The invariant of the pages, on every behaviour.                         *)
LEMMA PageInvHolds == Spec => []PageInv
<1>1. Init => RingInv /\ PageInv
  BY RingBegins, PagesBegin
<1>2. RingInv /\ PageInv /\ [Next]_vars => RingInv' /\ PageInv'
  BY NextKeepsRing, NextKeepsPages
<1> QED
  BY <1>1, <1>2, PTL DEF Spec

(* For any number of pages and any capacity of the channel: a stream is in *)
(* the order of sending and without repetition, and a page that follows it *)
(* shows the last of it on top.                                            *)
THEOREM StreamIsOrdered == Spec => []StreamsInOrder
<1>1. ASSUME PageInv, NEW v \in Viewers
      PROVE  /\ \A i, j \in DOMAIN streamed[v] :
                  i < j => streamed[v][i] < streamed[v][j]
             /\ page[v] = "live" => IsPrefix(Shown(v), rows[v])
  <2>1. /\ streamed[v] \in Seq(Nat) /\ rows[v] \in Seq(Requests)
        /\ sent \in Seq(Requests)
        /\ Len(streamed[v]) \in Nat /\ Len(rows[v]) \in Nat
        /\ MaxRows \in Nat /\ Positions(v) /\ RowsInv(v)
    BY <1>1, LenProperties, QueryLogAssumption DEF PageInv, PageTypes
  <2>2. \A i, j \in DOMAIN streamed[v] :
          i < j => streamed[v][i] < streamed[v][j]
    <3>1. DOMAIN streamed[v] = 1..Len(streamed[v])
      BY <2>1
    <3> QED
      BY <2>1, <3>1 DEF Positions
  <2>3. ASSUME page[v] = "live"
        PROVE  IsPrefix(Shown(v), rows[v])
    <3> DEFINE n == Len(streamed[v])
               k == IF n > MaxRows THEN MaxRows ELSE n
    <3>1. k \in Nat /\ k <= n /\ k <= MaxRows
      BY <2>1
    <3>2. /\ k <= Len(rows[v])
          /\ \A i \in 1..k : rows[v][i] = sent[streamed[v][n + 1 - i]]
      BY <2>1, <2>3, <3>1 DEF RowsInv
    <3>3. Shown(v) = [i \in 1..k |-> sent[streamed[v][n + 1 - i]]]
      BY DEF Shown
    <3> HIDE DEF k
    <3>4. Shown(v) = [i \in 1..k |-> rows[v][i]]
      BY <3>2, <3>3
    <3>5. /\ \A i \in 1..k : rows[v][i] \in Requests
      BY <2>1, <3>1, <3>2
    <3>6. /\ Shown(v) \in Seq(Requests) /\ Len(Shown(v)) = k
          /\ \A i \in 1..k : Shown(v)[i] = rows[v][i]
      BY <3>1, <3>4, <3>5
    <3>7. /\ SubSeq(rows[v], 1, k) \in Seq(Requests)
          /\ Len(SubSeq(rows[v], 1, k)) = k
          /\ \A i \in 1..k : SubSeq(rows[v], 1, k)[i] = rows[v][i]
      BY <2>1, <3>1, <3>2
    <3>8. Shown(v) = SubSeq(rows[v], 1, k)
      BY <3>6, <3>7, SeqEqual
    <3> QED
      BY <3>2, <3>6, <3>8 DEF IsPrefix
  <2> QED
    BY <2>2, <2>3
<1>2. PageInv => StreamsInOrder
  BY <1>1 DEF StreamsInOrder
<1> QED
  BY <1>2, PageInvHolds, PTL

(* For any number of pages and any capacity: what a live page was not sent *)
(* since it subscribed is what the channel had already lost.               *)
THEOREM NothingPassedOver == Spec => []SkipsOnlyTheLost
<1>1. PageInv => SkipsOnlyTheLost
  BY DEF PageInv, Positions, SkipsOnlyTheLost
<1> QED
  BY <1>1, PageInvHolds, PTL
-------------------------------------------------------------------------------
(* An entry is pushed once and sent once, and sent after it was pushed.    *)
HistoryInv ==
  /\ \A i, j \in 1..Len(pushed) : pushed[i] = pushed[j] => i = j
  /\ \A i, j \in 1..Len(sent) : sent[i] = sent[j] => i = j
  /\ \A i \in 1..Len(pushed) : pc[pushed[i]] # "new"
  /\ \A i \in 1..Len(sent) : pc[sent[i]] = "sent"

(* Of the rows, the first k came over the stream, each once, and the       *)
(* others were rendered, each once.                                        *)
SplitAt(v, k) ==
  /\ \A i \in 1..k :
       \E p \in snapshot[v].sent + 1..cursor[v] - 1 : rows[v][i] = sent[p]
  /\ \A i, j \in 1..k : rows[v][i] = rows[v][j] => i = j
  /\ \A i \in k + 1..Len(rows[v]) :
       \E q \in 1..snapshot[v].pushed : rows[v][i] = pushed[q]
  /\ \A i, j \in k + 1..Len(rows[v]) : rows[v][i] = rows[v][j] => i = j

(* While there is room, no row has been deleted: all that the ring held    *)
(* then is there, and all that was sent since and not missed.              *)
NothingDeleted(v) ==
  /\ \A p \in snapshot[v].sent + 1..cursor[v] - 1 :
       p \in unseen[v] \/ \E i \in 1..Len(rows[v]) : rows[v][i] = sent[p]
  /\ \A q \in 1..snapshot[v].pushed :
       q > snapshot[v].pushed - Limit =>
         \E i \in 1..Len(rows[v]) : rows[v][i] = pushed[q]

Accounted(v) ==
  /\ snapshot[v].pushed <= Len(pushed)
  /\ snapshot[v].sent < cursor[v] /\ cursor[v] <= Len(sent) + 1
  /\ \A p \in 1..snapshot[v].sent :
       \E q \in 1..snapshot[v].pushed : sent[p] = pushed[q]
  /\ \E k \in 0..Len(rows[v]) : SplitAt(v, k)
  /\ Len(rows[v]) < MaxRows => NothingDeleted(v)

AccountInv ==
  /\ snapshot \in [Viewers -> [pushed : Nat, sent : Nat]]
  /\ unseen \in [Viewers -> SUBSET Nat]
  /\ \A v \in Viewers : page[v] # "closed" => Accounted(v)

(* Nothing was pushed or sent at first.                                    *)
LEMMA HistoryBegins == Init => HistoryInv
BY DEF Init, HistoryInv

(* A record call pushes once, and only what is new.                        *)
LEMMA PushKeepsHistory ==
  ASSUME HistoryInv, RingInv, NEW q \in Requests, Push(q)
  PROVE  HistoryInv'
<1>1. /\ pushed' = Append(pushed, q) /\ pc[q] = "new"
      /\ pc' = [pc EXCEPT ![q] = "pushed"] /\ sent' = sent
  BY DEF Push
<1>2. /\ pushed \in Seq(Requests) /\ sent \in Seq(Requests)
      /\ pc \in [Requests -> {"new", "pushed", "sent"}]
      /\ Len(pushed) \in Nat
  BY LenProperties DEF RingInv
<1>3. /\ Len(pushed') = Len(pushed) + 1 /\ pushed'[Len(pushed) + 1] = q
      /\ \A i \in 1..Len(pushed) : pushed'[i] = pushed[i]
  BY <1>1, <1>2, AppendProperties
<1>4. \A i \in 1..Len(pushed') : i \in 1..Len(pushed) \/ i = Len(pushed) + 1
  BY <1>2, <1>3
<1>5. \A i \in 1..Len(pushed) : pushed[i] \in Requests /\ pushed[i] # q
  BY <1>1, <1>2 DEF HistoryInv
<1>6. \A i, j \in 1..Len(pushed') : pushed'[i] = pushed'[j] => i = j
  BY <1>3, <1>4, <1>5 DEF HistoryInv
<1>7. \A i \in 1..Len(pushed') : pc'[pushed'[i]] # "new"
  BY <1>1, <1>2, <1>3, <1>4, <1>5 DEF HistoryInv
<1>8. \A i \in 1..Len(sent) : sent[i] \in Requests /\ sent[i] # q
  BY <1>1, <1>2 DEF HistoryInv
<1> QED
  BY <1>1, <1>2, <1>6, <1>7, <1>8 DEF HistoryInv

(* A record call sends once, and only behind its push.                     *)
LEMMA SendKeepsHistory ==
  ASSUME HistoryInv, RingInv, NEW q \in Requests, Send(q)
  PROVE  HistoryInv'
<1>1. /\ sent' = Append(sent, q) /\ pc[q] = "pushed"
      /\ pc' = [pc EXCEPT ![q] = "sent"] /\ pushed' = pushed
  BY DEF Send
<1>2. /\ pushed \in Seq(Requests) /\ sent \in Seq(Requests)
      /\ pc \in [Requests -> {"new", "pushed", "sent"}]
      /\ Len(sent) \in Nat
  BY LenProperties DEF RingInv
<1>3. /\ Len(sent') = Len(sent) + 1 /\ sent'[Len(sent) + 1] = q
      /\ \A i \in 1..Len(sent) : sent'[i] = sent[i]
  BY <1>1, <1>2, AppendProperties
<1>4. \A i \in 1..Len(sent') : i \in 1..Len(sent) \/ i = Len(sent) + 1
  BY <1>2, <1>3
<1>5. \A i \in 1..Len(sent) : sent[i] \in Requests /\ sent[i] # q
  BY <1>1, <1>2 DEF HistoryInv
<1>6. \A i, j \in 1..Len(sent') : sent'[i] = sent'[j] => i = j
  BY <1>3, <1>4, <1>5 DEF HistoryInv
<1>7. \A i \in 1..Len(sent') : pc'[sent'[i]] = "sent"
  BY <1>1, <1>2, <1>3, <1>4, <1>5 DEF HistoryInv
<1>8. \A i \in 1..Len(pushed) : pushed[i] \in Requests
  BY <1>2
<1>9. \A i \in 1..Len(pushed) : pc'[pushed[i]] # "new"
  BY <1>1, <1>2, <1>8 DEF HistoryInv
<1> QED
  BY <1>1, <1>6, <1>7, <1>9 DEF HistoryInv

(* No step repeats an entry in the history.                                *)
LEMMA NextKeepsHistory ==
  ASSUME HistoryInv, RingInv, [Next]_vars
  PROVE  HistoryInv'
<1>1. ASSUME NEW v \in Viewers,
             Render(v) \/ Subscribe(v) \/ Disconnect(v) \/ Lag(v) \/ Deliver(v)
      PROVE  UNCHANGED logVars
  BY <1>1 DEF Render, Subscribe, Disconnect, Lag, Deliver
<1>2. CASE UNCHANGED logVars
  BY <1>2 DEF logVars, HistoryInv
<1> QED
  BY <1>1, <1>2, PushKeepsHistory, SendKeepsHistory DEF Next, vars

(* What the log adds, and what other pages do, changes nothing about the   *)
(* rows of a page.                                                         *)
LEMMA LeavesAccountAlone ==
  ASSUME NEW v \in Viewers, Accounted(v),
         pushed \in Seq(Requests), sent \in Seq(Requests),
         cursor[v] \in Nat, snapshot[v].pushed \in Nat,
         snapshot[v].sent \in Nat,
         Len(pushed') \in Nat, Len(pushed) <= Len(pushed'),
         \A p \in 1..Len(pushed) : pushed'[p] = pushed[p],
         Len(sent') \in Nat, Len(sent) <= Len(sent'),
         \A p \in 1..Len(sent) : sent'[p] = sent[p],
         rows'[v] = rows[v], cursor'[v] = cursor[v],
         snapshot'[v] = snapshot[v], unseen'[v] = unseen[v]
  PROVE  Accounted(v)'
<1>1. Len(pushed) \in Nat /\ Len(sent) \in Nat
  BY LenProperties
<1>2. /\ snapshot[v].pushed <= Len(pushed)
      /\ snapshot[v].sent < cursor[v] /\ cursor[v] <= Len(sent) + 1
  BY DEF Accounted
<1>3. \A q \in 1..snapshot[v].pushed : pushed'[q] = pushed[q]
  BY <1>1, <1>2
<1>4. /\ \A p \in 1..snapshot[v].sent : sent'[p] = sent[p]
      /\ \A p \in snapshot[v].sent + 1..cursor[v] - 1 : sent'[p] = sent[p]
  BY <1>1, <1>2
<1>5. \A p \in 1..snapshot'[v].sent :
        \E q \in 1..snapshot'[v].pushed : sent'[p] = pushed'[q]
  BY <1>3, <1>4 DEF Accounted
<1>6. \E k \in 0..Len(rows'[v]) : SplitAt(v, k)'
  <2>1. PICK k \in 0..Len(rows[v]) : SplitAt(v, k)
    BY DEF Accounted
  <2>2. \A i \in 1..k : \E p \in snapshot'[v].sent + 1..cursor'[v] - 1 :
                          rows'[v][i] = sent'[p]
    BY <1>4, <2>1 DEF SplitAt
  <2>3. \A i \in k + 1..Len(rows'[v]) : \E q \in 1..snapshot'[v].pushed :
                                        rows'[v][i] = pushed'[q]
    BY <1>3, <2>1 DEF SplitAt
  <2>4. \A i, j \in 1..k : rows'[v][i] = rows'[v][j] => i = j
    BY <2>1 DEF SplitAt
  <2>5. \A i, j \in k + 1..Len(rows'[v]) : rows'[v][i] = rows'[v][j] => i = j
    BY <2>1 DEF SplitAt
  <2>6. \A j : j = k => SplitAt(v, j)'
    BY <2>2, <2>3, <2>4, <2>5 DEF SplitAt
  <2> QED
    BY <2>1, <2>6
<1>7. NothingDeleted(v) => NothingDeleted(v)'
  <2> SUFFICES ASSUME NothingDeleted(v)
               PROVE  NothingDeleted(v)'
    OBVIOUS
  <2>1. ASSUME NEW p \in snapshot[v].sent + 1..cursor[v] - 1,
               p \notin unseen[v]
        PROVE  \E i \in 1..Len(rows'[v]) : rows'[v][i] = sent'[p]
    <3>1. PICK i \in 1..Len(rows[v]) : rows[v][i] = sent[p]
      BY <2>1 DEF NothingDeleted
    <3> QED
      BY <1>4, <3>1
  <2>2. \A q \in 1..snapshot'[v].pushed :
          q > snapshot'[v].pushed - Limit =>
            \E i \in 1..Len(rows'[v]) : rows'[v][i] = pushed'[q]
    BY <1>3 DEF NothingDeleted
  <2> QED
    BY <2>1, <2>2 DEF NothingDeleted
<1>8. /\ snapshot'[v].pushed <= Len(pushed')
      /\ snapshot'[v].sent < cursor'[v] /\ cursor'[v] <= Len(sent') + 1
  BY <1>1, <1>2
<1> QED
  BY <1>5, <1>6, <1>7, <1>8 DEF Accounted

(* A receiver that goes on further along has not seen what is in between.  *)
LEMMA PassingAccounts ==
  ASSUME NEW v \in Viewers, Accounted(v), NEW c \in Nat,
         pushed \in Seq(Requests), sent \in Seq(Requests),
         cursor[v] \in Nat, snapshot[v].sent \in Nat,
         cursor[v] <= c, c <= Len(sent) + 1, cursor'[v] = c,
         unseen'[v] = unseen[v] \cup cursor[v]..c - 1,
         rows'[v] = rows[v], snapshot'[v] = snapshot[v],
         pushed' = pushed, sent' = sent
  PROVE  Accounted(v)'
<1>1. Len(sent) \in Nat
  BY LenProperties
<1>2. /\ snapshot[v].sent < cursor[v] /\ cursor[v] <= Len(sent) + 1
      /\ \A p \in snapshot[v].sent + 1..cursor[v] - 1 :
           p \in snapshot[v].sent + 1..c - 1
      /\ \A p \in snapshot[v].sent + 1..c - 1 :
           p \in snapshot[v].sent + 1..cursor[v] - 1 \/ p \in cursor[v]..c - 1
  BY <1>1 DEF Accounted
<1>3. \E k \in 0..Len(rows'[v]) : SplitAt(v, k)'
  <2>1. PICK k \in 0..Len(rows[v]) : SplitAt(v, k)
    BY DEF Accounted
  <2>2. \A i \in 1..k : \E p \in snapshot'[v].sent + 1..cursor'[v] - 1 :
                          rows'[v][i] = sent'[p]
    BY <1>2, <2>1 DEF SplitAt
  <2>3. \A j : j = k => SplitAt(v, j)'
    BY <2>1, <2>2 DEF SplitAt
  <2> QED
    BY <2>1, <2>3
<1>4. NothingDeleted(v) => NothingDeleted(v)'
  BY <1>2 DEF NothingDeleted
<1>5. /\ snapshot'[v].pushed <= Len(pushed')
      /\ snapshot'[v].sent < cursor'[v] /\ cursor'[v] <= Len(sent') + 1
  BY <1>1, <1>2 DEF Accounted
<1> QED
  BY <1>3, <1>4, <1>5 DEF Accounted

(* log_page renders the ring, newest first.                                *)
LEMMA RenderAccounts ==
  ASSUME RingInv, HistoryInv, PageTypes, NEW v \in Viewers, Render(v),
         snapshot \in [Viewers -> [pushed : Nat, sent : Nat]],
         unseen \in [Viewers -> SUBSET Nat]
  PROVE  Accounted(v)'
<1>1. /\ rows'[v] = Reverse(buf) /\ cursor'[v] = Len(sent) + 1
      /\ snapshot'[v] = [pushed |-> Len(pushed), sent |-> Len(sent)]
      /\ unseen'[v] = {}
      /\ pushed' = pushed /\ sent' = sent
  BY DEF Render, PageTypes, logVars
<1>2. /\ buf \in Seq(Requests) /\ pushed \in Seq(Requests)
      /\ sent \in Seq(Requests) /\ Limit \in Nat
      /\ Len(buf) \in Nat /\ Len(pushed) \in Nat /\ Len(sent) \in Nat
      /\ Len(buf) <= Len(pushed)
      /\ Len(buf) = Limit \/ Len(buf) = Len(pushed)
      /\ \A i \in 1..Len(buf) : buf[i] = pushed[Len(pushed) - Len(buf) + i]
  BY LenProperties, LimitIsPositive DEF RingInv
<1>3. /\ Len(rows'[v]) = Len(buf)
      /\ \A i \in 1..Len(buf) : /\ Len(pushed) - i + 1 \in 1..Len(pushed)
                               /\ rows'[v][i] = pushed[Len(pushed) - i + 1]
  <2>1. /\ Len(rows'[v]) = Len(buf)
        /\ \A i \in 1..Len(buf) : rows'[v][i] = buf[Len(buf) - i + 1]
    BY <1>1, <1>2 DEF Reverse
  <2>2. ASSUME NEW i \in 1..Len(buf)
        PROVE  /\ Len(pushed) - i + 1 \in 1..Len(pushed)
               /\ rows'[v][i] = pushed[Len(pushed) - i + 1]
    <3>1. /\ Len(buf) - i + 1 \in 1..Len(buf)
          /\ Len(pushed) - i + 1 \in 1..Len(pushed)
          /\ Len(pushed) - Len(buf) + (Len(buf) - i + 1) = Len(pushed) - i + 1
      BY <1>2
    <3> QED
      BY <1>2, <2>1, <3>1
  <2> QED
    BY <2>1, <2>2
<1>4. snapshot'[v].pushed = Len(pushed) /\ snapshot'[v].sent = Len(sent)
  BY <1>1
<1>5. \A p \in 1..Len(sent) : \E q \in 1..Len(pushed) : sent[p] = pushed[q]
  <2> SUFFICES ASSUME NEW p \in 1..Len(sent)
               PROVE  \E q \in 1..Len(pushed) : sent[p] = pushed[q]
    OBVIOUS
  <2>1. sent[p] \in Requests /\ pc[sent[p]] # "new"
    BY <1>2 DEF RingInv
  <2> QED
    BY <2>1 DEF RingInv
<1>6. \E k \in 0..Len(rows'[v]) : SplitAt(v, k)'
  <2>1. \A i \in 1..Len(rows'[v]) : \E q \in 1..snapshot'[v].pushed :
                                      rows'[v][i] = pushed'[q]
    BY <1>1, <1>3, <1>4
  <2>2. ASSUME NEW i \in 1..Len(rows'[v]), NEW j \in 1..Len(rows'[v]),
               rows'[v][i] = rows'[v][j]
        PROVE  i = j
    <3>1. i \in 1..Len(buf) /\ j \in 1..Len(buf)
      BY <1>3
    <3>2. /\ Len(pushed) - i + 1 \in 1..Len(pushed)
          /\ Len(pushed) - j + 1 \in 1..Len(pushed)
          /\ pushed[Len(pushed) - i + 1] = pushed[Len(pushed) - j + 1]
      BY <1>3, <2>2, <3>1
    <3>3. Len(pushed) - i + 1 = Len(pushed) - j + 1
      BY <3>2 DEF HistoryInv
    <3> QED
      BY <1>2, <3>1, <3>3
  <2>3. \A k : k = 0 => SplitAt(v, k)'
    BY <2>1, <2>2 DEF SplitAt
  <2> QED
    BY <1>2, <1>3, <2>3
<1>7. NothingDeleted(v)'
  <2>1. snapshot'[v].sent + 1..cursor'[v] - 1 = {}
    BY <1>1, <1>2, <1>4
  <2>2. ASSUME NEW q \in 1..snapshot'[v].pushed,
               q > snapshot'[v].pushed - Limit
        PROVE  \E i \in 1..Len(rows'[v]) : rows'[v][i] = pushed'[q]
    <3> DEFINE i == Len(pushed) - q + 1
    <3>1. i \in 1..Len(buf) /\ Len(pushed) - i + 1 = q
      BY <1>2, <1>4, <2>2
    <3> QED
      BY <1>1, <1>3, <3>1
  <2> QED
    BY <2>1, <2>2 DEF NothingDeleted
<1>8. /\ snapshot'[v].pushed <= Len(pushed')
      /\ snapshot'[v].sent < cursor'[v] /\ cursor'[v] <= Len(sent') + 1
  BY <1>1, <1>2, <1>4
<1>9. \A p \in 1..snapshot'[v].sent :
        \E q \in 1..snapshot'[v].pushed : sent'[p] = pushed'[q]
  BY <1>1, <1>4, <1>5
<1> QED
  BY <1>6, <1>7, <1>8, <1>9 DEF Accounted

(* The script puts the entry on top: it is new to the rows of the stream.  *)
LEMMA DeliverAccounts ==
  ASSUME HistoryInv, PageInv, NEW v \in Viewers, Deliver(v), Accounted(v),
         pushed \in Seq(Requests),
         snapshot \in [Viewers -> [pushed : Nat, sent : Nat]]
  PROVE  Accounted(v)'
<1> DEFINE e == sent[cursor[v]]
           s == snapshot[v].sent
<1>1. /\ cursor[v] <= Len(sent) /\ rows'[v] = Topped(v, e)
      /\ cursor'[v] = cursor[v] + 1
      /\ snapshot' = snapshot /\ unseen' = unseen
      /\ pushed' = pushed /\ sent' = sent
  BY DEF Deliver, PageInv, PageTypes, logVars
<1>2. /\ cursor[v] \in Nat /\ rows[v] \in Seq(Requests)
      /\ sent \in Seq(Requests) /\ s \in Nat
      /\ Len(sent) \in Nat /\ Len(rows[v]) \in Nat
      /\ MaxRows \in Nat \ {0}
      /\ s < cursor[v] /\ cursor[v] \in 1..Len(sent)
  BY <1>1, LenProperties, QueryLogAssumption
  DEF PageInv, PageTypes, Accounted
<1>3. /\ Len(rows'[v]) = IF Len(rows[v]) + 1 > MaxRows THEN MaxRows
                         ELSE Len(rows[v]) + 1
      /\ \A i \in 1..Len(rows'[v]) :
           rows'[v][i] = IF i = 1 THEN e ELSE rows[v][i - 1]
  <2>1. e \in Requests
    BY <1>2
  <2>2. /\ Len(Topped(v, e)) = IF Len(rows[v]) + 1 > MaxRows THEN MaxRows
                               ELSE Len(rows[v]) + 1
        /\ \A i \in Nat \ {0} : i <= MaxRows /\ i <= Len(rows[v]) + 1 =>
             Topped(v, e)[i] = IF i = 1 THEN e ELSE rows[v][i - 1]
    BY <1>2, <2>1, ToppedRows
  <2> HIDE DEF e
  <2>3. \A i \in 1..Len(Topped(v, e)) :
          i \in Nat \ {0} /\ i <= MaxRows /\ i <= Len(rows[v]) + 1
    BY <1>2, <2>2
  <2> QED
    BY <1>1, <2>2, <2>3
<1>4. PICK k \in 0..Len(rows[v]) : SplitAt(v, k)
  BY DEF Accounted
<1> DEFINE m == IF k + 1 > MaxRows THEN MaxRows ELSE k + 1
<1>5. m \in 0..Len(rows'[v]) /\ m <= k + 1
  BY <1>2, <1>3
<1>6. \A p \in s + 1..cursor[v] - 1 : p \in 1..Len(sent) /\ p # cursor[v]
  BY <1>2
<1>7. \A i \in 1..k : rows[v][i] # e
  <2> SUFFICES ASSUME NEW i \in 1..k, rows[v][i] = e
               PROVE  FALSE
    OBVIOUS
  <2>1. PICK p \in s + 1..cursor[v] - 1 : rows[v][i] = sent[p]
    BY <1>4 DEF SplitAt
  <2> QED
    BY <1>2, <1>6, <2>1 DEF HistoryInv
<1> HIDE DEF e
<1>8. \A i \in 1..m : i \in 1..Len(rows'[v]) /\ (i # 1 => i - 1 \in 1..k)
  BY <1>2, <1>3, <1>5
<1>9. \A i \in 1..m : \E p \in s + 1..cursor'[v] - 1 : rows'[v][i] = sent'[p]
  <2> SUFFICES ASSUME NEW i \in 1..m
               PROVE  \E p \in s + 1..cursor'[v] - 1 : rows'[v][i] = sent'[p]
    OBVIOUS
  <2>1. CASE i = 1
    <3>1. cursor[v] \in s + 1..cursor'[v] - 1
      BY <1>1, <1>2
    <3> QED
      BY <1>1, <1>3, <1>8, <2>1, <3>1 DEF e
  <2>2. CASE i # 1
    <3>1. PICK p \in s + 1..cursor[v] - 1 : rows[v][i - 1] = sent[p]
      BY <1>4, <1>8, <2>2 DEF SplitAt
    <3>2. p \in s + 1..cursor'[v] - 1
      BY <1>1, <1>2
    <3> QED
      BY <1>1, <1>3, <1>8, <2>2, <3>1, <3>2
  <2> QED
    BY <2>1, <2>2
<1>10. ASSUME NEW i \in 1..m, NEW j \in 1..m, rows'[v][i] = rows'[v][j]
       PROVE  i = j
  <2>1. CASE i = 1 /\ j # 1
    BY <1>3, <1>7, <1>8, <1>10, <2>1
  <2>2. CASE i # 1 /\ j = 1
    BY <1>3, <1>7, <1>8, <1>10, <2>2
  <2>3. CASE i # 1 /\ j # 1
    <3>1. rows[v][i - 1] = rows[v][j - 1]
      BY <1>3, <1>8, <1>10, <2>3
    <3>2. i - 1 = j - 1
      BY <1>4, <1>8, <2>3, <3>1 DEF SplitAt
    <3> QED
      BY <1>5, <3>2
  <2> QED
    BY <2>1, <2>2, <2>3
<1>11. ASSUME NEW i \in m + 1..Len(rows'[v])
       PROVE  /\ i - 1 \in k + 1..Len(rows[v]) /\ i \in Nat
              /\ rows'[v][i] = rows[v][i - 1]
  <2>1. m = k + 1 /\ i \in 1..Len(rows'[v]) /\ i # 1 /\ i \in Nat
    BY <1>2, <1>3, <1>5
  <2>2. Len(rows'[v]) \in Nat /\ Len(rows'[v]) <= Len(rows[v]) + 1
    BY <1>2, <1>3
  <2>3. rows'[v][i] = rows[v][i - 1]
    BY <1>3, <2>1
  <2> HIDE DEF m
  <2>4. i - 1 \in k + 1..Len(rows[v])
    BY <1>2, <2>1, <2>2
  <2> QED
    BY <2>1, <2>3, <2>4
<1>12. \A i \in m + 1..Len(rows'[v]) :
         \E q \in 1..snapshot'[v].pushed : rows'[v][i] = pushed'[q]
  <2>1. \A i \in k + 1..Len(rows[v]) :
          \E q \in 1..snapshot[v].pushed : rows[v][i] = pushed[q]
    BY <1>4 DEF SplitAt
  <2> HIDE DEF m
  <2> QED
    BY <1>1, <1>11, <2>1
<1>13. ASSUME NEW i \in m + 1..Len(rows'[v]), NEW j \in m + 1..Len(rows'[v]),
              rows'[v][i] = rows'[v][j]
       PROVE  i = j
  <2>1. /\ i - 1 \in k + 1..Len(rows[v]) /\ j - 1 \in k + 1..Len(rows[v])
        /\ rows[v][i - 1] = rows[v][j - 1]
    BY <1>11, <1>13
  <2>2. i - 1 = j - 1
    BY <1>4, <2>1 DEF SplitAt
  <2>3. i \in Nat /\ j \in Nat
    BY <1>11
  <2> QED
    BY <2>2, <2>3
<1>14. \E n \in 0..Len(rows'[v]) : SplitAt(v, n)'
  <2>1. \A n : n = m => SplitAt(v, n)'
    <3> HIDE DEF m
    <3> QED
      BY <1>1, <1>9, <1>10, <1>12, <1>13 DEF SplitAt
  <2> QED
    BY <1>5, <2>1
<1>15. ASSUME Len(rows'[v]) < MaxRows
       PROVE  NothingDeleted(v)'
  <2>1. Len(rows[v]) < MaxRows /\ Len(rows'[v]) = Len(rows[v]) + 1
    BY <1>2, <1>3, <1>15
  <2>2. NothingDeleted(v)
    BY <2>1 DEF Accounted
  <2>3. ASSUME NEW i \in 1..Len(rows[v])
        PROVE  i + 1 \in 1..Len(rows'[v]) /\ rows'[v][i + 1] = rows[v][i]
    <3>1. i + 1 \in 1..Len(rows'[v]) /\ i + 1 # 1 /\ (i + 1) - 1 = i
      BY <1>2, <2>1
    <3> QED
      BY <1>3, <3>1
  <2>4. 1 \in 1..Len(rows'[v]) /\ rows'[v][1] = sent[cursor[v]]
    BY <1>2, <1>3, <2>1 DEF e
  <2>5. ASSUME NEW p \in snapshot'[v].sent + 1..cursor'[v] - 1
        PROVE  \/ p \in unseen'[v]
               \/ \E i \in 1..Len(rows'[v]) : rows'[v][i] = sent'[p]
    <3>1. p \in s + 1..cursor[v] - 1 \/ p = cursor[v]
      BY <1>1, <1>2
    <3>2. CASE p = cursor[v]
      BY <1>1, <2>4, <3>2
    <3>3. CASE p \in s + 1..cursor[v] - 1 /\ p \notin unseen[v]
      <4>1. PICK i \in 1..Len(rows[v]) : rows[v][i] = sent[p]
        BY <2>2, <3>3 DEF NothingDeleted
      <4> QED
        BY <1>1, <2>3, <4>1
    <3> QED
      BY <1>1, <3>1, <3>2, <3>3
  <2>6. ASSUME NEW q \in 1..snapshot'[v].pushed,
               q > snapshot'[v].pushed - Limit
        PROVE  \E i \in 1..Len(rows'[v]) : rows'[v][i] = pushed'[q]
    BY <1>1, <2>2, <2>3, <2>6 DEF NothingDeleted
  <2> QED
    BY <2>5, <2>6 DEF NothingDeleted
<1>16. /\ snapshot'[v].pushed <= Len(pushed')
       /\ snapshot'[v].sent < cursor'[v] /\ cursor'[v] <= Len(sent') + 1
  BY <1>1, <1>2 DEF Accounted
<1>17. \A p \in 1..snapshot'[v].sent :
         \E q \in 1..snapshot'[v].pushed : sent'[p] = pushed'[q]
  BY <1>1 DEF Accounted
<1> QED
  BY <1>14, <1>15, <1>16, <1>17 DEF Accounted

(* No step loses account of a row.                                         *)
LEMMA NextKeepsAccount ==
  ASSUME AccountInv, HistoryInv, RingInv, PageInv, RingInv', PageInv',
         [Next]_vars
  PROVE  AccountInv'
<1>1. /\ pushed \in Seq(Requests) /\ sent \in Seq(Requests)
      /\ Len(pushed) \in Nat /\ Len(sent) \in Nat
      /\ Len(pushed') \in Nat /\ Len(sent') \in Nat
      /\ PageTypes /\ cursor \in [Viewers -> Nat]
      /\ snapshot \in [Viewers -> [pushed : Nat, sent : Nat]]
      /\ unseen \in [Viewers -> SUBSET Nat]
      /\ Oldest \in 1..Len(sent) + 1
  BY LenProperties, OldestIsTyped
  DEF RingInv, PageInv, PageTypes, AccountInv
<1>2. ASSUME UNCHANGED pageVars, Len(pushed) <= Len(pushed'),
             \A p \in 1..Len(pushed) : pushed'[p] = pushed[p],
             Len(sent) <= Len(sent'),
             \A p \in 1..Len(sent) : sent'[p] = sent[p]
      PROVE  AccountInv'
  <2>1. ASSUME NEW v \in Viewers, page'[v] # "closed"
        PROVE  Accounted(v)'
    <3>1. Accounted(v)
      BY <1>2, <2>1 DEF AccountInv, pageVars
    <3>2. /\ rows'[v] = rows[v] /\ cursor'[v] = cursor[v]
          /\ snapshot'[v] = snapshot[v] /\ unseen'[v] = unseen[v]
      BY <1>2 DEF pageVars
    <3>3. /\ cursor[v] \in Nat /\ snapshot[v].pushed \in Nat
          /\ snapshot[v].sent \in Nat
      BY <1>1
    <3> QED
      BY <1>1, <1>2, <3>1, <3>2, <3>3, LeavesAccountAlone
  <2> QED
    BY <1>1, <1>2, <2>1 DEF AccountInv, pageVars
<1>3. ASSUME NEW q \in Requests, Push(q) \/ Send(q)
      PROVE  AccountInv'
  <2>1. UNCHANGED pageVars
    BY <1>3 DEF Push, Send
  <2>2. /\ pushed' = pushed \/ pushed' = Append(pushed, q)
        /\ sent' = sent \/ sent' = Append(sent, q)
    BY <1>3 DEF Push, Send
  <2>3. /\ Len(pushed) <= Len(pushed') /\ Len(sent) <= Len(sent')
        /\ \A p \in 1..Len(pushed) : pushed'[p] = pushed[p]
        /\ \A p \in 1..Len(sent) : sent'[p] = sent[p]
    <3>1. \A s \in Seq(Requests) :
            /\ Len(s) <= Len(s) /\ Len(s) <= Len(Append(s, q))
            /\ \A p \in 1..Len(s) : Append(s, q)[p] = s[p]
      BY AppendProperties, LenProperties
    <3> QED
      BY <1>1, <2>2, <3>1
  <2> QED
    BY <1>2, <2>1, <2>3
<1>4. CASE UNCHANGED vars
  <2>1. UNCHANGED pageVars /\ pushed' = pushed /\ sent' = sent
    BY <1>4 DEF vars, logVars
  <2> QED
    BY <1>1, <1>2, <2>1
<1>5. ASSUME NEW v \in Viewers,
             Render(v) \/ Subscribe(v) \/ Disconnect(v) \/ Lag(v) \/ Deliver(v)
      PROVE  AccountInv'
  <2>1. pushed' = pushed /\ sent' = sent
    BY <1>5 DEF Render, Subscribe, Disconnect, Lag, Deliver, logVars
  <2>2. /\ snapshot' \in [Viewers -> [pushed : Nat, sent : Nat]]
        /\ unseen' \in [Viewers -> SUBSET Nat]
    <3>1. \A c : cursor[v]..c - 1 \subseteq Nat
      BY <1>1
    <3>2. CASE Render(v)
      BY <1>1, <3>2 DEF Render
    <3>3. CASE Subscribe(v)
      BY <1>1, <3>1, <3>3 DEF Subscribe
    <3>4. CASE Disconnect(v)
      BY <1>1, <3>4 DEF Disconnect
    <3>5. CASE Lag(v)
      BY <1>1, <3>1, <3>5 DEF Lag
    <3>6. CASE Deliver(v)
      BY <1>1, <3>6 DEF Deliver
    <3> QED
      BY <1>5, <3>2, <3>3, <3>4, <3>5, <3>6
  <2>3. ASSUME NEW w \in Viewers, w # v, page'[w] # "closed"
        PROVE  Accounted(w)'
    <3>1. /\ page'[w] = page[w]
          /\ rows'[w] = rows[w] /\ cursor'[w] = cursor[w]
          /\ snapshot'[w] = snapshot[w] /\ unseen'[w] = unseen[w]
      BY <1>1, <1>5, <2>3
      DEF PageTypes, Render, Subscribe, Disconnect, Lag, Deliver
    <3>2. Accounted(w)
      BY <2>3, <3>1 DEF AccountInv
    <3>3. /\ cursor[w] \in Nat /\ snapshot[w].pushed \in Nat
          /\ snapshot[w].sent \in Nat
      BY <1>1
    <3> QED
      BY <1>1, <2>1, <3>1, <3>2, <3>3, LeavesAccountAlone
  <2>4. page[v] # "closed" => Accounted(v)
    BY DEF AccountInv
  <2>5. /\ cursor[v] \in Nat /\ snapshot[v].pushed \in Nat
        /\ snapshot[v].sent \in Nat
    BY <1>1
  <2>6. Accounted(v)'
    <3>1. CASE Render(v)
      BY <1>1, <3>1, RenderAccounts
    <3>2. CASE Subscribe(v)
      <4>1. /\ page[v] = "rendered" /\ cursor'[v] = Len(sent) + 1
            /\ unseen'[v] = unseen[v] \cup cursor[v]..(Len(sent) + 1) - 1
            /\ rows'[v] = rows[v] /\ snapshot'[v] = snapshot[v]
        BY <1>1, <3>2 DEF Subscribe, First, PageTypes
      <4>2. Accounted(v)
        BY <2>4, <4>1
      <4>3. cursor[v] <= Len(sent) + 1 /\ Len(sent) + 1 \in Nat
        BY <1>1, <4>2 DEF Accounted
      <4> QED
        BY <1>1, <2>1, <2>5, <4>1, <4>2, <4>3, PassingAccounts
    <3>3. CASE Disconnect(v)
      <4>1. /\ page[v] = "live" /\ cursor'[v] = cursor[v]
            /\ unseen'[v] = unseen[v]
            /\ rows'[v] = rows[v] /\ snapshot'[v] = snapshot[v]
        BY <3>3 DEF Disconnect
      <4> QED
        BY <1>1, <2>1, <2>4, <2>5, <4>1, LeavesAccountAlone
    <3>4. CASE Lag(v)
      <4>1. /\ page[v] = "live" /\ cursor'[v] = Oldest
            /\ cursor[v] < Oldest
            /\ unseen'[v] = unseen[v] \cup cursor[v]..Oldest - 1
            /\ rows'[v] = rows[v] /\ snapshot'[v] = snapshot[v]
        BY <1>1, <3>4 DEF Lag, Lagging, Resumption, PageTypes
      <4>2. Oldest \in Nat /\ cursor[v] <= Oldest /\ Oldest <= Len(sent) + 1
        BY <1>1, <2>5, <4>1
      <4> HIDE DEF Oldest
      <4> QED
        BY <1>1, <2>1, <2>4, <2>5, <4>1, <4>2, PassingAccounts
    <3>5. CASE Deliver(v)
      <4>1. page[v] = "live"
        BY <3>5 DEF Deliver
      <4> QED
        BY <1>1, <2>4, <3>5, <4>1, DeliverAccounts
    <3> QED
      BY <1>5, <3>1, <3>2, <3>3, <3>4, <3>5
  <2>7. \A w \in Viewers : page'[w] # "closed" => Accounted(w)'
    BY <2>3, <2>6
  <2> QED
    BY <2>2, <2>7 DEF AccountInv
<1> QED
  BY <1>3, <1>4, <1>5 DEF Next

(* All invariants together, on every behaviour.                            *)
LEMMA AccountInvHolds ==
  Spec => [](RingInv /\ HistoryInv /\ PageInv /\ AccountInv)
<1>1. Init => RingInv /\ HistoryInv /\ PageInv /\ AccountInv
  <2>1. Init => AccountInv
    BY DEF Init, AccountInv
  <2> QED
    BY <2>1, RingBegins, HistoryBegins, PagesBegin
<1>2. RingInv /\ HistoryInv /\ PageInv /\ AccountInv /\ [Next]_vars
        => RingInv' /\ HistoryInv' /\ PageInv' /\ AccountInv'
  BY NextKeepsRing, NextKeepsHistory, NextKeepsPages, NextKeepsAccount
<1> QED
  BY <1>1, <1>2, PTL DEF Spec

(* For any number of requests and pages and any sizes: a row shows twice   *)
(* only if its entry was between its push and its send when the page was   *)
(* rendered, and an entry is missing from a page with room only if it was  *)
(* out of the ring by then or sent while nobody listened.                  *)
THEOREM RowsAccounted == Spec => []RowsAreAccountedFor
<1> DEFINE At(e, s) == CHOOSE i \in DOMAIN s : s[i] = e
<1>1. ASSUME RingInv, HistoryInv, PageInv, AccountInv,
             NEW v \in Viewers, page[v] # "closed"
      PROVE  /\ \A i, j \in DOMAIN rows[v] :
                  i # j /\ rows[v][i] = rows[v][j] =>
                    /\ At(rows[v][i], pushed) <= snapshot[v].pushed
                    /\ At(rows[v][i], sent) > snapshot[v].sent
             /\ \A p \in 1..cursor[v] - 1 :
                  sent[p] \notin ToSet(rows[v]) /\ Len(rows[v]) < MaxRows =>
                    \/ p \in unseen[v]
                    \/ /\ At(sent[p], pushed) <= snapshot[v].pushed
                       /\ ~(At(sent[p], pushed) > snapshot[v].pushed - Limit)
  <2>1. /\ rows[v] \in Seq(Requests) /\ pushed \in Seq(Requests)
        /\ sent \in Seq(Requests) /\ Len(rows[v]) \in Nat
        /\ Len(pushed) \in Nat /\ Len(sent) \in Nat
        /\ cursor[v] \in Nat /\ snapshot[v].pushed \in Nat
        /\ snapshot[v].sent \in Nat
        /\ DOMAIN rows[v] = 1..Len(rows[v])
        /\ DOMAIN pushed = 1..Len(pushed) /\ DOMAIN sent = 1..Len(sent)
    BY <1>1, LenProperties DEF RingInv, PageInv, PageTypes, AccountInv
  <2>2. Accounted(v)
    BY <1>1 DEF AccountInv
  <2>3. \A q \in 1..Len(pushed) : At(pushed[q], pushed) = q
    BY <1>1, <2>1 DEF HistoryInv
  <2>4. \A p \in 1..Len(sent) : At(sent[p], sent) = p
    BY <1>1, <2>1 DEF HistoryInv
  <2>5. /\ snapshot[v].pushed <= Len(pushed) /\ snapshot[v].sent < cursor[v]
        /\ cursor[v] <= Len(sent) + 1
    BY <2>2 DEF Accounted
  <2> HIDE DEF At
  <2>6. PICK k \in 0..Len(rows[v]) : SplitAt(v, k)
    BY <2>2 DEF Accounted
  <2>7. ASSUME NEW i \in 1..k
        PROVE  At(rows[v][i], sent) > snapshot[v].sent
    <3>1. PICK p \in snapshot[v].sent + 1..cursor[v] - 1 :
             rows[v][i] = sent[p]
      BY <2>6 DEF SplitAt
    <3>2. p \in 1..Len(sent) /\ p > snapshot[v].sent
      BY <2>1, <2>5
    <3> QED
      BY <2>4, <3>1, <3>2
  <2>8. ASSUME NEW i \in k + 1..Len(rows[v])
        PROVE  At(rows[v][i], pushed) <= snapshot[v].pushed
    <3>1. PICK q \in 1..snapshot[v].pushed : rows[v][i] = pushed[q]
      BY <2>6 DEF SplitAt
    <3>2. q \in 1..Len(pushed) /\ q <= snapshot[v].pushed
      BY <2>1, <2>5
    <3> QED
      BY <2>3, <3>1, <3>2
  <2>9. ASSUME NEW i \in DOMAIN rows[v], NEW j \in DOMAIN rows[v], i # j,
               rows[v][i] = rows[v][j]
        PROVE  /\ At(rows[v][i], pushed) <= snapshot[v].pushed
               /\ At(rows[v][i], sent) > snapshot[v].sent
    <3>1. \A n \in DOMAIN rows[v] : n \in 1..k \/ n \in k + 1..Len(rows[v])
      BY <2>1, <2>6
    <3>2. ~(i \in 1..k /\ j \in 1..k)
      BY <2>6, <2>9 DEF SplitAt
    <3>3. ~(i \in k + 1..Len(rows[v]) /\ j \in k + 1..Len(rows[v]))
      BY <2>6, <2>9 DEF SplitAt
    <3> QED
      BY <2>7, <2>8, <2>9, <3>1, <3>2, <3>3
  <2>10. ASSUME NEW p \in 1..cursor[v] - 1, sent[p] \notin ToSet(rows[v]),
                Len(rows[v]) < MaxRows, p \notin unseen[v]
         PROVE  /\ At(sent[p], pushed) <= snapshot[v].pushed
                /\ ~(At(sent[p], pushed) > snapshot[v].pushed - Limit)
    <3>1. \A i \in 1..Len(rows[v]) : rows[v][i] # sent[p]
      BY <2>1, <2>10 DEF ToSet
    <3>2. NothingDeleted(v)
      BY <2>2, <2>10 DEF Accounted
    <3>3. p \in 1..snapshot[v].sent
      <4>1. ~(p \in snapshot[v].sent + 1..cursor[v] - 1)
        BY <2>10, <3>1, <3>2 DEF NothingDeleted
      <4> QED
        BY <2>1, <2>5, <4>1
    <3>4. PICK q \in 1..snapshot[v].pushed : sent[p] = pushed[q]
      BY <2>2, <3>3 DEF Accounted
    <3>5. ~(q > snapshot[v].pushed - Limit)
      BY <3>1, <3>2, <3>4 DEF NothingDeleted
    <3>6. At(sent[p], pushed) = q
      BY <2>1, <2>3, <2>5, <3>4
    <3> QED
      BY <2>1, <3>5, <3>6
  <2> QED
    BY <2>9, <2>10
<1>2. RingInv /\ HistoryInv /\ PageInv /\ AccountInv => RowsAreAccountedFor
  BY <1>1, Zenon DEF RowsAreAccountedFor
<1> QED
  BY <1>2, AccountInvHolds, PTL
===============================================================================
