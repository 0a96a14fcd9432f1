-------------------------------- MODULE QueryLog ------------------------------
(***************************************************************************)
(* The query log of querylog.rs and the live page web.rs makes of it: a    *)
(* bounded ring behind a mutex, a broadcast channel beside it, and pages   *)
(* that render a snapshot of the ring and then follow the channel.         *)
(*                                                                         *)
(* QueryLog::record pushes under the lock and sends after it is released,  *)
(* so that the entries of concurrent requests may be sent in an order that *)
(* differs from the ring's.                                                *)
(***************************************************************************)
EXTENDS Naturals, Sequences, SequencesExt, FiniteSets

CONSTANTS
  Requests,  \* handled requests, each of which records one entry
  Viewers,   \* open live-log pages
  Cap,       \* query_log_size
  Capacity,  \* BROADCAST_CAPACITY
  MaxRows    \* the rows LOG_JS keeps

ASSUME QueryLogAssumption ==
  /\ IsFiniteSet(Requests)
  /\ Cap \in Nat
  /\ Capacity \in Nat \ {0}
  /\ MaxRows \in Nat \ {0}

(* QueryLog::new clamps the capacity to at least one.                      *)
Limit == IF Cap = 0 THEN 1 ELSE Cap

VARIABLES
  pc,        \* of each request's record call: "new", "pushed" or "sent"
  buf,       \* the ring, oldest first
  pushed,    \* history: every entry in the order it entered the ring
  sent,      \* every entry in the order it was sent
  page,      \* "closed", "rendered" or "live"
  rows,      \* the rows on the page, topmost first
  cursor,    \* the position in sent its receiver reads next
  since,     \* history: the first position after it subscribed
  streamed,  \* history: the positions it was sent over this subscription
  skipped,   \* history: the positions it was told it had lagged behind
  snapshot,  \* history: the entries pushed and those sent when it rendered
  unseen     \* history: the positions since that it was not sent

logVars == <<pc, buf, pushed, sent>>
pageVars == <<page, rows, cursor, since, streamed, skipped, snapshot, unseen>>
vars == <<logVars, pageVars>>

Init ==
  /\ pc = [q \in Requests |-> "new"]
  /\ buf = <<>> /\ pushed = <<>> /\ sent = <<>>
  /\ page = [v \in Viewers |-> "closed"]
  /\ rows = [v \in Viewers |-> <<>>]
  /\ cursor = [v \in Viewers |-> 1]
  /\ since = [v \in Viewers |-> 1]
  /\ streamed = [v \in Viewers |-> <<>>]
  /\ skipped = [v \in Viewers |-> {}]
  /\ snapshot = [v \in Viewers |-> [pushed |-> 0, sent |-> 0]]
  /\ unseen = [v \in Viewers |-> {}]
-------------------------------------------------------------------------------
(* QueryLog::record.                                                       *)
(* Mutant: pop_back for pop_front.                                         *)
DisplacedNewest == IF Len(buf) = Limit THEN Front(buf) ELSE buf

Displaced == IF Len(buf) = Limit THEN Tail(buf) ELSE buf

Push(q) ==
  /\ pc[q] = "new"
  /\ buf' = Append(Displaced, q)
  /\ pushed' = Append(pushed, q)
  /\ pc' = [pc EXCEPT ![q] = "pushed"]
  /\ UNCHANGED <<sent, pageVars>>

Send(q) ==
  /\ pc[q] = "pushed"
  /\ sent' = Append(sent, q)
  /\ pc' = [pc EXCEPT ![q] = "sent"]
  /\ UNCHANGED <<buf, pushed, pageVars>>
-------------------------------------------------------------------------------
(* log_page: opened or reloaded at any time.                               *)
Render(v) ==
  /\ page' = [page EXCEPT ![v] = "rendered"]
  /\ rows' = [rows EXCEPT ![v] = Reverse(buf)]
  /\ snapshot' = [snapshot EXCEPT
                    ![v] = [pushed |-> Len(pushed), sent |-> Len(sent)]]
  /\ cursor' = [cursor EXCEPT ![v] = Len(sent) + 1]
  /\ unseen' = [unseen EXCEPT ![v] = {}]
  /\ UNCHANGED <<logVars, since, streamed, skipped>>

(* The channel keeps the last Capacity entries.                            *)
Oldest == IF Len(sent) > Capacity THEN Len(sent) - Capacity + 1 ELSE 1

(* Mutant: a new receiver gets all that the channel still has.             *)
FirstRetained == Oldest

(* A receiver gets what is sent after it subscribed.                       *)
First == Len(sent) + 1

(* events: the script subscribes once the page is there, and the browser   *)
(* subscribes again after it lost the connection.                          *)
Subscribe(v) ==
  /\ page[v] = "rendered"
  /\ page' = [page EXCEPT ![v] = "live"]
  /\ cursor' = [cursor EXCEPT ![v] = First]
  /\ since' = [since EXCEPT ![v] = First]
  /\ streamed' = [streamed EXCEPT ![v] = <<>>]
  /\ skipped' = [skipped EXCEPT ![v] = {}]
  /\ unseen' = [unseen EXCEPT ![v] = @ \cup cursor[v]..First - 1]
  /\ UNCHANGED <<logVars, rows, snapshot>>

Disconnect(v) ==
  /\ page[v] = "live"
  /\ page' = [page EXCEPT ![v] = "rendered"]
  /\ UNCHANGED <<logVars, rows, cursor, since, streamed, skipped, snapshot,
                 unseen>>

Lagging(v) == cursor[v] < Oldest

(* Mutant: as the comment on BROADCAST_CAPACITY has it.                    *)
ResumptionAtNewest == Len(sent)

(* Where a receiver that lagged goes on.                                   *)
Resumption == Oldest

(* Mutant: the error ends the stream, its connection staying open.         *)
LagEnds(v) ==
  /\ page[v] = "live"
  /\ Lagging(v)
  /\ UNCHANGED vars

(* recv's Lagged error, which the stream drops before it polls again.      *)
Lag(v) ==
  /\ page[v] = "live"
  /\ Lagging(v)
  /\ skipped' = [skipped EXCEPT ![v] = @ \cup cursor[v]..Resumption - 1]
  /\ unseen' = [unseen EXCEPT ![v] = @ \cup cursor[v]..Resumption - 1]
  /\ cursor' = [cursor EXCEPT ![v] = Resumption]
  /\ UNCHANGED <<logVars, page, rows, since, streamed, snapshot>>

(* Mutant: the topmost rows are the ones deleted.                          *)
ToppedOff(v, entry) ==
  LET grown == <<entry>> \o rows[v]
  IN IF Len(grown) > MaxRows
     THEN SubSeq(grown, Len(grown) - MaxRows + 1, Len(grown)) ELSE grown

(* The script puts a row on top and deletes those beyond its limit.        *)
Topped(v, entry) ==
  LET grown == <<entry>> \o rows[v]
  IN IF Len(grown) > MaxRows THEN SubSeq(grown, 1, MaxRows) ELSE grown

Deliver(v) ==
  /\ page[v] = "live"
  /\ ~Lagging(v)
  /\ cursor[v] <= Len(sent)
  /\ rows' = [rows EXCEPT ![v] = Topped(v, sent[cursor[v]])]
  /\ streamed' = [streamed EXCEPT ![v] = Append(@, cursor[v])]
  /\ cursor' = [cursor EXCEPT ![v] = @ + 1]
  /\ UNCHANGED <<logVars, page, since, skipped, snapshot, unseen>>

Next ==
  \/ \E q \in Requests : Push(q) \/ Send(q)
  \/ \E v \in Viewers :
       Render(v) \/ Subscribe(v) \/ Disconnect(v) \/ Lag(v) \/ Deliver(v)

Spec == Init /\ [][Next]_vars

(* A stream is polled for as long as its connection is there.              *)
FairSpec == Spec /\ \A v \in Viewers : WF_vars(Lag(v) \/ Deliver(v))
-------------------------------------------------------------------------------
(* The ring is the durable copy: at every moment it holds the entries      *)
(* recorded last, in order, as many as it was configured to and no more,   *)
(* and nothing is streamed that it has not held.                           *)
RingHoldsTheLatest ==
  /\ Len(buf) <= Limit
  /\ IsSuffix(buf, pushed)
  /\ Len(buf) = Limit \/ buf = pushed
  /\ ToSet(sent) \subseteq ToSet(pushed)

(* What the page owes to the current subscription, topmost first.          *)
Shown(v) ==
  LET n == Len(streamed[v])
  IN [i \in 1..(IF n > MaxRows THEN MaxRows ELSE n) |->
        sent[streamed[v][n + 1 - i]]]

(* A subscription streams in the order of sending and repeats nothing,     *)
(* however far behind it falls, and the page shows what it streamed last,  *)
(* the last on top, above whatever it showed before.                       *)
StreamsInOrder ==
  \A v \in Viewers :
    /\ \A i, j \in DOMAIN streamed[v] :
         i < j => streamed[v][i] < streamed[v][j]
    /\ page[v] = "live" => IsPrefix(Shown(v), rows[v])

(* A subscription passes over an entry only once the channel has lost it:  *)
(* everything it could still have streamed, it does.                       *)
SkipsOnlyTheLost ==
  \A v \in Viewers : page[v] = "live" =>
    /\ \A p \in skipped[v] : p < Oldest
    /\ since[v]..cursor[v] - 1 = ToSet(streamed[v]) \cup skipped[v]

(* The page is rendered by one request and follows by another, between     *)
(* which the log goes on.  What that costs is bounded: a row shows twice   *)
(* only if its entry was between its push and its send when the page was   *)
(* rendered, and an entry is missing from a page that has room for it only *)
(* if the ring had lost it by then, or it was sent while nobody listened.  *)
RowsAreAccountedFor ==
  \A v \in Viewers : page[v] # "closed" =>
    LET At(e, s) == CHOOSE i \in DOMAIN s : s[i] = e
        old(e) == At(e, pushed) <= snapshot[v].pushed
        kept(e) == At(e, pushed) > snapshot[v].pushed - Limit
    IN /\ \A i, j \in DOMAIN rows[v] : i # j /\ rows[v][i] = rows[v][j] =>
            old(rows[v][i]) /\ At(rows[v][i], sent) > snapshot[v].sent
       /\ \A p \in 1..cursor[v] - 1 :
            sent[p] \notin ToSet(rows[v]) /\ Len(rows[v]) < MaxRows =>
              p \in unseen[v] \/ (old(sent[p]) /\ ~kept(sent[p]))

(* An entry sent while a page is live reaches it, or the page is told that *)
(* it fell behind, for as long as it stays live: an error that reports a   *)
(* lag does not end the stream.                                            *)
ReachesLivePages ==
  \A v \in Viewers : \A p \in 1..Cardinality(Requests) :
    page[v] = "live" /\ p \in since[v]..Len(sent) ~>
      \/ page[v] # "live" \/ p < since[v]
      \/ p \in ToSet(streamed[v]) \cup skipped[v]
===============================================================================
