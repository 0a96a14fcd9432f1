------------------------------ MODULE StaleCache ------------------------------
(***************************************************************************)
(* The response cache of upstream.rs (StaleCache, CacheEntry): how long an *)
(* upstream response may be kept, when a kept entry is fresh, stale or     *)
(* gone, and when a hit on it asks for a prefetch.  The map from questions *)
(* to entries itself is the variable "cache" of module Pool.               *)
(*                                                                         *)
(* Time is a natural number of abstract units.  The contents of a message  *)
(* are abstracted to the four kinds the code treats differently:           *)
(*   "positive"  NoError with at least one answer record                   *)
(*   "negative"  NXDOMAIN or NODATA with a SOA in the authority section    *)
(*   "bare"      NXDOMAIN or NODATA without a SOA                          *)
(*   "error"     any other RCODE                                           *)
(* and the TTL the code derives from it (the least answer TTL, or the      *)
(* lesser of the SOA's TTL and its MINIMUM).  "failed" stands for the None *)
(* of a resolution in which every upstream failed, "blank" for no value.   *)
(***************************************************************************)
EXTENDS Naturals

CONSTANTS
  MaxTtl,          \* MAX_TTL, the cap on a positive lifetime
  NegMaxTtl,       \* NEG_MAX_TTL, the cap on a negative lifetime
  StaleWindow,     \* STALE_MAX_WINDOW, or 0 when serve_stale is off
  StaleServeTtl,   \* STALE_SERVE_TTL, stamped on a stale answer
  PrefetchDivisor  \* the reciprocal of PREFETCH_FRACTION

ASSUME CacheAssumption ==
  /\ MaxTtl \in Nat /\ NegMaxTtl \in Nat /\ StaleWindow \in Nat
  /\ StaleServeTtl \in Nat /\ PrefetchDivisor \in Nat \ {0}

Lesser(a, b) == IF a <= b THEN a ELSE b

ReplyKind == {"positive", "negative", "bare", "error"}

(* What an upstream may say: a DnsResponse as far as the cache can tell.   *)
Reply == [kind : ReplyKind, ttl : Nat]

(* What a resolution ends with, Option<DnsResponse>: "life" is the TTL the *)
(* upstream gave, "at" the moment the response reached the resolver, "ttl" *)
(* the TTL on the records as they are handed out.                          *)
Response == [kind : ReplyKind \cup {"failed", "blank"},
             life : Nat, at : Nat, ttl : Nat]

Failed == [kind |-> "failed", life |-> 0, at |-> 0, ttl |-> 0]
Blank == [kind |-> "blank", life |-> 0, at |-> 0, ttl |-> 0]

Received(reply, time) ==
  [kind |-> reply.kind, life |-> reply.ttl, at |-> time, ttl |-> reply.ttl]

Entry == [kind : {"positive", "negative"}, life : Nat,
          fetched_at : Nat, valid_until : Nat]

NoEntry == [kind |-> "none", life |-> 0, fetched_at |-> 0, valid_until |-> 0]

(* Mutant: the caps are forgotten.                                         *)
LifetimeUncapped(reply) ==
  IF reply.kind \in {"positive", "negative"} THEN reply.ttl ELSE 0

(* The lifetime insert and insert_negative compute; 0 means not cacheable. *)
Lifetime(reply) ==
  CASE reply.kind = "positive" -> Lesser(reply.ttl, MaxTtl)
    [] reply.kind = "negative" -> Lesser(reply.ttl, NegMaxTtl)
    [] OTHER -> 0

(* Mutant: whatever is relayed is also kept.                               *)
StoreAll(old, reply, time) ==
  [kind |-> reply.kind, life |-> reply.ttl,
   fetched_at |-> time, valid_until |-> time + Lifetime(reply)]

(* The entry kept for a question after a reply arrives: an uncacheable one *)
(* leaves the old entry where it is.                                       *)
Store(old, reply, time) ==
  IF Lifetime(reply) = 0 THEN old
  ELSE [kind |-> reply.kind, life |-> reply.ttl,
        fetched_at |-> time, valid_until |-> time + Lifetime(reply)]

(* The three outcomes of StaleCache::get.                                  *)
IsFresh(e, time) == e # NoEntry /\ time <= e.valid_until

IsStale(e, time) ==
  /\ e # NoEntry
  /\ time > e.valid_until
  /\ time <= e.valid_until + StaleWindow

IsMiss(e, time) == ~IsFresh(e, time) /\ ~IsStale(e, time)

WantsPrefetch(e, time) ==
  (e.valid_until - time) * PrefetchDivisor <= e.valid_until - e.fetched_at

(* CacheEntry::to_response with build_cached_response.                     *)
Rebuilt(e, ttl) ==
  [kind |-> e.kind, life |-> e.life, at |-> e.fetched_at, ttl |-> ttl]
===============================================================================
