--------------------------------- MODULE Chain --------------------------------
(***************************************************************************)
(* The synthesizer chain of synth/mod.rs and synth/nat64.rs:               *)
(* Chain::synthesize tries the configured synthesizers in order until one  *)
(* yields a usable IPv6 address, and may append one NAT64 address.         *)
(*                                                                         *)
(* Which CDN provider recognises a name, and with which plan, is decided   *)
(* in synth/cdn.rs (module Cdn); here it is part of the context.  A lookup *)
(* of a reference goes through the resolver pool, the environment: it may  *)
(* return anything, and the lookups of one call may contradict each other. *)
(***************************************************************************)
EXTENDS Naturals, Registry

CONSTANTS
  Calls,       \* the calls of Chain::synthesize
  Configs,     \* the [resolver] settings a chain may be built from
  NoCap,       \* ttl_cap when none is configured
  DefaultTtl,  \* DEFAULT_SYNTH_TTL
  IPv4,        \* addresses of A records
  Routable,    \* those of them that is_globally_routable accepts
  IPv6,        \* addresses of the AAAA records of reference names
  Global       \* those of them that is_global_unicast_v6 accepts

ASSUME ChainAssumption ==
  /\ \A config \in Configs :
       /\ config.ids \in Seq(STRING)
       /\ config.wanted \in BOOLEAN
       /\ config.cap \in Nat \/ config.cap = NoCap
  /\ DefaultTtl \in Nat
  /\ Routable \subseteq IPv4
  /\ Global \subseteq IPv6

(* The settings that Chain::build accepts.                                 *)
Chains == {config \in Configs : Builds(config.ids)}

(* A fallback needs a translator, which only listing nat64 promises.       *)
(* Mutant: the switch alone decides.                                       *)
HasFallbackAsWanted(chain) == chain.wanted

HasFallback(chain) == chain.wanted /\ Contains(chain.ids, "nat64")

(* How a synthesizer turns what was resolved and the name's A records into *)
(* addresses: the four derivations of cdn.rs, and its resolve-and-fuse.    *)
Combination == {"verbatim", "borrow", "constant", "transform", "fuse"}

(* What detect returns for a provider: how many names to resolve, how to   *)
(* combine, and the A addresses a transform applies to, which resolves     *)
(* nothing.                                                                *)
Plan ==
  {plan \in [lookups : Nat, combine : Combination, claims : SUBSET IPv4] :
     plan.combine = "transform" => plan.lookups = 0}

NoPlan == [lookups |-> 0, combine |-> "none", claims |-> {}]

(* SynthContext: whether the name is ipv4only.arpa, its A records, and     *)
(* what each provider makes of it; with the chain it goes through.         *)
Context == [arpa : BOOLEAN, a : SUBSET [addr : IPv4, ttl : Nat],
            plans : [Providers -> Plan \cup {NoPlan}], chain : Chains]

VARIABLES
  ctx,      \* the context of each call, while it has none the empty record
  stage,    \* "idle", "running" or "done"
  at,       \* the position in the chain it has come to
  asked,    \* how many names of the plan there have been resolved
  heard,    \* what was resolved at each position of the chain
  records,  \* the AAAA records it returns
  winner,   \* the id it returns with them, or "none"
  hits      \* metrics: synth_hit, by id

chainVars == <<ctx, stage, at, asked, heard, records, winner, hits>>

NoContext == [arpa |-> FALSE]

ChainInit ==
  /\ ctx = [c \in Calls |-> NoContext]
  /\ stage = [c \in Calls |-> "idle"]
  /\ at = [c \in Calls |-> 1]
  /\ asked = [c \in Calls |-> 0]
  /\ heard = [c \in Calls |-> <<>>]
  /\ records = [c \in Calls |-> {}]
  /\ winner = [c \in Calls |-> "none"]
  /\ hits = [id \in Ids |-> 0]
-------------------------------------------------------------------------------
(* Addresses the resolver makes up, and where they come from.              *)
Made == [via : {"nat64", "transform"}, of : IPv4]
        \cup [via : {"verbatim", "fuse"}, of : IPv6]
        \cup {[via |-> "constant", of |-> "constant"]}

Each(kind, sources) == {[via |-> kind, of |-> s] : s \in sources}

(* is_global_unicast_v6: a prefix a configuration may have, a constant and *)
(* a transform are global; what was resolved need not be, nor what fuses a *)
(* host id into the low bits of it.                                        *)
IsGlobal(made) == made.via \in {"verbatim", "fuse"} => made.of \in Global

Addrs(rs) == {r.addr : r \in rs}

Least(S) == CHOOSE m \in S : \A n \in S : m <= n

(* The NAT64 prefix discovery name is exempt from the routability filter.  *)
Eligible(x) == IF x.arpa THEN Addrs(x.a) ELSE Addrs(x.a) \cap Routable

(* detect: NAT64 applies to every name with an A record.                   *)
PlanOf(x, id) ==
  IF id # "nat64" THEN x.plans[id]
  ELSE IF x.a = {} THEN NoPlan
  ELSE [lookups |-> 0, combine |-> "transform", claims |-> Eligible(x)]

(* The combine closures.                                                   *)
Combined(plan, kind, x, got) ==
  CASE plan.combine = "constant" -> Each("constant", {"constant"})
    [] plan.combine = "transform" -> Each(kind, Addrs(x.a) \cap plan.claims)
    [] plan.combine = "fuse" -> Each("fuse", Addrs(got))
    [] plan.combine = "borrow" /\ got = {} -> Each("constant", {"constant"})
    [] OTHER -> Each("verbatim", Addrs(got))

Capped(ttl, cap) ==
  IF cap = NoCap THEN ttl ELSE IF ttl <= cap THEN ttl ELSE cap

(* Mutant: the A records' TTL is used whatever was resolved.               *)
BaseTtlOfName(x, got) ==
  IF x.a # {} THEN Least({r.ttl : r \in x.a}) ELSE DefaultTtl

(* The resolved records' least TTL, else the A records', else the default. *)
BaseTtl(x, got) ==
  CASE got # {} -> Least({r.ttl : r \in got})
    [] got = {} /\ x.a # {} -> Least({r.ttl : r \in x.a})
    [] OTHER -> DefaultTtl

(* run_plan, once its names are resolved.                                  *)
Yielded(x, id, got) ==
  LET plan == PlanOf(x, id)
      kind == IF id = "nat64" THEN "nat64" ELSE "transform"
  IN IF plan = NoPlan THEN {}
     ELSE {[addr |-> made, ttl |-> Capped(BaseTtl(x, got), x.chain.cap)] :
             made \in {m \in Combined(plan, kind, x, got) : IsGlobal(m)}}

(* What is appended behind a provider's records: one of the NAT64 records, *)
(* the first in the order of the A records, which may be any.              *)
Appendable(x, id) ==
  LET embedded == Yielded(x, "nat64", {})
  IN IF HasFallback(x.chain) /\ id # "nat64" /\ embedded # {}
     THEN {{r} : r \in embedded}
     ELSE {{}}
-------------------------------------------------------------------------------
Begin(c, x) ==
  /\ stage[c] = "idle"
  /\ stage' = [stage EXCEPT ![c] = "running"]
  /\ ctx' = [ctx EXCEPT ![c] = x]
  /\ heard' = [heard EXCEPT ![c] = [p \in DOMAIN x.chain.ids |-> {}]]
  /\ UNCHANGED <<at, asked, records, winner, hits>>

Trying(c) == stage[c] = "running" /\ at[c] \in DOMAIN ctx[c].chain.ids

IdAt(c) == ctx[c].chain.ids[at[c]]

PlanAt(c) == PlanOf(ctx[c], IdAt(c))

(* resolve_aaaa: a failure, an error and an empty answer all yield none.   *)
Resolve(c, answer) ==
  /\ Trying(c)
  /\ asked[c] < PlanAt(c).lookups
  /\ asked' = [asked EXCEPT ![c] = @ + 1]
  /\ heard' = [heard EXCEPT ![c][at[c]] = @ \cup answer]
  /\ UNCHANGED <<ctx, stage, at, records, winner, hits>>

Ready(c) == Trying(c) /\ asked[c] = PlanAt(c).lookups

(* What the synthesizer at a position yields from what was resolved there. *)
YieldedBy(c, p) == Yielded(ctx[c], ctx[c].chain.ids[p], heard[c][p])

YieldedAt(c) == YieldedBy(c, at[c])

(* Not detected, or detected without a usable address: on to the next.     *)
TryNext(c) ==
  /\ Ready(c)
  /\ YieldedAt(c) = {}
  /\ at' = [at EXCEPT ![c] = @ + 1]
  /\ asked' = [asked EXCEPT ![c] = 0]
  /\ UNCHANGED <<ctx, stage, heard, records, winner, hits>>

Succeed(c) ==
  /\ Ready(c)
  /\ YieldedAt(c) # {}
  /\ \E appended \in Appendable(ctx[c], IdAt(c)) :
       records' = [records EXCEPT ![c] = YieldedAt(c) \cup appended]
  /\ winner' = [winner EXCEPT ![c] = IdAt(c)]
  /\ hits' = [hits EXCEPT ![IdAt(c)] = @ + 1]
  /\ stage' = [stage EXCEPT ![c] = "done"]
  /\ UNCHANGED <<ctx, at, asked, heard>>

(* Mutant: a synthesizer that matches and yields nothing ends the search.  *)
GiveUpOnBarren(c) ==
  /\ stage[c] = "running"
  /\ \/ at[c] > Len(ctx[c].chain.ids)
     \/ Ready(c) /\ PlanAt(c) # NoPlan /\ YieldedAt(c) = {}
  /\ stage' = [stage EXCEPT ![c] = "done"]
  /\ UNCHANGED <<ctx, at, asked, heard, records, winner, hits>>

GiveUp(c) ==
  /\ stage[c] = "running"
  /\ at[c] > Len(ctx[c].chain.ids)
  /\ stage' = [stage EXCEPT ![c] = "done"]
  /\ UNCHANGED <<ctx, at, asked, heard, records, winner, hits>>

ChainStep(c) == TryNext(c) \/ Succeed(c) \/ GiveUp(c)
-------------------------------------------------------------------------------
(* Every variable stays within the values the code gives it.               *)
ChainTypeOK ==
  /\ ctx \in [Calls -> Context \cup {NoContext}]
  /\ stage \in [Calls -> {"idle", "running", "done"}]
  /\ at \in [Calls -> Nat]
  /\ asked \in [Calls -> Nat]
  /\ heard \in [Calls -> Seq(SUBSET [addr : IPv6, ttl : Nat])]
  /\ \A c \in Calls : stage[c] # "idle" =>
       /\ ctx[c] \in Context
       /\ at[c] \in 1..Len(ctx[c].chain.ids) + 1
       /\ Len(heard[c]) = Len(ctx[c].chain.ids)
  /\ records \in [Calls -> SUBSET [addr : Made, ttl : Nat]]
  /\ winner \in [Calls -> Ids \cup {"none"}]
  /\ hits \in [Ids -> Nat]

IsEmbedded(r) == r.addr.via = "nat64"

Embedded(c) == {r \in records[c] : IsEmbedded(r)}

(* The records of the winner itself, without what was appended to them.    *)
Own(c) == IF winner[c] = "nat64" THEN records[c] ELSE records[c] \ Embedded(c)

(* The answer is that of the first synthesizer that yields a usable        *)
(* address, and None only if none of them does: one that matches but       *)
(* yields nothing, its reference lookup failed or its addresses filtered,  *)
(* hides neither those after it nor NAT64.                                 *)
FirstThatYields ==
  \A c \in Calls : stage[c] = "done" =>
    \/ /\ winner[c] = "none" /\ records[c] = {}
       /\ \A p \in DOMAIN ctx[c].chain.ids : YieldedBy(c, p) = {}
    \/ \E p \in DOMAIN ctx[c].chain.ids :
         /\ winner[c] = ctx[c].chain.ids[p]
         /\ Own(c) = YieldedBy(c, p) /\ Own(c) # {}
         /\ \A q \in 1..p - 1 : YieldedBy(c, q) = {}

(* A generic provider answers for a name only after its specific provider, *)
(* if that is configured too, was tried and had nothing: Cloudflare's      *)
(* addresses are not handed out for a shop that Shopify serves through     *)
(* them, whatever the order is.                                            *)
SpecificBeforeGeneric ==
  \A c \in Calls : \A pair \in Precedes :
    winner[c] = pair[2] /\ Contains(ctx[c].chain.ids, pair[1]) =>
      \E p \in 1..at[c] - 1 :
        ctx[c].chain.ids[p] = pair[1] /\ YieldedBy(c, p) = {}

(* An address behind the translator is handed out only where one exists,   *)
(* only for an eligible A record of the name, and beside a provider's      *)
(* addresses at most once, the fallback switched on and not instead of     *)
(* them.                                                                   *)
TranslatorOnlyAsConfigured ==
  \A c \in Calls :
    /\ Embedded(c) # {} => Contains(ctx[c].chain.ids, "nat64")
    /\ \A r \in Embedded(c) : r.addr.of \in Eligible(ctx[c])
    /\ winner[c] \in Providers =>
         /\ Embedded(c) # {} => ctx[c].chain.wanted
         /\ \A r, s \in Embedded(c) : r = s
         /\ Own(c) # {}

(* No synthesized record is served for longer than the records it was      *)
(* derived from may be, nor for longer than the configured cap.            *)
NeverOutlivesItsSource ==
  \A c \in Calls : \A r \in records[c] :
    /\ ctx[c].chain.cap # NoCap => r.ttl <= ctx[c].chain.cap
    /\ r.addr.via \in {"nat64", "transform"} =>
         \A source \in ctx[c].a : r.ttl <= source.ttl
    /\ r.addr.via \in {"verbatim", "fuse"} =>
         \A source \in heard[c][at[c]] : r.ttl <= source.ttl
===============================================================================
