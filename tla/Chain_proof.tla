------------------------------ MODULE Chain_proof -----------------------------
(***************************************************************************)
(* What holds of the chain whoever calls it: ChainInv is kept by every     *)
(* step of a call, and implies the properties of Chain.  A specification   *)
(* composed with the chain has them if its steps are ChainNext or leave    *)
(* the chain's variables alone; Handler_proof shows that of the handler.   *)
(***************************************************************************)
EXTENDS Chain, FiniteSets, FiniteSetTheorems,
        SequenceTheorems, WellFoundedInduction, TLAPS

Sourced(addrs) == SUBSET [addr : addrs, ttl : Nat]

(* Every step of a call, with any context and any answers.                 *)
ChainNext ==
  \E c \in Calls :
    \/ \E x \in Context : Begin(c, x)
    \/ \E answer \in Sourced(IPv6) : Resolve(c, answer)
    \/ ChainStep(c)
-------------------------------------------------------------------------------
(* The minimum that BaseTtl takes of the TTLs exists and bounds them all.  *)
LEMMA LeastIsLeast ==
  ASSUME NEW S \in SUBSET Nat, S # {}
  PROVE  Least(S) \in S /\ \A n \in S : Least(S) <= n
<1> DEFINE Below == {0..n : n \in S}
<1>1. Below \subseteq FiniteSubsetsOf(Nat)
  <2> SUFFICES ASSUME NEW n \in S PROVE 0..n \in FiniteSubsetsOf(Nat)
    OBVIOUS
  <2>1. IsFiniteSet(0..n)
    BY FS_Interval
  <2>2. 0..n \in SUBSET Nat
    OBVIOUS
  <2> QED
    BY <2>1, <2>2, Zenon DEF FiniteSubsetsOf
<1>2. Below # {}
  OBVIOUS
<1>3. PICK x \in Below : \A y \in Below :
         ~(<<y, x>> \in StrictSubsetOrdering(Nat))
  <2> HIDE DEF Below
  <2> QED
    BY <1>1, <1>2, FS_StrictSubsetOrderingWellFounded, WFMin, Zenon
<1>4. PICK m \in S : x = 0..m
  OBVIOUS
<1>5. ASSUME NEW n \in S PROVE m <= n
  <2> SUFFICES ASSUME ~(m <= n) PROVE FALSE
    OBVIOUS
  <2>1. 0..n \subseteq 0..m /\ 0..n # 0..m
    OBVIOUS
  <2>2. 0..n \in SUBSET Nat /\ 0..m \in SUBSET Nat /\ 0..n \in Below
    OBVIOUS
  <2>3. <<0..n, 0..m>> \in StrictSubsetOrdering(Nat)
    BY <2>1, <2>2 DEF StrictSubsetOrdering
  <2> QED
    BY <2>2, <2>3, <1>3, <1>4
<1> QED
  BY <1>5, Zenon DEF Least

(* run_plan caps the TTL it has found.                                     *)
LEMMA CappedBounds ==
  ASSUME NEW ttl \in Nat, NEW cap, cap \in Nat \/ cap = NoCap
  PROVE  /\ Capped(ttl, cap) \in Nat
         /\ Capped(ttl, cap) <= ttl
         /\ cap # NoCap => Capped(ttl, cap) <= cap
BY DEF Capped

(* The TTL that run_plan starts from is no longer than that of any record  *)
(* resolved or, if none was, of any A record.                              *)
LEMMA BaseTtlBounds ==
  ASSUME NEW x \in Context, NEW got \in Sourced(IPv6)
  PROVE  /\ BaseTtl(x, got) \in Nat
         /\ \A s \in got : BaseTtl(x, got) <= s.ttl
         /\ got = {} => \A s \in x.a : BaseTtl(x, got) <= s.ttl
<1> DEFINE Ttls(rs) == {r.ttl : r \in rs}
<1>1. ASSUME NEW rs, rs # {}, \A r \in rs : r.ttl \in Nat
      PROVE  Least(Ttls(rs)) \in Nat
             /\ \A r \in rs : Least(Ttls(rs)) <= r.ttl
  <2>1. Ttls(rs) \in SUBSET Nat /\ Ttls(rs) # {}
    BY <1>1
  <2>2. \A r \in rs : r.ttl \in Ttls(rs)
    OBVIOUS
  <2> HIDE DEF Ttls
  <2> QED
    BY <2>1, <2>2, LeastIsLeast
<1>2. \A r \in got : r.ttl \in Nat
  BY DEF Sourced
<1>3. \A r \in x.a : r.ttl \in Nat
  BY DEF Context
<1>4. DefaultTtl \in Nat
  BY ChainAssumption
<1>5. CASE got # {}
  <2>1. BaseTtl(x, got) = Least(Ttls(got))
    BY <1>5 DEF BaseTtl
  <2> QED
    BY <1>1, <1>2, <1>5, <2>1
<1>6. CASE got = {} /\ x.a # {}
  <2>1. BaseTtl(x, got) = Least(Ttls(x.a))
    BY <1>6 DEF BaseTtl
  <2> QED
    BY <1>1, <1>3, <1>6, <2>1
<1>7. CASE got = {} /\ x.a = {}
  BY <1>4, <1>7 DEF BaseTtl
<1> QED
  BY <1>5, <1>6, <1>7
-------------------------------------------------------------------------------
(* A chain that was built has ids the registry knows, in a valid order.    *)
LEMMA BuiltChain ==
  ASSUME NEW x \in Context
  PROVE  /\ x.chain.ids \in Seq(STRING)
         /\ \A p \in DOMAIN x.chain.ids : x.chain.ids[p] \in Ids
         /\ ValidOrder(x.chain.ids)
         /\ x.chain.cap \in Nat \/ x.chain.cap = NoCap
<1>1. x.chain \in Configs /\ Builds(x.chain.ids)
  BY DEF Context, Chains
<1> QED
  BY <1>1, ChainAssumption DEF Builds, ToSet

(* detect returns a plan or none, and a plan that transforms addresses     *)
(* resolves nothing.                                                       *)
LEMMA PlanIsTyped ==
  ASSUME NEW x \in Context, NEW id \in Ids
  PROVE  PlanOf(x, id) \in Plan \cup {NoPlan}
<1>1. CASE id # "nat64"
  <2>1. id \in Providers
    BY <1>1 DEF Ids
  <2> QED
    BY <1>1, <2>1 DEF PlanOf, Context
<1>2. CASE id = "nat64"
  <2>1. Eligible(x) \in SUBSET IPv4
    BY DEF Eligible, Addrs, Context
  <2>2. [lookups |-> 0, combine |-> "transform", claims |-> Eligible(x)]
          \in Plan
    BY <2>1 DEF Plan, Combination
  <2> QED
    BY <1>2, <2>2 DEF PlanOf
<1> QED
  BY <1>1, <1>2

(* The addresses a plan's closure makes, by where they come from.          *)
LEMMA CombinedIsTyped ==
  ASSUME NEW x \in Context, NEW plan \in Plan, NEW got \in Sourced(IPv6),
         NEW kind \in {"nat64", "transform"},
         NEW made \in Combined(plan, kind, x, got)
  PROVE  /\ made \in Made
         /\ made.via \in {"nat64", "transform"} =>
              /\ plan.combine = "transform"
              /\ made.via = kind
              /\ made.of \in Addrs(x.a) \cap plan.claims
         /\ plan.combine = "transform" => made.via = kind
<1>1. Addrs(got) \subseteq IPv6 /\ Addrs(x.a) \subseteq IPv4
  BY DEF Addrs, Sourced, Context
<1>2. CASE plan.combine = "constant"
  <2>1. made \in Each("constant", {"constant"})
    BY <1>2, Zenon DEF Combined
  <2> QED
    BY <1>2, <2>1 DEF Each, Made
<1>3. CASE plan.combine = "transform"
  <2>1. made \in Each(kind, Addrs(x.a) \cap plan.claims)
    BY <1>3, Zenon DEF Combined
  <2> QED
    BY <1>1, <1>3, <2>1 DEF Each, Made
<1>4. CASE plan.combine = "fuse"
  <2>1. made \in Each("fuse", Addrs(got))
    BY <1>4, Zenon DEF Combined
  <2> QED
    BY <1>1, <1>4, <2>1 DEF Each, Made
<1>5. CASE plan.combine = "borrow" /\ got = {}
  <2>1. made \in Each("constant", {"constant"})
    BY <1>5, Zenon DEF Combined
  <2> QED
    BY <1>5, <2>1 DEF Each, Made
<1>6. CASE plan.combine \notin {"constant", "transform", "fuse"}
           /\ ~(plan.combine = "borrow" /\ got = {})
  <2>1. made \in Each("verbatim", Addrs(got))
    BY <1>6 DEF Combined
  <2> QED
    BY <1>1, <1>6, <2>1 DEF Each, Made
<1> QED
  BY <1>2, <1>3, <1>4, <1>5, <1>6

(* What run_plan yields: records of the addresses combined, each with the  *)
(* one TTL, and those NAT64 makes are of eligible A records.               *)
LEMMA YieldedIsTyped ==
  ASSUME NEW x \in Context, NEW id \in Ids, NEW got \in Sourced(IPv6),
         NEW r \in Yielded(x, id, got)
  PROVE  /\ r \in [addr : Made, ttl : Nat]
         /\ r.ttl = Capped(BaseTtl(x, got), x.chain.cap)
         /\ IsEmbedded(r) <=> id = "nat64"
         /\ IsEmbedded(r) => r.addr.of \in Eligible(x)
         /\ r.addr.via \in {"nat64", "transform"} =>
              PlanOf(x, id).lookups = 0
<1> DEFINE plan == PlanOf(x, id)
           kind == IF id = "nat64" THEN "nat64" ELSE "transform"
<1>1. plan # NoPlan /\ plan \in Plan
  <2>1. plan # NoPlan
    BY Zenon DEF Yielded
  <2> QED
    BY <2>1, PlanIsTyped
<1>2. PICK made \in Combined(plan, kind, x, got) :
        r = [addr |-> made, ttl |-> Capped(BaseTtl(x, got), x.chain.cap)]
  BY <1>1 DEF Yielded
<1>3. /\ made \in Made
      /\ made.via \in {"nat64", "transform"} =>
           /\ plan.combine = "transform"
           /\ made.via = kind
           /\ made.of \in Addrs(x.a) \cap plan.claims
      /\ plan.combine = "transform" => made.via = kind
  <2>1. kind \in {"nat64", "transform"}
    OBVIOUS
  <2> HIDE DEF plan, kind
  <2> QED
    BY <1>1, <1>2, <2>1, CombinedIsTyped
<1>4. Capped(BaseTtl(x, got), x.chain.cap) \in Nat
  BY BaseTtlBounds, BuiltChain, CappedBounds
<1>5. r \in [addr : Made, ttl : Nat]
      /\ r.ttl = Capped(BaseTtl(x, got), x.chain.cap) /\ r.addr = made
  <2> HIDE DEF plan, kind
  <2> QED
    BY <1>2, <1>3, <1>4
<1>6. id = "nat64" =>
        plan.combine = "transform" /\ plan.claims = Eligible(x)
  BY <1>1 DEF PlanOf
<1>7. plan.combine = "transform" => plan.lookups = 0
  BY <1>1 DEF Plan
<1>8. id = "nat64" => kind = "nat64"
  OBVIOUS
<1>9. id # "nat64" => kind = "transform"
  OBVIOUS
<1>10. PlanOf(x, id) = plan
  OBVIOUS
<1> HIDE DEF plan, kind
<1> QED
  BY <1>3, <1>5, <1>6, <1>7, <1>8, <1>9, <1>10 DEF IsEmbedded
(* What synthesize appends is at most one NAT64 record, behind a provider  *)
(* and with the fallback on.                                               *)
LEMMA AppendedIsTyped ==
  ASSUME NEW x \in Context, NEW id \in Ids, NEW appended \in Appendable(x, id)
  PROVE  /\ \A r \in appended : /\ r \in Yielded(x, "nat64", {})
                                /\ IsEmbedded(r)
                                /\ r \in [addr : Made, ttl : Nat]
         /\ \A r, s \in appended : r = s
         /\ appended # {} => HasFallback(x.chain) /\ id # "nat64"
<1>1. {} \in Sourced(IPv6) /\ "nat64" \in Ids
  BY DEF Sourced, Ids
<1>2. \A r \in Yielded(x, "nat64", {}) :
        r \in [addr : Made, ttl : Nat] /\ IsEmbedded(r)
  BY <1>1, YieldedIsTyped
<1>3. CASE HasFallback(x.chain) /\ id # "nat64"
           /\ Yielded(x, "nat64", {}) # {}
  <2>1. appended \in {{r} : r \in Yielded(x, "nat64", {})}
    BY <1>3, Zenon DEF Appendable
  <2> QED
    BY <1>2, <1>3, <2>1
<1>4. CASE ~(HasFallback(x.chain) /\ id # "nat64"
             /\ Yielded(x, "nat64", {}) # {})
  <2>1. appended = {}
    BY <1>4 DEF Appendable
  <2> QED
    BY <2>1
<1> QED
  BY <1>3, <1>4
-------------------------------------------------------------------------------
(* A call that has not begun has tried nothing, and one that has not ended *)
(* returns nothing.                                                        *)
Blank(c) ==
  /\ stage[c] = "idle" => at[c] = 1 /\ asked[c] = 0
  /\ stage[c] # "done" => records[c] = {} /\ winner[c] = "none"

(* Every position the call has left behind has yielded nothing, and where  *)
(* nothing is to be resolved nothing was.                                  *)
LeftBehind(c) == stage[c] # "idle" =>
  /\ \A q \in 1..at[c] - 1 : YieldedBy(c, q) = {}
  /\ \A q \in DOMAIN ctx[c].chain.ids :
       PlanOf(ctx[c], ctx[c].chain.ids[q]).lookups = 0 => heard[c][q] = {}

(* A call ends at the end of the chain, or with what its position yields.  *)
Exhausted(c) ==
  /\ at[c] = Len(ctx[c].chain.ids) + 1
  /\ winner[c] = "none"
  /\ records[c] = {}

Won(c) ==
  /\ at[c] \in DOMAIN ctx[c].chain.ids
  /\ winner[c] = IdAt(c)
  /\ YieldedAt(c) # {}
  /\ \E appended \in Appendable(ctx[c], IdAt(c)) :
       records[c] = YieldedAt(c) \cup appended

Ended(c) == stage[c] = "done" => Exhausted(c) \/ Won(c)

CallInv(c) == Blank(c) /\ LeftBehind(c) /\ Ended(c)

ChainInv == ChainTypeOK /\ \A c \in Calls : CallInv(c)

(* Before any call, ChainInv holds.                                        *)
LEMMA ChainBegins == ChainInit => ChainInv
BY DEF ChainInit, ChainInv, ChainTypeOK, CallInv, Blank, LeftBehind, Ended

(* A position of the chain of a call under way has an id of the registry,  *)
(* and what it yields is typed.                                            *)
LEMMA PositionIsTyped ==
  ASSUME ChainTypeOK, NEW c \in Calls, stage[c] # "idle",
         NEW p \in DOMAIN ctx[c].chain.ids
  PROVE  /\ ctx[c] \in Context
         /\ ctx[c].chain.ids[p] \in Ids
         /\ heard[c][p] \in Sourced(IPv6)
         /\ \A r \in YieldedBy(c, p) :
              /\ r \in [addr : Made, ttl : Nat]
              /\ r.ttl = Capped(BaseTtl(ctx[c], heard[c][p]), ctx[c].chain.cap)
              /\ IsEmbedded(r) <=> ctx[c].chain.ids[p] = "nat64"
              /\ IsEmbedded(r) => r.addr.of \in Eligible(ctx[c])
              /\ r.addr.via \in {"nat64", "transform"} =>
                   PlanOf(ctx[c], ctx[c].chain.ids[p]).lookups = 0
<1>1. ctx[c] \in Context /\ heard[c] \in Seq(Sourced(IPv6))
      /\ Len(heard[c]) = Len(ctx[c].chain.ids)
  BY DEF ChainTypeOK, Sourced
<1>2. ctx[c].chain.ids \in Seq(STRING) /\ ctx[c].chain.ids[p] \in Ids
  BY <1>1, BuiltChain
<1>3. heard[c][p] \in Sourced(IPv6)
  BY <1>1, <1>2
<1> QED
  BY <1>1, <1>2, <1>3, YieldedIsTyped DEF YieldedBy

(* What a step does not touch of a call, it keeps.                         *)
Untouched(d) ==
  UNCHANGED <<ctx[d], stage[d], at[d], asked[d], heard[d], records[d],
              winner[d]>>

(* A call whose variables a step leaves alone keeps its invariant.         *)
LEMMA UntouchedKeeps ==
  ASSUME NEW d, CallInv(d), Untouched(d)
  PROVE  CallInv(d)'
BY DEF Untouched, CallInv, Blank, LeftBehind, Ended, Exhausted, Won, IdAt,
       YieldedAt, YieldedBy

(* Begin: the call starts before the first position.                       *)
LEMMA BeginKeeps ==
  ASSUME ChainInv, NEW c \in Calls, NEW x \in Context, Begin(c, x)
  PROVE  ChainInv'
<1> USE DEF ChainInv, Begin
<1>1. x.chain.ids \in Seq(STRING)
  BY BuiltChain
<1>2. at[c] = 1 /\ asked[c] = 0 /\ stage[c] = "idle" /\ records[c] = {}
      /\ winner[c] = "none"
  BY DEF CallInv, Blank
<1>3. /\ heard'[c] = [p \in 1..Len(x.chain.ids) |-> {}] /\ ctx'[c] = x
      /\ stage'[c] = "running"
  BY <1>1 DEF ChainTypeOK
<1>4. heard'[c] \in Seq(Sourced(IPv6)) /\ Len(heard'[c]) = Len(x.chain.ids)
  <2>1. {} \in Sourced(IPv6)
    BY DEF Sourced
  <2>2. \A n \in Nat : /\ [p \in 1..n |-> {}] \in Seq(Sourced(IPv6))
                      /\ Len([p \in 1..n |-> {}]) = n
    BY <2>1
  <2>3. Len(x.chain.ids) \in Nat
    BY <1>1
  <2> QED
    BY <1>3, <2>2, <2>3, Zenon
<1>5. heard' = [heard EXCEPT ![c] = heard'[c]]
  BY <1>3 DEF ChainTypeOK
<1>6. heard' \in [Calls -> Seq(Sourced(IPv6))]
  BY <1>4, <1>5 DEF ChainTypeOK, Sourced
<1>7. ASSUME NEW d \in Calls, d # c PROVE Untouched(d)
  BY <1>7, <1>5 DEF Untouched, ChainTypeOK
<1>8. ChainTypeOK'
  <2>1. \A d \in Calls :
          d # c => UNCHANGED <<ctx[d], stage[d], at[d], heard[d]>>
    BY <1>7 DEF Untouched
  <2>2. Len(x.chain.ids) \in Nat
    BY <1>1
  <2> QED
    BY <1>2, <1>3, <1>4, <1>6, <2>1, <2>2 DEF ChainTypeOK, Sourced
<1>9. CallInv(c)'
  <2>1. Blank(c)' /\ Ended(c)'
    BY <1>2, <1>3 DEF Blank, Ended
  <2>2. LeftBehind(c)'
    <3>1. at'[c] = 1
      BY <1>2
    <3>2. \A q \in DOMAIN x.chain.ids : heard'[c][q] = {}
      <4>1. DOMAIN x.chain.ids = 1..Len(x.chain.ids)
        BY <1>1
      <4> QED
        BY <1>3, <4>1, Zenon
    <3>3. 1..at'[c] - 1 = {}
      BY <3>1
    <3> QED
      BY <1>3, <3>2, <3>3 DEF LeftBehind
  <2> QED
    BY <2>1, <2>2 DEF CallInv
<1> QED
  BY <1>7, <1>8, <1>9, UntouchedKeeps
(* Resolve: the answer is added at the current position, which the call    *)
(* has not left behind and where there is something to resolve.            *)
LEMMA ResolveKeeps ==
  ASSUME ChainInv, NEW c \in Calls, NEW answer \in Sourced(IPv6),
         Resolve(c, answer)
  PROVE  ChainInv'
<1> USE DEF ChainInv, Resolve
<1>1. /\ ctx[c] \in Context /\ stage[c] = "running" /\ at[c] \in Nat
      /\ at[c] \in DOMAIN ctx[c].chain.ids /\ asked[c] \in Nat
      /\ asked[c] < PlanAt(c).lookups
      /\ heard[c] \in Seq(Sourced(IPv6))
      /\ Len(heard[c]) = Len(ctx[c].chain.ids)
  BY DEF Trying, ChainTypeOK, Sourced
<1>2. ctx[c].chain.ids \in Seq(STRING)
  BY <1>1, BuiltChain
<1>3. at[c] \in 1..Len(heard[c]) /\ heard[c][at[c]] \in Sourced(IPv6)
  BY <1>1, <1>2
<1>4. heard'[c] = [heard[c] EXCEPT ![at[c]] = heard[c][at[c]] \cup answer]
      /\ asked'[c] = asked[c] + 1
  BY DEF ChainTypeOK
<1>5. heard[c][at[c]] \cup answer \in Sourced(IPv6)
  BY <1>3 DEF Sourced
<1>6. heard'[c] \in Seq(Sourced(IPv6)) /\ Len(heard'[c]) = Len(heard[c])
  <2> DEFINE e == heard[c][at[c]] \cup answer
  <2>1. heard'[c] = [heard[c] EXCEPT ![at[c]] = e] /\ e \in Sourced(IPv6)
    BY <1>4, <1>5
  <2> HIDE DEF e, Resolve
  <2>2. /\ [heard[c] EXCEPT ![at[c]] = e] \in Seq(Sourced(IPv6))
        /\ Len([heard[c] EXCEPT ![at[c]] = e]) = Len(heard[c])
    BY <1>1, <1>3, <2>1, ExceptSeq
  <2> QED
    BY <2>1, <2>2, Zenon
<1>7. ASSUME NEW d \in Calls, d # c PROVE Untouched(d)
  BY <1>7 DEF Untouched, ChainTypeOK
<1>8. ChainTypeOK'
  <2>1. \A d \in Calls : d # c => UNCHANGED <<heard[d], asked[d]>>
    BY <1>7 DEF Untouched
  <2>2. heard' \in [Calls -> Seq(Sourced(IPv6))]
    BY <1>6, <2>1 DEF ChainTypeOK, Sourced
  <2>3. asked' \in [Calls -> Nat]
    BY <1>1, <1>4, <2>1 DEF ChainTypeOK
  <2>4. \A d \in Calls : stage'[d] # "idle" => Len(heard'[d]) = Len(heard[d])
    BY <1>6, <2>1
  <2> QED
    BY <2>2, <2>3, <2>4 DEF ChainTypeOK, Sourced
<1>9. CallInv(c)'
  <2>1. Blank(c)' /\ Ended(c)'
    BY <1>1 DEF CallInv, Blank, Ended
  <2>2. \A q \in DOMAIN ctx[c].chain.ids :
          q # at[c] => heard'[c][q] = heard[c][q]
    BY <1>1, <1>2, <1>4
  <2>3. \A q \in 1..at[c] - 1 : YieldedBy(c, q)' = YieldedBy(c, q)
    <3>1. 1..at[c] - 1 \subseteq DOMAIN ctx[c].chain.ids
      BY <1>1, <1>2
    <3>2. \A q \in 1..at[c] - 1 : q # at[c]
      BY <1>1
    <3> QED
      BY <2>2, <3>1, <3>2 DEF YieldedBy
  <2>4. PlanOf(ctx[c], ctx[c].chain.ids[at[c]]).lookups # 0
    <3>1. IdAt(c) \in Ids
      BY <1>1, BuiltChain DEF IdAt
    <3>2. PlanAt(c) \in Plan \cup {NoPlan}
      BY <1>1, <3>1, PlanIsTyped DEF PlanAt
    <3>3. PlanAt(c).lookups \in Nat
      BY <3>2 DEF Plan, NoPlan
    <3> QED
      BY <1>1, <3>3 DEF PlanAt, IdAt
  <2>5. LeftBehind(c)'
    BY <1>1, <2>2, <2>3, <2>4 DEF CallInv, LeftBehind
  <2> QED
    BY <2>1, <2>5 DEF CallInv
<1> QED
  BY <1>7, <1>8, <1>9, UntouchedKeeps

(* TryNext: the position left behind has yielded nothing.                  *)
LEMMA TryNextKeeps ==
  ASSUME ChainInv, NEW c \in Calls, TryNext(c)
  PROVE  ChainInv'
<1> USE DEF ChainInv, TryNext
<1>1. /\ ctx[c] \in Context /\ stage[c] = "running" /\ at[c] \in Nat
      /\ at[c] \in DOMAIN ctx[c].chain.ids
  BY DEF Ready, Trying, ChainTypeOK
<1>2. ctx[c].chain.ids \in Seq(STRING)
  BY <1>1, BuiltChain
<1>3. at'[c] = at[c] + 1 /\ asked'[c] = 0
  BY DEF ChainTypeOK
<1>4. ASSUME NEW d \in Calls, d # c PROVE Untouched(d)
  BY <1>4 DEF Untouched, ChainTypeOK
<1>5. ChainTypeOK'
  <2>1. \A d \in Calls : d # c => UNCHANGED <<at[d], asked[d]>>
    BY <1>4 DEF Untouched
  <2>2. at' \in [Calls -> Nat] /\ asked' \in [Calls -> Nat]
    BY DEF ChainTypeOK
  <2>3. at'[c] \in 1..Len(ctx[c].chain.ids) + 1
    BY <1>1, <1>2, <1>3
  <2> QED
    BY <2>1, <2>2, <2>3 DEF ChainTypeOK
<1>6. CallInv(c)'
  <2>1. Blank(c)' /\ Ended(c)'
    BY <1>1 DEF CallInv, Blank, Ended
  <2>2. \A q \in 1..at'[c] - 1 : q = at[c] \/ q \in 1..at[c] - 1
    BY <1>1, <1>3
  <2>3. \A q : YieldedBy(c, q)' = YieldedBy(c, q)
    BY DEF YieldedBy
  <2>4. LeftBehind(c)'
    BY <1>1, <2>2, <2>3 DEF CallInv, LeftBehind, YieldedAt
  <2> QED
    BY <2>1, <2>4 DEF CallInv
<1> QED
  BY <1>4, <1>5, <1>6, UntouchedKeeps

(* Succeed: the call ends with what its position yields.                   *)
LEMMA SucceedKeeps ==
  ASSUME ChainInv, NEW c \in Calls, Succeed(c)
  PROVE  ChainInv'
<1> USE DEF ChainInv, Succeed
<1>1. /\ ctx[c] \in Context /\ stage[c] = "running"
      /\ at[c] \in DOMAIN ctx[c].chain.ids
  BY DEF Ready, Trying, ChainTypeOK
<1>2. IdAt(c) \in Ids
  BY <1>1, BuiltChain DEF IdAt
<1>3. PICK appended \in Appendable(ctx[c], IdAt(c)) :
        records' = [records EXCEPT ![c] = YieldedAt(c) \cup appended]
  OBVIOUS
<1>4. YieldedAt(c) \cup appended \in SUBSET [addr : Made, ttl : Nat]
  <2>1. \A r \in appended : r \in [addr : Made, ttl : Nat]
    BY <1>1, <1>2, AppendedIsTyped
  <2>2. \A r \in YieldedAt(c) : r \in [addr : Made, ttl : Nat]
    BY <1>1, PositionIsTyped DEF YieldedAt
  <2> QED
    BY <2>1, <2>2
<1>5. ASSUME NEW d \in Calls, d # c PROVE Untouched(d)
  BY <1>3, <1>5 DEF Untouched, ChainTypeOK
<1>6. ChainTypeOK'
  BY <1>1, <1>2, <1>3, <1>4 DEF ChainTypeOK
<1>7. CallInv(c)'
  <2>1. stage'[c] = "done" /\ winner'[c] = IdAt(c)
        /\ records'[c] = YieldedAt(c) \cup appended
    BY <1>3 DEF ChainTypeOK
  <2>2. Blank(c)'
    BY <2>1 DEF Blank
  <2>3. LeftBehind(c)'
    BY <1>1 DEF CallInv, LeftBehind, YieldedBy
  <2>4. Won(c)'
    BY <1>1, <2>1 DEF Won, IdAt, YieldedAt, YieldedBy
  <2> QED
    BY <2>2, <2>3, <2>4 DEF CallInv, Ended
<1> QED
  BY <1>5, <1>6, <1>7, UntouchedKeeps

(* GiveUp: the chain is exhausted.                                         *)
LEMMA GiveUpKeeps ==
  ASSUME ChainInv, NEW c \in Calls, GiveUp(c)
  PROVE  ChainInv'
<1> USE DEF ChainInv, GiveUp
<1>1. ctx[c] \in Context /\ stage[c] = "running" /\ stage'[c] = "done"
      /\ at[c] \in 1..Len(ctx[c].chain.ids) + 1
  BY DEF ChainTypeOK
<1>2. ASSUME NEW d \in Calls, d # c PROVE Untouched(d)
  BY <1>2 DEF Untouched, ChainTypeOK
<1>3. ChainTypeOK'
  BY <1>1 DEF ChainTypeOK
<1>4. CallInv(c)'
  <2>1. ctx[c].chain.ids \in Seq(STRING)
    BY <1>1, BuiltChain
  <2>2. at[c] = Len(ctx[c].chain.ids) + 1
    BY <1>1, <2>1
  <2>3. Exhausted(c)'
    BY <1>1, <2>2 DEF CallInv, Blank, Exhausted
  <2>4. Blank(c)' /\ LeftBehind(c)'
    BY <1>1 DEF CallInv, Blank, LeftBehind, YieldedBy
  <2> QED
    BY <2>3, <2>4 DEF CallInv, Ended
<1> QED
  BY <1>2, <1>3, <1>4, UntouchedKeeps

(* Whatever a call does, and whatever else happens, ChainInv is kept.      *)
LEMMA ChainKeeps ==
  ASSUME ChainInv, ChainNext \/ UNCHANGED chainVars
  PROVE  ChainInv'
<1>1. CASE ChainNext
  BY <1>1, BeginKeeps, ResolveKeeps, TryNextKeeps, SucceedKeeps, GiveUpKeeps
     DEF ChainNext, ChainStep
<1>2. CASE UNCHANGED chainVars
  <2>1. UNCHANGED <<ctx, stage, at, asked, heard, records, winner, hits>>
    BY <1>2 DEF chainVars
  <2>2. \A d \in Calls : Untouched(d)
    BY <2>1 DEF Untouched
  <2>3. ChainTypeOK'
    BY <2>1 DEF ChainInv, ChainTypeOK
  <2> QED
    BY <2>2, <2>3, UntouchedKeeps DEF ChainInv
<1> QED
  BY <1>1, <1>2
-------------------------------------------------------------------------------
(* The records of a call that ended with a winner: those its position      *)
(* yields, and at most one NAT64 record more.                              *)
LEMMA WonRecords ==
  ASSUME ChainInv, NEW c \in Calls, records[c] # {} \/ winner[c] # "none"
  PROVE  /\ stage[c] = "done" /\ ctx[c] \in Context
         /\ at[c] \in DOMAIN ctx[c].chain.ids /\ winner[c] = IdAt(c)
         /\ IdAt(c) \in Ids
         /\ YieldedAt(c) # {} /\ YieldedAt(c) = YieldedBy(c, at[c])
         /\ \E appended \in Appendable(ctx[c], IdAt(c)) :
              records[c] = YieldedAt(c) \cup appended
         /\ Own(c) = YieldedAt(c)
<1>1. stage[c] = "done" /\ Won(c)
  BY DEF ChainInv, ChainTypeOK, CallInv, Blank, Ended, Exhausted
<1>2. ctx[c] \in Context /\ at[c] \in DOMAIN ctx[c].chain.ids
  BY <1>1 DEF ChainInv, ChainTypeOK, Won
<1>3. IdAt(c) \in Ids
  BY <1>2, BuiltChain DEF IdAt
<1>4. PICK appended \in Appendable(ctx[c], IdAt(c)) :
        records[c] = YieldedAt(c) \cup appended
  BY <1>1 DEF Won
<1>5. /\ \A r \in appended : IsEmbedded(r)
      /\ appended # {} => IdAt(c) # "nat64"
  BY <1>2, <1>3, AppendedIsTyped
<1>6. \A r \in YieldedAt(c) : IsEmbedded(r) <=> IdAt(c) = "nat64"
  BY <1>1, <1>2, PositionIsTyped DEF ChainInv, YieldedAt, IdAt
<1>7. Own(c) = YieldedAt(c)
  <2>1. winner[c] = IdAt(c)
    BY <1>1 DEF Won
  <2>2. CASE IdAt(c) = "nat64"
    BY <1>4, <1>5, <2>1, <2>2 DEF Own
  <2>3. CASE IdAt(c) # "nat64"
    BY <1>4, <1>5, <1>6, <2>1, <2>3 DEF Own, Embedded
  <2> QED
    BY <2>2, <2>3
<1> QED
  BY <1>1, <1>2, <1>3, <1>4, <1>7 DEF Won, YieldedAt

(* The first position that yields a usable address answers the call.       *)
LEMMA FirstYields == ChainInv => FirstThatYields
<1> SUFFICES ASSUME ChainInv, NEW c \in Calls, stage[c] = "done"
             PROVE  \/ /\ winner[c] = "none" /\ records[c] = {}
                       /\ \A p \in DOMAIN ctx[c].chain.ids :
                            YieldedBy(c, p) = {}
                    \/ \E p \in DOMAIN ctx[c].chain.ids :
                         /\ winner[c] = ctx[c].chain.ids[p]
                         /\ Own(c) = YieldedBy(c, p) /\ Own(c) # {}
                         /\ \A q \in 1..p - 1 : YieldedBy(c, q) = {}
  BY DEF FirstThatYields
<1>1. ctx[c] \in Context
  BY DEF ChainInv, ChainTypeOK
<1>2. \A q \in 1..at[c] - 1 : YieldedBy(c, q) = {}
  BY DEF ChainInv, CallInv, LeftBehind
<1>3. CASE Exhausted(c)
  <2>1. ctx[c].chain.ids \in Seq(STRING)
    BY <1>1, BuiltChain
  <2>2. 1..at[c] - 1 = DOMAIN ctx[c].chain.ids
    BY <1>3, <2>1 DEF Exhausted
  <2> QED
    BY <1>2, <1>3, <2>2 DEF Exhausted
<1>4. CASE Won(c)
  <2>1. winner[c] # "none" \/ records[c] # {}
    BY <1>4 DEF Won
  <2> QED
    BY <1>2, <2>1, WonRecords DEF IdAt
<1> QED
  BY <1>3, <1>4 DEF ChainInv, CallInv, Ended

(* The order that Chain::build insists on has the specific provider tried  *)
(* before the generic one, and the chain leaves it behind only barren.     *)
LEMMA SpecificFirst == ChainInv => SpecificBeforeGeneric
<1> SUFFICES ASSUME ChainInv, NEW c \in Calls, NEW pair \in Precedes,
                    winner[c] = pair[2],
                    Contains(ctx[c].chain.ids, pair[1])
             PROVE  \E p \in 1..at[c] - 1 :
                      ctx[c].chain.ids[p] = pair[1] /\ YieldedBy(c, p) = {}
  BY DEF SpecificBeforeGeneric
<1>1. winner[c] # "none"
  BY DEF Precedes
<1>2. /\ ctx[c] \in Context /\ stage[c] = "done"
      /\ at[c] \in DOMAIN ctx[c].chain.ids
      /\ ctx[c].chain.ids[at[c]] = pair[2]
  BY <1>1, WonRecords DEF IdAt
<1>3. PICK p \in 1..at[c] - 1 : ctx[c].chain.ids[p] = pair[1]
  BY <1>2, BuiltChain DEF ValidOrder
<1>4. YieldedBy(c, p) = {}
  BY <1>2, <1>3 DEF ChainInv, CallInv, LeftBehind
<1> QED
  BY <1>3, <1>4

(* A translator's address needs nat64 in the chain and, beside a           *)
(* provider's, the fallback.                                               *)
LEMMA TranslatorConfigured == ChainInv => TranslatorOnlyAsConfigured
<1> SUFFICES ASSUME ChainInv, NEW c \in Calls
             PROVE  /\ Embedded(c) # {} => Contains(ctx[c].chain.ids, "nat64")
                    /\ \A r \in Embedded(c) : r.addr.of \in Eligible(ctx[c])
                    /\ winner[c] \in Providers =>
                         /\ Embedded(c) # {} => ctx[c].chain.wanted
                         /\ \A r, s \in Embedded(c) : r = s
                         /\ Own(c) # {}
  BY DEF TranslatorOnlyAsConfigured
<1>1. CASE records[c] = {} /\ winner[c] = "none"
  <2>1. Embedded(c) = {}
    BY <1>1 DEF Embedded
  <2>2. winner[c] \in Providers => FALSE
    BY <1>1, RegistryAssumption
  <2> QED
    BY <2>1, <2>2
<1>2. CASE records[c] # {} \/ winner[c] # "none"
  <2>1. /\ stage[c] = "done" /\ ctx[c] \in Context
        /\ at[c] \in DOMAIN ctx[c].chain.ids /\ winner[c] = IdAt(c)
        /\ IdAt(c) \in Ids /\ YieldedAt(c) # {}
        /\ YieldedAt(c) = YieldedBy(c, at[c]) /\ Own(c) = YieldedAt(c)
    BY <1>2, WonRecords
  <2>2. PICK appended \in Appendable(ctx[c], IdAt(c)) :
          records[c] = YieldedAt(c) \cup appended
    BY <1>2, WonRecords
  <2>3. /\ \A r \in appended : /\ r \in Yielded(ctx[c], "nat64", {})
                               /\ IsEmbedded(r)
        /\ \A r, s \in appended : r = s
        /\ appended # {} => HasFallback(ctx[c].chain) /\ IdAt(c) # "nat64"
    BY <2>1, <2>2, AppendedIsTyped
  <2>4. \A r \in YieldedAt(c) :
          /\ IsEmbedded(r) <=> IdAt(c) = "nat64"
          /\ IsEmbedded(r) => r.addr.of \in Eligible(ctx[c])
    BY <2>1, PositionIsTyped DEF ChainInv, IdAt
  <2>5. \A r \in appended : r.addr.of \in Eligible(ctx[c])
    <3>1. {} \in Sourced(IPv6) /\ "nat64" \in Ids
      BY DEF Sourced, Ids
    <3> QED
      BY <2>1, <2>3, <3>1, YieldedIsTyped
  <2>6. ctx[c].chain.ids \in Seq(STRING)
    BY <2>1, BuiltChain
  <2>7. IdAt(c) = "nat64" => Contains(ctx[c].chain.ids, "nat64")
    BY <2>1, <2>6 DEF IdAt, Contains
  <2>8. appended # {} => Contains(ctx[c].chain.ids, "nat64")
                         /\ ctx[c].chain.wanted
    BY <2>3 DEF HasFallback
  <2>9. IdAt(c) # "nat64" => Embedded(c) = appended
    BY <2>2, <2>3, <2>4 DEF Embedded
  <2>10. IdAt(c) \in Providers => IdAt(c) # "nat64"
    BY RegistryAssumption
  <2>11. IdAt(c) = "nat64" => appended = {}
    BY <2>3
  <2>12. \A r \in Embedded(c) : r.addr.of \in Eligible(ctx[c])
    BY <2>2, <2>4, <2>5 DEF Embedded
  <2> QED
    BY <2>1, <2>3, <2>7, <2>8, <2>9, <2>10, <2>12
<1> QED
  BY <1>1, <1>2

(* The TTL of a record is the least of what it was made from, capped.      *)
LEMMA NeverOutlives == ChainInv => NeverOutlivesItsSource
<1> SUFFICES ASSUME ChainInv, NEW c \in Calls, NEW r \in records[c]
             PROVE  /\ ctx[c].chain.cap # NoCap => r.ttl <= ctx[c].chain.cap
                    /\ r.addr.via \in {"nat64", "transform"} =>
                         \A source \in ctx[c].a : r.ttl <= source.ttl
                    /\ r.addr.via \in {"verbatim", "fuse"} =>
                         \A source \in heard[c][at[c]] : r.ttl <= source.ttl
  BY DEF NeverOutlivesItsSource
<1>1. /\ stage[c] = "done" /\ ctx[c] \in Context
      /\ at[c] \in DOMAIN ctx[c].chain.ids
      /\ IdAt(c) \in Ids /\ YieldedAt(c) = YieldedBy(c, at[c])
  BY WonRecords
<1>2. PICK appended \in Appendable(ctx[c], IdAt(c)) :
        records[c] = YieldedAt(c) \cup appended
  BY WonRecords
<1> DEFINE Base(got) == BaseTtl(ctx[c], got)
<1>3. ASSUME NEW got \in Sourced(IPv6),
             r.ttl = Capped(Base(got), ctx[c].chain.cap)
      PROVE  /\ ctx[c].chain.cap # NoCap => r.ttl <= ctx[c].chain.cap
             /\ \A s \in got : r.ttl <= s.ttl
             /\ got = {} => \A s \in ctx[c].a : r.ttl <= s.ttl
  <2>1. /\ Base(got) \in Nat
        /\ \A s \in got : Base(got) <= s.ttl
        /\ got = {} => \A s \in ctx[c].a : Base(got) <= s.ttl
    BY <1>1, BaseTtlBounds
  <2>2. ctx[c].chain.cap \in Nat \/ ctx[c].chain.cap = NoCap
    BY <1>1, BuiltChain
  <2> HIDE DEF Base
  <2>3. /\ r.ttl \in Nat /\ r.ttl <= Base(got)
        /\ ctx[c].chain.cap # NoCap => r.ttl <= ctx[c].chain.cap
    BY <1>3, <2>1, <2>2, CappedBounds
  <2>4. \A s \in got : s.ttl \in Nat
    BY DEF Sourced
  <2>5. \A s \in ctx[c].a : s.ttl \in Nat
    BY <1>1 DEF Context
  <2> QED
    BY <2>1, <2>3, <2>4, <2>5
<1>4. CASE r \in appended
  <2>1. r \in Yielded(ctx[c], "nat64", {}) /\ IsEmbedded(r)
    BY <1>1, <1>2, <1>4, AppendedIsTyped
  <2>2. {} \in Sourced(IPv6) /\ "nat64" \in Ids
    BY DEF Sourced, Ids
  <2>3. r.ttl = Capped(Base({}), ctx[c].chain.cap)
    BY <1>1, <2>1, <2>2, YieldedIsTyped
  <2> HIDE DEF Base
  <2>4. r.addr.via = "nat64"
    BY <2>1 DEF IsEmbedded
  <2> QED
    BY <1>3, <2>2, <2>3, <2>4
<1>5. CASE r \in YieldedAt(c)
  <2>1. /\ heard[c][at[c]] \in Sourced(IPv6)
        /\ r.ttl = Capped(Base(heard[c][at[c]]), ctx[c].chain.cap)
        /\ r.addr.via \in {"nat64", "transform"} =>
             PlanOf(ctx[c], ctx[c].chain.ids[at[c]]).lookups = 0
    BY <1>1, <1>5, PositionIsTyped DEF ChainInv
  <2>2. r.addr.via \in {"nat64", "transform"} => heard[c][at[c]] = {}
    BY <1>1, <2>1 DEF ChainInv, CallInv, LeftBehind
  <2> HIDE DEF Base
  <2> QED
    BY <1>3, <2>1, <2>2
<1> QED
  BY <1>2, <1>4, <1>5
===============================================================================
