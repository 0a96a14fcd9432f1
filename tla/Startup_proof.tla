----------------------------- MODULE Startup_proof -----------------------------
(***************************************************************************)
(* Nobody is served by a server other than the configured one, for every   *)
(* configuration, every environment and every way the lists load; and the  *)
(* lists that load decide every query as they say, whichever fail.         *)
(*                                                                         *)
(* Established says what main has behind it at each step, LoadInv what the *)
(* lists that are done with have left in the sets.  The walk of is_blocked *)
(* is a recursive function: its closed form satisfies the recursion, and   *)
(* the smallest step at which another solution differed would follow one   *)
(* at which it did not.  First of all, the masks of acl.rs decide what the *)
(* allowlist means, the prefixes 0 and Width included.                     *)
(***************************************************************************)
EXTENDS Startup, FiniteSetTheorems, SequenceTheorems, WellFoundedInduction,
        TLAPS

(* mask: a prefix selects the bits it counts, from the upper end.          *)
LEMMA MaskSelectsPrefix ==
  ASSUME NEW p \in 0..Width
  PROVE Mask(p) = Width - p..Width - 1
<1> USE WidthAssumption
<1>1. CASE p = 0
  BY <1>1 DEF Mask
<1>2. CASE p # 0
  <2>1. ASSUME NEW b \in Width - p..Width - 1
        PROVE b \in ShiftLeft(AllOnes, Width - p)
    <3>1. b - (Width - p) \in AllOnes
      BY <2>1 DEF AllOnes
    <3>2. b = (b - (Width - p)) + (Width - p)
      BY <2>1
    <3>3. b \in AllOnes
      BY <2>1, <1>2 DEF AllOnes
    <3> QED
      BY <3>1, <3>2, <3>3 DEF ShiftLeft
  <2>2. ASSUME NEW b \in ShiftLeft(AllOnes, Width - p)
        PROVE b \in Width - p..Width - 1
    BY DEF ShiftLeft, AllOnes
  <2> QED
    BY <1>2, <2>1, <2>2 DEF Mask
<1> QED
  BY <1>1, <1>2

(* contains: two words have the same bits under a mask just when they      *)
(* agree on every bit that the prefix counts.                              *)
LEMMA ContainsAgrees ==
  ASSUME NEW entry \in Entry, Parses(entry), NEW bits \in Word
  PROVE Contains6(Net6(entry), bits)
          <=> \A b \in Width - PrefixOf(entry)..Width - 1 :
                b \in bits <=> b \in entry.addr.bits
<1> DEFINE p == PrefixOf(entry)
<1>1. p \in 0..Width
  BY WidthAssumption DEF PrefixOf, Parses, Entry, Bare
<1>2. Mask(p) = Width - p..Width - 1
  BY <1>1, MaskSelectsPrefix
<1>3. Contains6(Net6(entry), bits)
        <=> bits \cap Mask(p) = entry.addr.bits \cap Mask(p)
  BY DEF Contains6, Net6
<1> QED
  BY <1>2, <1>3

(* parse and allows: a client may query exactly if the allowlist, as an    *)
(* operator reads it, lists its address.                                   *)
THEOREM AllowsExactlyTheListed ==
  \A entries \in SUBSET Entry : \A client \in Address :
    ParsesAll(entries) =>
      (Allows(Parse(entries), client) <=> Listed(entries, client))
<1> SUFFICES ASSUME NEW entries \in SUBSET Entry, NEW client \in Address,
                    ParsesAll(entries)
             PROVE Allows(Parse(entries), client) <=> Listed(entries, client)
  OBVIOUS
<1>1. Parse(entries) = {} <=> entries = {}
  BY DEF Parse
<1>2. client.bits \in Word
  BY DEF Address
<1>3. ASSUME NEW entry \in entries
      PROVE Contains6(Net6(entry), client.bits)
              <=> \A b \in Width - PrefixOf(entry)..Width - 1 :
                    b \in client.bits <=> b \in entry.addr.bits
  BY <1>2, ContainsAgrees DEF ParsesAll
<1>4. (\E net \in Parse(entries) : Contains6(net, client.bits))
        <=> \E entry \in entries : Contains6(Net6(entry), client.bits)
  BY DEF Parse
<1> QED
  BY <1>1, <1>3, <1>4 DEF Allows, Listed
-------------------------------------------------------------------------------
(* config.rs rejects a prefix whose addresses the chain's filter would     *)
(* strip, and looks at the prefix alone: what is embedded changes neither  *)
(* the first segment nor makes the address the unspecified or loopback one.*)
LEMMA EmbeddingStaysGlobal ==
  ASSUME NEW prefix \in [1..8 -> Segment], NEW o \in [1..4 -> Octet],
         LowBitsAreZero(prefix), IsGlobalUnicastV6(prefix)
  PROVE IsGlobalUnicastV6(Embed(prefix, o))
<1> DEFINE e == Embed(prefix, o)
<1>1. \A i \in 1..6 : e[i] = prefix[i]
  BY DEF Embed
<1>2. PICK i \in 1..6 : prefix[i] # 0
  <2> SUFFICES ASSUME \A i \in 1..6 : prefix[i] = 0
               PROVE prefix = Unspecified
    BY DEF IsGlobalUnicastV6
  <2>1. \A i \in 1..8 : prefix[i] = 0
    BY DEF LowBitsAreZero
  <2> QED
    BY <2>1 DEF Unspecified
<1>3. e \notin {Unspecified, Loopback}
  BY <1>1, <1>2 DEF Unspecified, Loopback
<1>4. e[1] = prefix[1]
  BY <1>1
<1> HIDE DEF e
<1>5. IsGlobalUnicastV6(e)
  BY <1>3, <1>4 DEF IsGlobalUnicastV6
<1> QED
  BY <1>5, Zenon DEF e

(* A prefix with its low bits zero is what it embeds 0.0.0.0 as.           *)
LEMMA EmbeddingNothing ==
  ASSUME NEW prefix \in [1..8 -> Segment], LowBitsAreZero(prefix)
  PROVE Embed(prefix, <<0, 0, 0, 0>>) = prefix
BY DEF Embed, LowBitsAreZero

(* What main has established by the step it has come to: everything behind *)
(* a step that may abort holds after it.                                   *)
Dialled == {"loading", "binding udp", "binding tcp", "serving"}
Prepared == {"binding udp", "binding tcp", "serving"}

Established ==
  /\ config \in Config
  /\ world \in World
  /\ step \in StepValue
  /\ connected \in Nat
  /\ step \notin {"validating", "failed"} => IsValid(config)
  /\ \A u \in 1..connected : u \notin world.down
  /\ step \in Dialled => connected = config.upstreams
  /\ step \in Prepared =>
       (config.lists => loaded) /\ acl = Parse(config.networks)
  /\ queryLog => config.ui
  /\ sockets # {} => step \in {"binding tcp", "serving"}

(* Before its first step, main has promised nothing.                       *)
LEMMA EstablishedAtFirst == Init => Established
BY StartupAssumption DEF Init, Established, StepValue, Dialled, Prepared,
   LoadInit

(* What main established stays, and every step that may abort adds to it.  *)
LEMMA EstablishedNext == Established /\ [Next]_vars => Established'
<1> SUFFICES ASSUME Established, [Next]_vars
             PROVE Established'
  OBVIOUS
<1> USE DEF Established, StepValue, Dialled, Prepared
<1>1. CASE UNCHANGED vars
  BY <1>1 DEF vars, startVars, loadVars
<1>2. CASE Validate
  BY <1>2 DEF Validate, Abort, loadVars
<1>3. CASE Build
  BY <1>3 DEF Build, Abort, loadVars
<1>4. CASE Connect
  <2>1. CASE connected + 1 \in world.down
    BY <1>4, <2>1 DEF Connect, Abort, loadVars
  <2>2. CASE connected + 1 \notin world.down
    <3>1. connected \in Nat /\ (\A u \in 1..connected : u \notin world.down)
      BY DEF Established
    <3> HIDE DEF Established
    <3>2. \A u \in 1..connected + 1 : u \in 1..connected \/ u = connected + 1
      BY <3>1
    <3>3. \A u \in 1..connected + 1 : u \notin world.down
      BY <2>2, <3>1, <3>2
    <3> USE DEF Established
    <3> QED
      BY <1>4, <2>2, <3>1, <3>3 DEF Connect, loadVars
  <2> QED
    BY <2>1, <2>2
<1>5. CASE Connected
  BY <1>5 DEF Connected, loadVars
<1>6. CASE Load
  BY <1>6 DEF Load, startVars
<1>7. CASE Prepare
  BY <1>7 DEF Prepare, loadVars
<1>8. CASE Bind("udp", "binding udp", "binding tcp")
  BY <1>8 DEF Bind, Abort, loadVars
<1>9. CASE Bind("tcp", "binding tcp", "serving")
  BY <1>9 DEF Bind, Abort, loadVars
<1>10. ASSUME NEW s \in Service, Serve(s)
       PROVE Established'
  BY <1>10 DEF Serve, loadVars
<1> QED
  BY <1>1, <1>2, <1>3, <1>4, <1>5, <1>6, <1>7, <1>8, <1>9, <1>10
     DEF Next, Main

(* What is established is what a server owes its operator.                 *)
LEMMA EstablishedSuffices == Established => ServesOnlyAsConfigured
<1> SUFFICES ASSUME Established, sockets # {}
             PROVE /\ \A client \in Address :
                        Allows(acl, client) <=> Listed(config.networks, client)
                   /\ config.lists => loaded
                   /\ 1..config.upstreams \cap world.down = {}
                   /\ config.upstreams > 0
                   /\ queryLog => config.ui
                   /\ \A o \in Translated :
                        IsGlobalUnicastV6(Embed(config.prefix, o))
                   /\ Embed(config.prefix, <<0, 0, 0, 0>>) = config.prefix
  BY DEF ServesOnlyAsConfigured
<1>1. /\ IsValid(config) /\ config \in Config
      /\ step \in Dialled /\ step \in Prepared
  BY DEF Established, Dialled, Prepared
<1>2. /\ config.prefix \in [1..8 -> Segment]
      /\ config.networks \in SUBSET Entry
  BY <1>1 DEF Config
<1>3. \A client \in Address :
        Allows(acl, client) <=> Listed(config.networks, client)
  BY <1>1, <1>2, AllowsExactlyTheListed DEF Established, IsValid
<1>4. 1..config.upstreams \cap world.down = {}
  BY <1>1 DEF Established
<1>5. \A o \in Translated : IsGlobalUnicastV6(Embed(config.prefix, o))
  BY <1>1, <1>2, EmbeddingStaysGlobal, StartupAssumption DEF IsValid
<1>6. Embed(config.prefix, <<0, 0, 0, 0>>) = config.prefix
  BY <1>1, <1>2, EmbeddingNothing DEF IsValid
<1> QED
  BY <1>1, <1>3, <1>4, <1>5, <1>6 DEF Established, IsValid

(* main: from the first socket on, the server is what its operator         *)
(* configured, whatever fails on the way.                                  *)
THEOREM ServedAsConfigured == Spec => []ServesOnlyAsConfigured
<1>1. Spec => []Established
  BY EstablishedAtFirst, EstablishedNext, PTL DEF Spec
<1> QED
  BY <1>1, EstablishedSuffices, PTL
-------------------------------------------------------------------------------
(* Of natural numbers, there is a smallest.                                *)
LEMMA SmallestExists ==
  ASSUME NEW D \in SUBSET Nat, D # {}
  PROVE  \E m \in D : \A i \in D : m <= i
<1> DEFINE Below == {0..i : i \in D}
<1>1. Below \subseteq FiniteSubsetsOf(Nat)
  <2> SUFFICES ASSUME NEW i \in D PROVE 0..i \in FiniteSubsetsOf(Nat)
    OBVIOUS
  <2>1. IsFiniteSet(0..i)
    BY FS_Interval
  <2>2. 0..i \in SUBSET Nat
    OBVIOUS
  <2> QED
    BY <2>1, <2>2, Zenon DEF FiniteSubsetsOf
<1>2. Below # {}
  OBVIOUS
<1>3. PICK x \in Below : \A y \in Below :
         ~(<<y, x>> \in StrictSubsetOrdering(Nat))
  <2> HIDE DEF Below
  <2> QED
    BY <1>1, <1>2, FS_StrictSubsetOrderingWellFounded, WFMin, Zenon
<1>4. PICK m \in D : x = 0..m
  OBVIOUS
<1>5. ASSUME NEW i \in D PROVE m <= i
  <2> SUFFICES ASSUME ~(m <= i) PROVE FALSE
    OBVIOUS
  <2>1. 0..i \subseteq 0..m /\ 0..i # 0..m
    OBVIOUS
  <2>2. 0..i \in SUBSET Nat /\ 0..m \in SUBSET Nat /\ 0..i \in Below
    OBVIOUS
  <2>3. <<0..i, 0..m>> \in StrictSubsetOrdering(Nat)
    <3> HIDE DEF Below
    <3> QED
      BY <2>1, <2>2, Zenon DEF StrictSubsetOrdering
  <2> QED
    BY <2>2, <2>3, <1>3, <1>4
<1> QED
  BY <1>5

(* is_blocked's walk finds, step by step, what it should: a first step at  *)
(* which it did not would follow one at which it did.                      *)
LEMMA WalkDecides ==
  ASSUME NEW name \in Seq(Labels)
  PROVE  Walk(name) <=>
           /\ \E j \in 1..Len(name) : Suffix(name, j) \in block
           /\ \A j \in 1..Len(name) : Suffix(name, j) \notin allow
<1> DEFINE n == Len(name)
           Blocks(i) == Suffix(name, i) \in block
           Frees(i) == Suffix(name, i) \in allow
           Step(f) == [i \in 0..n |->
             IF i = 0 THEN "nothing"
             ELSE IF f[i - 1] = "allowed" \/ Frees(i) THEN "allowed"
             ELSE IF Blocks(i) THEN "blocked" ELSE f[i - 1]]
           Finds(i) == IF \E j \in 1..i : Frees(j) THEN "allowed"
                       ELSE IF \E j \in 1..i : Blocks(j) THEN "blocked"
                       ELSE "nothing"
           closed == [i \in 0..n |-> Finds(i)]
           found == CHOOSE f : f = Step(f)
<1>1. n \in Nat
  BY LenProperties
<1>2. Walk(name) <=> found[n] = "blocked"
  BY DEF Walk
<1> HIDE DEF n, Blocks, Frees
<1>3. Finds(0) = "nothing"
  OBVIOUS
<1>4. ASSUME NEW i \in 1..n
      PROVE  /\ i - 1 \in 0..n
             /\ Finds(i) =
                  IF Finds(i - 1) = "allowed" \/ Frees(i) THEN "allowed"
                  ELSE IF Blocks(i) THEN "blocked" ELSE Finds(i - 1)
  <2>1. 1..i = 1..(i - 1) \cup {i} /\ i - 1 \in 0..n
    BY <1>1
  <2>2. Finds(i - 1) = "allowed" <=> \E j \in 1..(i - 1) : Frees(j)
    OBVIOUS
  <2> QED
    BY <2>1, <2>2
<1>5. closed = Step(closed)
  <2> HIDE DEF Finds
  <2> QED
    BY <1>3, <1>4
<1>6. found = Step(found)
  <2> HIDE DEF closed, Step
  <2> QED
    BY <1>5, Zenon
<1>7. ASSUME NEW i \in 0..n
      PROVE  found[i] = Finds(i)
  <2> DEFINE Wrong == {k \in 0..n : found[k] # Finds(k)}
  <2> HIDE DEF found, Finds
  <2> SUFFICES ASSUME Wrong # {} PROVE FALSE
    OBVIOUS
  <2>1. PICK m \in Wrong : \A k \in Wrong : m <= k
    <3>1. Wrong \in SUBSET Nat
      OBVIOUS
    <3> HIDE DEF Wrong
    <3> QED
      BY <3>1, SmallestExists
  <2>2. m \in 0..n /\ found[m] # Finds(m)
    OBVIOUS
  <2>3. m # 0
    BY <1>3, <1>6, <2>2
  <2>4. m \in 1..n /\ m - 1 \in 0..n /\ m - 1 \notin Wrong
    <3> HIDE DEF Wrong
    <3> QED
      BY <1>1, <2>1, <2>2, <2>3
  <2>5. found[m - 1] = Finds(m - 1)
    BY <2>4
  <2> QED
    BY <1>4, <1>6, <2>2, <2>4, <2>5
<1>8. found[n] = Finds(n)
  BY <1>1, <1>7
<1> QED
  BY <1>2, <1>8, <1>1 DEF n, Blocks, Frees

(* A suffix, said in the positions of its elements.                        *)
LEMMA SuffixPositions ==
  ASSUME NEW S, NEW s \in Seq(S), NEW t \in Seq(S)
  PROVE  IsSuffix(s, t) <=>
           /\ Len(s) <= Len(t)
           /\ \A i \in 1..Len(s) : s[i] = t[Len(t) - Len(s) + i]
<1> DEFINE rs == Reverse(s)
           rt == Reverse(t)
<1>1. Len(s) \in Nat /\ Len(t) \in Nat
  BY LenProperties
<1>2. /\ rs \in Seq(S) /\ Len(rs) = Len(s)
      /\ \A i \in 1..Len(s) : rs[i] = s[Len(s) - i + 1]
  BY <1>1 DEF Reverse
<1>3. /\ rt \in Seq(S) /\ Len(rt) = Len(t)
      /\ \A i \in 1..Len(t) : rt[i] = t[Len(t) - i + 1]
  BY <1>1 DEF Reverse
<1> HIDE DEF rs, rt
<1>4. IsSuffix(s, t) <=>
        /\ Len(s) <= Len(t)
        /\ SubSeq(rs, 1, Len(s)) = SubSeq(rt, 1, Len(s))
  BY <1>2, <1>3 DEF IsSuffix, IsPrefix, rs, rt
<1> SUFFICES ASSUME Len(s) <= Len(t)
             PROVE  SubSeq(rs, 1, Len(s)) = SubSeq(rt, 1, Len(s)) <=>
                      \A i \in 1..Len(s) : s[i] = t[Len(t) - Len(s) + i]
  BY <1>4
<1>5. /\ SubSeq(rs, 1, Len(s)) \in Seq(S) /\ SubSeq(rt, 1, Len(s)) \in Seq(S)
      /\ Len(SubSeq(rs, 1, Len(s))) = Len(s)
      /\ Len(SubSeq(rt, 1, Len(s))) = Len(s)
      /\ \A i \in 1..Len(s) : /\ SubSeq(rs, 1, Len(s))[i] = rs[i]
                              /\ SubSeq(rt, 1, Len(s))[i] = rt[i]
  BY <1>1, <1>2, <1>3
<1>6. SubSeq(rs, 1, Len(s)) = SubSeq(rt, 1, Len(s)) <=>
        \A i \in 1..Len(s) : rs[i] = rt[i]
  <2> DEFINE u == SubSeq(rs, 1, Len(s))
             v == SubSeq(rt, 1, Len(s))
  <2>1. ASSUME \A i \in 1..Len(s) : rs[i] = rt[i]
        PROVE  u = v
    <3>1. \A i \in 1..Len(s) : u[i] = v[i]
      BY <1>5, <2>1
    <3> HIDE DEF u, v
    <3> QED
      BY <1>5, <3>1, SeqEqual DEF u, v
  <2>2. ASSUME u = v, NEW i \in 1..Len(s)
        PROVE  rs[i] = rt[i]
    BY <1>5, <2>2
  <2> QED
    BY <2>1, <2>2
<1>7. \A i \in 1..Len(s) : /\ Len(s) - i + 1 \in 1..Len(s)
                          /\ Len(s) - (Len(s) - i + 1) + 1 = i
                          /\ i \in 1..Len(t)
                          /\ Len(t) - Len(s) + (Len(s) - i + 1) = Len(t) - i + 1
                          /\ Len(t) - (Len(s) - i + 1) + 1 = Len(t) - Len(s) + i
  BY <1>1
<1>8. ASSUME \A i \in 1..Len(s) : rs[i] = rt[i], NEW i \in 1..Len(s)
      PROVE  s[i] = t[Len(t) - Len(s) + i]
  <2> DEFINE j == Len(s) - i + 1
  <2>1. /\ j \in 1..Len(s) /\ j \in 1..Len(t)
        /\ Len(s) - j + 1 = i /\ Len(t) - j + 1 = Len(t) - Len(s) + i
    BY <1>7
  <2> HIDE DEF j
  <2>2. rs[j] = s[i] /\ rt[j] = t[Len(t) - Len(s) + i]
    BY <1>2, <1>3, <2>1
  <2> QED
    BY <1>8, <2>1, <2>2
<1>9. ASSUME \A i \in 1..Len(s) : s[i] = t[Len(t) - Len(s) + i],
             NEW i \in 1..Len(s)
      PROVE  rs[i] = rt[i]
  <2> DEFINE j == Len(s) - i + 1
  <2>1. j \in 1..Len(s) /\ Len(t) - Len(s) + j = Len(t) - i + 1
    BY <1>7
  <2>2. rs[i] = s[j] /\ rt[i] = t[Len(t) - i + 1]
    BY <1>2, <1>3, <1>7
  <2> HIDE DEF j
  <2> QED
    BY <1>9, <2>1, <2>2
<1> QED
  BY <1>6, <1>8, <1>9

(* The entries the walk looks up are the suffixes of the name.             *)
LEMMA WalksTheSuffixes ==
  ASSUME NEW name \in Seq(Labels), NEW d \in Name
  PROVE  IsSuffix(d, name) <=> \E j \in 1..Len(name) : d = Suffix(name, j)
<1>1. /\ Len(name) \in Nat /\ Len(d) \in Nat /\ Len(d) > 0
      /\ d \in Seq(Labels)
  BY LenProperties, EmptySeq DEF Name
<1>2. ASSUME NEW j \in 1..Len(name)
      PROVE  /\ Suffix(name, j) \in Seq(Labels)
             /\ Len(Suffix(name, j)) = Len(name) - j + 1
             /\ \A i \in 1..Len(name) - j + 1 :
                  Suffix(name, j)[i] = name[j + i - 1]
  BY <1>1 DEF Suffix
<1>3. ASSUME NEW j \in 1..Len(name), d = Suffix(name, j)
      PROVE  IsSuffix(d, name)
  <2>1. Len(d) = Len(name) - j + 1
    BY <1>2, <1>3
  <2>3. Len(d) <= Len(name)
    BY <1>1, <2>1
  <2>2. ASSUME NEW i \in 1..Len(d)
        PROVE  d[i] = name[Len(name) - Len(d) + i]
    <3>1. /\ i \in 1..Len(name) - j + 1
          /\ Len(name) - Len(d) + i = j + i - 1
      BY <1>1, <2>1
    <3> QED
      BY <1>2, <1>3, <3>1
  <2> QED
    BY <1>1, <2>2, <2>3, SuffixPositions
<1>4. ASSUME IsSuffix(d, name)
      PROVE  \E j \in 1..Len(name) : d = Suffix(name, j)
  <2> DEFINE j == Len(name) - Len(d) + 1
  <2>1. /\ Len(d) <= Len(name)
        /\ \A i \in 1..Len(d) : d[i] = name[Len(name) - Len(d) + i]
    BY <1>1, <1>4, SuffixPositions
  <2>2. /\ j \in 1..Len(name) /\ Len(name) - j + 1 = Len(d)
        /\ \A i \in 1..Len(d) : j + i - 1 = Len(name) - Len(d) + i
    BY <1>1, <2>1
  <2> HIDE DEF j
  <2>3. /\ Suffix(name, j) \in Seq(Labels)
        /\ Len(Suffix(name, j)) = Len(d)
        /\ \A i \in 1..Len(d) : Suffix(name, j)[i] = d[i]
    BY <1>2, <2>1, <2>2
  <2>4. d = Suffix(name, j)
    BY <1>1, <2>3, SeqEqual
  <2> QED
    BY <2>2, <2>4
<1> QED
  BY <1>3, <1>4

(* So a query is decided as the sets say, whatever names they hold.        *)
LEMMA WalkFollowsTheLists ==
  ASSUME block \subseteq Name, allow \subseteq Name
  PROVE  BlocksAsListed
<1> SUFFICES ASSUME NEW name \in Queries
             PROVE  IsBlocked(name) <=>
                      /\ \E d \in block : d # <<>> /\ IsSuffix(d, name)
                      /\ ~\E d \in allow : d # <<>> /\ IsSuffix(d, name)
  BY DEF BlocksAsListed
<1>1. name \in Seq(Labels)
  BY BlocklistAssumption
<1>2. \A d \in block \cup allow :
        /\ d # <<>>
        /\ IsSuffix(d, name) <=>
             \E j \in 1..Len(name) : d = Suffix(name, j)
  <2>1. \A d \in block \cup allow : d \in Name /\ d # <<>>
    BY DEF Name
  <2> QED
    BY <1>1, <2>1, WalksTheSuffixes
<1>3. Walk(name) <=>
        /\ \E j \in 1..Len(name) : Suffix(name, j) \in block
        /\ \A j \in 1..Len(name) : Suffix(name, j) \notin allow
  BY <1>1, WalkDecides
<1>4. name = <<>> => 1..Len(name) = {}
  OBVIOUS
<1> HIDE DEF Suffix
<1> QED
  BY <1>2, <1>3, <1>4 DEF IsBlocked
-------------------------------------------------------------------------------
(* parse_line: whatever a line says, it says of names among its words.     *)
LEMMA LinesSayNames ==
  ASSUME NEW line \in Line
  PROVE  /\ DOMAIN ParseLine(line).names \subseteq 1..Len(line.words)
         /\ \A i \in DOMAIN ParseLine(line).names :
              ParseLine(line).names[i] \in Name
<1>1. /\ DOMAIN line.words = 1..Len(line.words)
      /\ \A i \in DOMAIN line.words : line.words[i].name \in Name
  <2>1. line.words \in Seq(Token)
    BY DEF Line
  <2>2. \A i \in 1..Len(line.words) : line.words[i] \in Token
    BY <2>1
  <2>3. \A w \in Token : w.name \in Name
    BY DEF Token
  <2> QED
    BY <2>1, <2>2, <2>3
<1>2. ASSUME NEW kind, NEW there, there \subseteq DOMAIN line.words
      PROVE  LET said == Says(kind, line.words, there)
             IN /\ DOMAIN said.names \subseteq 1..Len(line.words)
                /\ \A i \in DOMAIN said.names : said.names[i] \in Name
  BY <1>1, <1>2 DEF Says
<1>3. \A kind : DOMAIN Nothing(kind).names = {}
  BY DEF Nothing, Says
<1>4. Hosts(line) \subseteq DOMAIN line.words
  BY DEF Hosts
<1>5. Len(line.words) = 1 => {1} \subseteq DOMAIN line.words
  BY <1>1
<1>6. ParseLine(line) \in
        {Nothing(k) : k \in {"ignore", "skip"}}
        \cup {Says("block", line.words, Hosts(line))}
        \cup (IF Len(line.words) = 1
             THEN {Says(k, line.words, {1}) : k \in {"allow", "block"}} ELSE {})
  BY DEF ParseLine, Rule
<1> QED
  BY <1>2, <1>3, <1>4, <1>5, <1>6

(* So the sets are extended by names alone.                                *)
LEMMA ParsedNames ==
  ASSUME NEW lines \in Seq(Line), NEW kind
  PROVE  NamesOf(lines, kind) \subseteq Name
<1>1. \A l \in ToSet(Parsed(lines)) : \E line \in Line : l = ParseLine(line)
  BY DEF Parsed, ToSet
<1>2. \A l \in ToSet(Parsed(lines)) : ToSet(l.names) \subseteq Name
  BY <1>1, LinesSayNames DEF ToSet
<1> QED
  BY <1>2 DEF NamesOf

(* load counts what it extends the set by: a count of zero is none.        *)
LEMMA CountsWhatItAdds ==
  ASSUME NEW lines \in Seq(Line), NEW kind, kind # "skip"
  PROVE  /\ Tally(lines, kind) \in Nat
         /\ Tally(lines, kind) = 0 => NamesOf(lines, kind) = {}
<1> DEFINE said == Parsed(lines)
           saying == {i \in DOMAIN said : said[i].kind = kind}
           Named(i) == {i} \X DOMAIN said[i].names
           all == UNION {Named(i) : i \in saying}
<1>1. Tally(lines, kind) = Cardinality(all)
  BY DEF Tally
<1>2. /\ DOMAIN said = 1..Len(lines) /\ Len(lines) \in Nat
      /\ \A i \in DOMAIN said : lines[i] \in Line
                             /\ said[i] = ParseLine(lines[i])
  BY LenProperties DEF Parsed
<1>3. IsFiniteSet(all)
  <2>1. IsFiniteSet(saying)
    <3>1. IsFiniteSet(1..Len(lines))
      BY <1>2, FS_Interval
    <3> QED
      BY <1>2, <3>1, FS_Subset
  <2>2. ASSUME NEW i \in saying
        PROVE  IsFiniteSet(Named(i))
    <3>1. IsFiniteSet(DOMAIN said[i].names)
      <4>1. Len(lines[i].words) \in Nat
        BY <1>2, LenProperties DEF Line
      <4>2. DOMAIN said[i].names \subseteq 1..Len(lines[i].words)
        BY <1>2, LinesSayNames
      <4>3. IsFiniteSet(1..Len(lines[i].words))
        BY <4>1, FS_Interval
      <4> QED
        BY <4>2, <4>3, FS_Subset, Zenon
    <3> QED
      BY <3>1, FS_Singleton, FS_Product
  <2>3. IsFiniteSet({Named(i) : i \in saying})
    <3> DEFINE f == [i \in saying |-> Named(i)]
    <3>1. f \in Surjection(saying, {Named(i) : i \in saying})
      BY DEF Surjection
    <3> HIDE DEF f, said, saying, Named
    <3> QED
      BY <2>1, <3>1, FS_Surjection
  <2> QED
    BY <2>2, <2>3, FS_UNION
<1>4. Cardinality(all) \in Nat /\ (Cardinality(all) = 0 => all = {})
  BY <1>3, FS_CardinalityType, FS_EmptySet
<1>5. all = {} => NamesOf(lines, kind) = {}
  <2> SUFFICES ASSUME NEW name \in NamesOf(lines, kind)
               PROVE  all # {}
    OBVIOUS
  <2>1. PICK i \in DOMAIN said :
          said[i].kind = kind /\ name \in ToSet(said[i].names)
    BY DEF NamesOf, ToSet
  <2>2. PICK j \in DOMAIN said[i].names : name = said[i].names[j]
    BY <2>1 DEF ToSet
  <2>3. <<i, j>> \in Named(i) /\ i \in saying
    BY <2>1, <2>2
  <2> QED
    BY <2>3
<1> QED
  BY <1>1, <1>4, <1>5

(* SourceStat's counts, and those of a list that failed.                   *)
LEMMA CountIsNatural ==
  ASSUME NEW lines \in Seq(Line), NEW kind
  PROVE  /\ Tally(lines, kind) \in Nat
         /\ lines = <<>> => Tally(lines, kind) = 0
<1>1. CASE kind = "skip"
  <2> DEFINE saying == {i \in DOMAIN Parsed(lines) :
                          Parsed(lines)[i].kind = kind}
  <2>1. Tally(lines, kind) = Cardinality(saying)
    BY <1>1 DEF Tally
  <2>2. saying \subseteq 1..Len(lines) /\ Len(lines) \in Nat
    BY LenProperties DEF Parsed
  <2>3. IsFiniteSet(saying)
    <3>1. IsFiniteSet(1..Len(lines))
      BY <2>2, FS_Interval
    <3> HIDE DEF saying
    <3> QED
      BY <2>2, <3>1, FS_Subset, Zenon
  <2>4. lines = <<>> => saying = {}
    BY <2>2
  <2> HIDE DEF saying
  <2> QED
    BY <2>1, <2>3, <2>4, FS_CardinalityType, FS_EmptySet
<1>2. CASE kind # "skip"
  <2>1. lines = <<>> => Tally(lines, kind) = Cardinality({})
    <3> SUFFICES ASSUME lines = <<>>
                 PROVE  Tally(lines, kind) = Cardinality({})
      OBVIOUS
    <3> DEFINE said == Parsed(lines)
               all == UNION {{i} \X DOMAIN said[i].names :
                               i \in {k \in DOMAIN said : said[k].kind = kind}}
    <3>1. DOMAIN said = {}
      BY DEF Parsed
    <3>2. all = {}
      BY <3>1
    <3> QED
      BY <1>2, <3>2 DEF Tally
  <2> QED
    BY <1>2, <2>1, CountsWhatItAdds, FS_EmptySet
<1> QED
  BY <1>1, <1>2

(* The lists so far, in their order, and what each of them has left in the *)
(* sets; a load that is through has been through all of them.              *)
Source == [url : ToSet(Urls), status : {"ok", "failed"}, blocks : Nat,
           allows : Nat, skipped : Nat]

LoadInv ==
  /\ block \subseteq Name /\ allow \subseteq Name
  /\ received \in Seq(Seq(Line))
  /\ sources \in Seq(Source)
  /\ Len(sources) = Len(received) /\ Len(sources) <= Len(Urls)
  /\ \A i \in 1..Len(sources) :
       /\ sources[i].url = Urls[i]
       /\ NamesOf(received[i], "block") \subseteq block
       /\ NamesOf(received[i], "allow") \subseteq allow
       /\ sources[i].status = "failed" => sources[i].blocks = 0
       /\ sources[i].blocks = 0 => NamesOf(received[i], "block") = {}
  /\ loaded => Len(sources) = Len(Urls)

(* load begins with nothing and no source.                                 *)
LEMMA LoadBegins == LoadInit => LoadInv
<1>1. Len(Urls) \in Nat
  BY BlocklistAssumption, LenProperties
<1> QED
  BY <1>1 DEF LoadInit, LoadInv

(* A list that is done with adds its source and its rules, and takes none. *)
LEMMA DoneKeepsLoad ==
  ASSUME LoadInv, Fetching, NEW status \in {"ok", "failed"},
         NEW lines \in Seq(Line), status = "failed" => lines = <<>>,
         Done(status, lines)
  PROVE  LoadInv'
<1>1. /\ received \in Seq(Seq(Line)) /\ sources \in Seq(Source)
      /\ Len(sources) \in Nat /\ Len(sources) = Len(received)
      /\ Len(sources) < Len(Urls) /\ Len(Urls) \in Nat
      /\ Urls \in Seq(ToSet(Urls))
  BY BlocklistAssumption, LenProperties DEF LoadInv, Fetching
<1>2. Url \in ToSet(Urls) /\ Url = Urls[Len(sources) + 1]
  BY <1>1 DEF Url
<1> DEFINE stat == Stat(status, lines)
<1>3. /\ stat \in Source /\ stat.url = Url
      /\ stat.status = status /\ stat.blocks = Tally(lines, "block")
  BY <1>2, CountIsNatural DEF Stat, Source
<1> HIDE DEF stat
<1>4. /\ block' = block \cup NamesOf(lines, "block")
      /\ allow' = allow \cup NamesOf(lines, "allow")
      /\ sources' = Append(sources, stat)
      /\ received' = Append(received, lines)
      /\ loaded' = loaded /\ ~loaded
  BY DEF Done, Fetching, stat
<1>5. /\ sources' \in Seq(Source) /\ Len(sources') = Len(sources) + 1
      /\ received' \in Seq(Seq(Line)) /\ Len(received') = Len(sources) + 1
      /\ \A i \in 1..Len(sources) : /\ sources'[i] = sources[i]
                                  /\ received'[i] = received[i]
      /\ sources'[Len(sources) + 1] = stat
      /\ received'[Len(sources) + 1] = lines
  BY <1>1, <1>3, <1>4, AppendProperties
<1>6. block' \subseteq Name /\ allow' \subseteq Name
  BY <1>4, ParsedNames DEF LoadInv
<1>7. /\ block \subseteq block' /\ NamesOf(lines, "block") \subseteq block'
      /\ allow \subseteq allow' /\ NamesOf(lines, "allow") \subseteq allow'
  BY <1>4
<1>8. ASSUME NEW i \in 1..Len(sources')
      PROVE  /\ sources'[i].url = Urls[i]
             /\ NamesOf(received'[i], "block") \subseteq block'
             /\ NamesOf(received'[i], "allow") \subseteq allow'
             /\ sources'[i].status = "failed" => sources'[i].blocks = 0
             /\ sources'[i].blocks = 0 => NamesOf(received'[i], "block") = {}
  <2>1. CASE i \in 1..Len(sources)
    BY <1>5, <1>7, <2>1 DEF LoadInv
  <2>2. CASE i = Len(sources) + 1
    BY <1>2, <1>3, <1>5, <1>7, <2>2, CountIsNatural, CountsWhatItAdds
  <2> QED
    BY <1>1, <1>5, <2>1, <2>2
<1>9. Len(sources') = Len(received') /\ Len(sources') <= Len(Urls) /\ ~loaded'
  BY <1>1, <1>4, <1>5
<1> QED
  BY <1>5, <1>6, <1>8, <1>9 DEF LoadInv

(* Every way a fetch may end is one of being done with the list.           *)
LEMMA LoadStepKeepsLoad ==
  ASSUME LoadInv, LoadStep
  PROVE  LoadInv'
<1>1. CASE Body
  <2>1. Fetching /\ ListAt[Url] \in Seq(Line)
    <3>1. Len(sources) \in Nat /\ Len(sources) < Len(Urls) /\ Fetching
      BY <1>1, LenProperties DEF Body, Fetching, LoadInv
    <3>2. Len(sources) + 1 \in DOMAIN Urls
      BY <3>1, BlocklistAssumption, LenProperties
    <3> QED
      BY <3>1, <3>2, BlocklistAssumption DEF Url, ToSet
  <2>2. PICK lines \in Bodies(ListAt[Url]) : Done("ok", lines)
    BY <1>1 DEF Body
  <2>3. \A list \in Seq(Line) : \A ls \in Bodies(list) : ls \in Seq(Line)
    <3> SUFFICES ASSUME NEW list \in Seq(Line), NEW ls \in Bodies(list)
                 PROVE  ls \in Seq(Line)
      OBVIOUS
    <3>1. Len(list) \in Nat
      BY LenProperties
    <3>2. \A k \in 0..Len(list) - 1 : SubSeq(list, 1, k) \in Seq(Line)
      BY <3>1, SubSeqProperties
    <3>3. \A k \in 0..Len(list) - 1, f \in Fragments :
            Append(SubSeq(list, 1, k), f) \in Seq(Line)
      BY <3>2, BlocklistAssumption, AppendProperties
    <3> QED
      BY <3>2, <3>3 DEF Bodies
  <2> QED
    BY <2>1, <2>2, <2>3, DoneKeepsLoad
<1>2. CASE Fail
  <2>1. <<>> \in Seq(Line)
    OBVIOUS
  <2> QED
    BY <1>2, <2>1, DoneKeepsLoad DEF Fail
<1>3. CASE TooManyRedirects
  <2>1. <<>> \in Seq(Line)
    OBVIOUS
  <2> QED
    BY <1>3, <2>1, DoneKeepsLoad DEF TooManyRedirects
<1>4. CASE Redirect
  BY <1>4 DEF Redirect, LoadInv
<1>5. CASE LoadReturns
  BY <1>5 DEF LoadReturns, LoadInv
<1> QED
  BY <1>1, <1>2, <1>3, <1>4, <1>5 DEF LoadStep

(* No other step of main touches what load builds.                         *)
LEMMA NextKeepsLoad == LoadInv /\ [Next]_vars => LoadInv'
<1> SUFFICES ASSUME LoadInv, [Next]_vars
             PROVE  LoadInv'
  OBVIOUS
<1>1. CASE UNCHANGED loadVars
  BY <1>1 DEF loadVars, LoadInv
<1>2. CASE Load
  BY <1>2, LoadStepKeepsLoad DEF Load
<1>3. [Next]_vars => Load \/ UNCHANGED loadVars
  BY DEF Next, Main, Validate, Build, Connect, Connected, Prepare, Bind, Serve,
         Abort, vars
<1> QED
  BY <1>1, <1>2, <1>3

(* The invariant of the load, on every behaviour.                          *)
LEMMA LoadInvHolds == Spec => []LoadInv
<1>1. Init => LoadInv
  BY LoadBegins DEF Init
<1> QED
  BY <1>1, NextKeepsLoad, PTL DEF Spec

(* is_blocked, for all lists, however they arrive, and all names: what a   *)
(* listed name covers is blocked unless an exception covers it, and no     *)
(* other name is.                                                          *)
THEOREM BlockedAsListed == Spec => []BlocksAsListed
<1>1. LoadInv => BlocksAsListed
  BY WalkFollowsTheLists DEF LoadInv
<1> QED
  BY <1>1, LoadInvHolds, PTL

(* main and load: whichever lists fail and however their bodies end, what  *)
(* is served has the rules of every list that was received.                *)
THEOREM ServedWithTheRest == Spec => []ServesWithTheRest
<1>1. LoadInv /\ Established => ServesWithTheRest
  <2> SUFFICES ASSUME LoadInv, Established, step = "serving", config.lists
               PROVE  /\ [i \in DOMAIN sources |-> sources[i].url] = Urls
                      /\ \A i \in DOMAIN sources :
                           LET delivered == NamesOf(received[i], "block")
                           IN /\ delivered \subseteq block
                              /\ NamesOf(received[i], "allow") \subseteq allow
                              /\ sources[i].status = "failed"
                                   => sources[i].blocks = 0
                              /\ sources[i].blocks = 0 => delivered = {}
    BY DEF ServesWithTheRest
  <2>1. Len(sources) = Len(Urls)
    BY DEF Established, Prepared, LoadInv
  <2>2. DOMAIN sources = 1..Len(sources)
    BY DEF LoadInv
  <2>3. [i \in DOMAIN sources |-> sources[i].url] = Urls
    <3>1. Urls = [i \in 1..Len(Urls) |-> Urls[i]]
      BY BlocklistAssumption
    <3>2. \A i \in 1..Len(Urls) : sources[i].url = Urls[i]
      BY <2>1 DEF LoadInv
    <3> QED
      BY <2>1, <2>2, <3>1, <3>2
  <2> QED
    BY <2>2, <2>3 DEF LoadInv
<1>2. Spec => []Established
  BY EstablishedAtFirst, EstablishedNext, PTL DEF Spec
<1> QED
  BY <1>1, <1>2, LoadInvHolds, PTL
===============================================================================
