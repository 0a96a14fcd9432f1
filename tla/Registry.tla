-------------------------------- MODULE Registry ------------------------------
(***************************************************************************)
(* The registry of synth/mod.rs: which ids a configuration may list, and   *)
(* in which order.                                                         *)
(***************************************************************************)
EXTENDS Sequences, SequencesExt

CONSTANT Providers  \* the ids cdn::make knows

(* NAT64 is not made there; "none" is the models' word for no provider.    *)
ASSUME RegistryAssumption == {"nat64", "none"} \cap Providers = {}

Ids == Providers \cup {"nat64"}

(* Specific providers, each with the generic one that would shadow it.     *)
Precedes == {<<"shopify", "cloudflare">>, <<"webflow", "cloudflare">>}

(* Mutant: the second pair of the table is forgotten.                      *)
ValidOrderShopify(ids) ==
  Contains(ids, "shopify") =>
    \A j \in DOMAIN ids : ids[j] = "cloudflare" =>
      \E i \in 1..j - 1 : ids[i] = "shopify"

ValidOrder(ids) ==
  \A pair \in Precedes : Contains(ids, pair[1]) =>
    \A j \in DOMAIN ids : ids[j] = pair[2] =>
      \E i \in 1..j - 1 : ids[i] = pair[1]

(* Chain::build, which also refuses an id that nothing is known by.        *)
Builds(ids) == ToSet(ids) \subseteq Ids /\ ValidOrder(ids)
===============================================================================
