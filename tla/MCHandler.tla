------------------------------- MODULE MCHandler ------------------------------
(* Small instances of Handler for TLC.                                     *)
EXTENDS Handler

(* Words of three bits, and a network of those that begin with a one: its  *)
(* entry has a bit set below its prefix, which is of no account.           *)
V6(bits) == [v6 |-> TRUE, bits |-> bits]

OneNetwork == {[valid |-> TRUE, addr |-> V6({0, 2}), prefix |-> 1]}

(* An ordinary AAAA query of a client in it, and a message that differs    *)
(* from it in one way for every way the handler looks at.                  *)
Ordinary == [standard |-> TRUE, questions |-> 1, qtype |-> "AAAA",
             class |-> "IN", cd |-> FALSE, client |-> V6({1, 2}),
             listed |-> FALSE, arpa |-> FALSE]

AllMessages ==
  {Ordinary,
   [Ordinary EXCEPT !.standard = FALSE],
   [Ordinary EXCEPT !.questions = 0],
   [Ordinary EXCEPT !.qtype = "other"],
   [Ordinary EXCEPT !.class = "other"],
   [Ordinary EXCEPT !.cd = TRUE],
   [Ordinary EXCEPT !.listed = TRUE],
   [Ordinary EXCEPT !.client = V6({0}), !.listed = TRUE],
   [Ordinary EXCEPT !.client = [v6 |-> FALSE, bits |-> {2}]],
   [Ordinary EXCEPT !.arpa = TRUE]}

Said(rcode) == [rcode |-> rcode, native |-> FALSE, ad |-> FALSE, a |-> {}]

(* NODATA, native AAAA, the AAAA-bearing NXDOMAIN of a broken chain, and   *)
(* the errors.                                                             *)
AllMainAnswers ==
  {Said("NoError"),
   [Said("NoError") EXCEPT !.native = TRUE, !.ad = TRUE],
   [Said("NXDomain") EXCEPT !.native = TRUE],
   Said("NXDomain"),
   Said("Refused")}

(* A public and a private address, and an address beside an error.         *)
AllSideAnswers ==
  {[Said("NoError") EXCEPT !.a = {[addr |-> "public", ttl |-> 1]}],
   [Said("NoError") EXCEPT !.a = {[addr |-> "private", ttl |-> 1]}],
   [Said("Refused") EXCEPT !.a = {[addr |-> "public", ttl |-> 1]}]}

AllReferences == {{}, {[addr |-> "global", ttl |-> 2]}}

(* The provider does not know the name, or borrows an address for it.      *)
AllDetections ==
  {[id \in Providers |-> NoPlan],
   [id \in Providers |->
      [lookups |-> 1, combine |-> "verbatim", claims |-> {}]]}

ProviderThenNat64 ==
  [ids |-> <<"fastly", "nat64">>, wanted |-> TRUE, cap |-> 1]

OneConfig == {ProviderThenNat64}
===============================================================================
