------------------------------- MODULE ClientAcl ------------------------------
(***************************************************************************)
(* The client allowlist of acl.rs.  A word is the set of the positions at  *)
(* which it has a one, 0 being the lowest, so that & is an intersection;   *)
(* the 128 bits of the code are Width bits here, for any Width.            *)
(***************************************************************************)
EXTENDS Integers

CONSTANT Width

ASSUME WidthAssumption == Width \in Nat \ {0}

AllOnes == 0..Width - 1

Word == SUBSET AllOnes

(* A client address, or an entry's: of an IPv4 one the code reads nothing. *)
Address == [v6 : BOOLEAN, bits : Word]

(* An entry of client_networks: an address with a prefix length, which may *)
(* exceed the width, or without one, or text that is neither.              *)
Bare == Width + 2

Entry == [valid : BOOLEAN, addr : Address, prefix : 0..Bare]

(* The bits that leave the word at its upper end are lost.                 *)
ShiftLeft(word, n) == {b + n : b \in word} \cap AllOnes

(* Mutant: without the case of its own, a shift by the full width is one   *)
(* by nothing, as it is in a release build.                                *)
MaskByShift(prefix) == ShiftLeft(AllOnes, (Width - prefix) % Width)

Mask(prefix) == IF prefix = 0 THEN {} ELSE ShiftLeft(AllOnes, Width - prefix)

(* parse_net6: the prefix is looked at before the address.                 *)
PrefixOf(entry) == IF entry.prefix = Bare THEN Width ELSE entry.prefix

Parses(entry) == entry.valid /\ PrefixOf(entry) <= Width /\ entry.addr.v6

Net6(entry) == [base |-> entry.addr.bits \cap Mask(PrefixOf(entry)),
                prefix |-> PrefixOf(entry)]

(* ClientAcl::parse: one entry that does not parse refuses them all.       *)
ParsesAll(entries) == \A entry \in entries : Parses(entry)

Parse(entries) == {Net6(entry) : entry \in entries}

Contains6(net, bits) == bits \cap Mask(net.prefix) = net.base

(* allows, and what main makes of an empty list: every client is.          *)
Allows(nets, client) ==
  \/ nets = {}
  \/ client.v6 /\ (\E net \in nets : Contains6(net, client.bits))
-------------------------------------------------------------------------------
(* What an allowlist means: every client is let in without one, and with   *)
(* one those that agree with one of its addresses on the bits its prefix   *)
(* counts, whatever either has below them.                                 *)
Listed(entries, client) ==
  \/ entries = {}
  \/ /\ client.v6
     /\ \E entry \in entries :
          \A b \in Width - PrefixOf(entry)..Width - 1 :
            b \in client.bits <=> b \in entry.addr.bits
===============================================================================
