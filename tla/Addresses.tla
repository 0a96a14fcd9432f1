------------------------------- MODULE Addresses ------------------------------
(***************************************************************************)
(* The address classes of synth/mod.rs and synth/nat64.rs.  An IPv4        *)
(* address is the sequence of its four octets, an IPv6 address that of its *)
(* eight 16-bit segments: the 32 bits of the code would overflow TLC's     *)
(* integers, and the masks are compared octet by octet instead.            *)
(***************************************************************************)
EXTENDS Naturals, Sequences

Octet == 0..255
Segment == 0..65535

Block(a, b, c, d, bits) == [net |-> <<a, b, c, d>>, prefix |-> bits]

(* How many of the first bits of octet i a prefix covers.                  *)
Covers(bits, i) ==
  LET rest == IF bits > 8 * (i - 1) THEN bits - 8 * (i - 1) ELSE 0
  IN IF rest > 8 THEN 8 ELSE rest

InCidr(ip, block) ==
  \A i \in 1..4 :
    LET unit == 2 ^ (8 - Covers(block.prefix, i))
    IN ip[i] \div unit = block.net[i] \div unit

InAny(ip, blocks) == \E block \in blocks : InCidr(ip, block)

(* The octet tests of is_globally_routable, the classes of std::net spelt  *)
(* out; o & mask is the quotient by the size of what the mask drops.       *)
IsGloballyRoutable(o) ==
  ~(\/ o[1] = 0
    \/ o[1] = 10
    \/ o[1] = 172 /\ o[2] \div 16 = 1
    \/ o[1] = 192 /\ o[2] = 168
    \/ o[1] = 100 /\ o[2] \div 64 = 1
    \/ o[1] = 127
    \/ o[1] = 169 /\ o[2] = 254
    \/ o[1] = 192 /\ o[2] = 0 /\ o[3] \in {0, 2}
    \/ o[1] = 198 /\ o[2] = 51 /\ o[3] = 100
    \/ o[1] = 203 /\ o[2] = 0 /\ o[3] = 113
    \/ o[1] = 198 /\ o[2] \div 2 = 9
    \/ o[1] \div 16 = 14
    \/ o[1] >= 240)

Unspecified == [i \in 1..8 |-> 0]
Loopback == [Unspecified EXCEPT ![8] = 1]

(* fe80::/10 and fc00::/7 are the first ten and seven bits of a segment.   *)
IsGlobalUnicastV6(ip) ==
  /\ ip \notin {Unspecified, Loopback}
  /\ ip[1] \div 256 # 255
  /\ ip[1] \div 64 # 1018
  /\ ip[1] \div 512 # 126

(* nat64.rs embed: the last four octets of the prefix are overwritten.     *)
Embed(prefix, o) ==
  [prefix EXCEPT ![7] = o[1] * 256 + o[2], ![8] = o[3] * 256 + o[4]]
===============================================================================
