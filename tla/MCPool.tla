-------------------------------- MODULE MCPool --------------------------------
(* Small instances of Pool for TLC.                                        *)
EXTENDS PoolClaims, TLC

(* A positive reply and a negative one, both above their caps, a positive  *)
(* one that opts out of caching, and an error that is relayed uncached.    *)
AllReplies == {[kind |-> "positive", ttl |-> 3],
               [kind |-> "negative", ttl |-> 2],
               [kind |-> "positive", ttl |-> 0],
               [kind |-> "error", ttl |-> 0]}

(* One that is cached for a unit, and one that never is.                   *)
MixedReplies == {[kind |-> "negative", ttl |-> 2],
                 [kind |-> "bare", ttl |-> 0]}

(* Only an answer that is cached.                                          *)
GoodReplies == {[kind |-> "positive", ttl |-> 1]}

Symmetry == Permutations(Requests) \cup Permutations(Questions)
===============================================================================
