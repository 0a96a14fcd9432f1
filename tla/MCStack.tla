-------------------------------- MODULE MCStack -------------------------------
(* Small instances of Stack for TLC.                                       *)
EXTENDS Stack, TLC

(* An answer that is cached for a unit.                                    *)
OneReply == {[kind |-> "positive", ttl |-> 1]}

(* One request wants DNSSEC data and so goes past the cache, to compete    *)
(* with the refresh that a hit of another spawns.                          *)
Signed == CHOOSE r \in Requests : TRUE

OneSigned ==
  /\ StackInit
  /\ \A r \in Requests : query[r].dnssec_ok <=> r = Signed

MCSpec == OneSigned /\ [][StackNext]_<<vars, upVars>> /\ StackFairness
===============================================================================
