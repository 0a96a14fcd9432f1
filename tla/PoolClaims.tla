------------------------------ MODULE PoolClaims ------------------------------
(***************************************************************************)
(* What a comment of the repository says of the pool, and the code does    *)
(* not do in every execution: the property of a run that TLC refutes.      *)
(***************************************************************************)
EXTENDS Pool

(* upstream.rs, at the Err arm of rx.recv: "Leader panicked before         *)
(* publishing, or we lagged: resolve our own".  So a follower gets its     *)
(* answer even if its leader panics.                                       *)
FollowersSurvivePanic ==
  \A f \in Requests : pc[f] = "following" ~> pc[f] = "done"
===============================================================================
