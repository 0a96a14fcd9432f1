---------------------------- MODULE ResolveService ----------------------------
(***************************************************************************)
(* What Pool::resolve promises its caller, without caches or slots: each   *)
(* request is answered at most once, with something an upstream said to    *)
(* this resolver about the very question that was asked, and with a        *)
(* failure only if a client-facing resolution of that question failed.     *)
(* A request may also be lost, when the code resolving it panics.          *)
(***************************************************************************)
CONSTANTS Requests, Questions, Facts

VARIABLES
  asks,   \* the question of each request
  phase,  \* "open", "answered" or "lost"
  reply,  \* the fact an answered request was given, a set of at most one
  heard   \* what has been heard about each question

vars == <<asks, phase, reply, heard>>

Init ==
  /\ asks \in [Requests -> Questions]
  /\ phase = [r \in Requests |-> "open"]
  /\ reply = [r \in Requests |-> {}]
  /\ heard = [q \in Questions |-> {}]

(* Something is learnt about a question, not yet told to anyone.           *)
Hear(q, fact) ==
  /\ heard' = [heard EXCEPT ![q] = @ \cup {fact}]
  /\ UNCHANGED <<asks, phase, reply>>

(* A request is answered with what was already known.                      *)
Answer(r, fact) ==
  /\ phase[r] = "open"
  /\ fact \in heard[asks[r]]
  /\ phase' = [phase EXCEPT ![r] = "answered"]
  /\ reply' = [reply EXCEPT ![r] = {fact}]
  /\ UNCHANGED <<asks, heard>>

(* A request is answered with what it has just heard itself.               *)
Relay(r, fact) ==
  /\ phase[r] = "open"
  /\ heard' = [heard EXCEPT ![asks[r]] = @ \cup {fact}]
  /\ phase' = [phase EXCEPT ![r] = "answered"]
  /\ reply' = [reply EXCEPT ![r] = {fact}]
  /\ UNCHANGED asks

Lose(r) ==
  /\ phase[r] = "open"
  /\ phase' = [phase EXCEPT ![r] = "lost"]
  /\ UNCHANGED <<asks, reply, heard>>

Next ==
  \/ \E q \in Questions, fact \in Facts : Hear(q, fact)
  \/ \E r \in Requests, fact \in Facts : Answer(r, fact) \/ Relay(r, fact)
  \/ \E r \in Requests : Lose(r)

Spec == Init /\ [][Next]_vars
===============================================================================
