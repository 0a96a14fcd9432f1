------------------------------ MODULE Handler_proof ---------------------------
(***************************************************************************)
(* What the request handler guarantees for any number of concurrent        *)
(* requests, any answers of the pool, any chain and any allowlist.         *)
(*                                                                         *)
(* HandlerInv says of each request what its place in the code means: what  *)
(* it has asked, whether its call of the chain has begun, and, once it is  *)
(* decided, which of the five sorts of end it came to.                     *)
(***************************************************************************)
EXTENDS Handler, Chain_proof, FiniteSetTheorems

NeverAsked(r) ==
  main[r] = Unasked /\ side[r] = Unasked /\ stage[r] = "idle"

(* The five sorts of end, as a response and the outcome observed with it.  *)
Rejected(r, response, seen) ==
  /\ ~WellFormed(message[r])
  /\ NeverAsked(r)
  /\ response.from = "local" /\ seen = "none"

TurnedAway(r, response, seen) ==
  /\ WellFormed(message[r])
  /\ NeverAsked(r)
  /\ \/ /\ ~Admits(message[r].client)
        /\ response = Local("Refused") /\ seen = "refused"
     \/ /\ Admits(message[r].client) /\ message[r].listed
        /\ response = Local("NXDomain") /\ seen = "blocked"

FailedByPool(r, response, seen) ==
  /\ Admitted(r)
  /\ main[r] = NoAnswer /\ stage[r] = "idle"
  /\ response = Local("ServFail") /\ seen \in {"servfail", "passthrough"}

Unsynthesized(r) ==
  stage[r] = "idle" \/ (stage[r] = "done" /\ winner[r] = "none")

RelayedFromPool(r, response, seen) ==
  /\ Admitted(r)
  /\ main[r] \in MainAnswers
  /\ Unsynthesized(r)
  /\ response = Relayed(main[r])
  /\ seen \in {"native", "nxdomain", "passthrough", "empty"}

Synthesized(r, response, seen) ==
  /\ Admitted(r) /\ IsDns64(message[r])
  /\ main[r].rcode = "NoError" /\ ~main[r].native
  /\ stage[r] = "done" /\ winner[r] # "none"
  /\ response = Synthesis /\ seen = "synthesized"

Settled(r, response, seen) ==
  \/ Rejected(r, response, seen)
  \/ TurnedAway(r, response, seen)
  \/ FailedByPool(r, response, seen)
  \/ RelayedFromPool(r, response, seen)
  \/ Synthesized(r, response, seen)

Underway == {"new", "joining", "forwarding", "synthesizing"}

RequestInv(r) ==
  /\ pc[r] \in Underway => reply[r] = NoReply /\ outcome[r] = "none"
  /\ pc[r] = "new" => NeverAsked(r)
  /\ pc[r] \in {"joining", "forwarding"} => Admitted(r) /\ stage[r] = "idle"
  /\ pc[r] = "joining" => IsDns64(message[r])
  /\ pc[r] \in {"joining", "forwarding"} => main[r] # Unasked
  /\ pc[r] = "synthesizing" =>
       /\ Admitted(r) /\ IsDns64(message[r]) /\ stage[r] # "idle"
       /\ main[r].rcode = "NoError" /\ ~main[r].native
  /\ pc[r] \notin Underway => Settled(r, reply[r], outcome[r])
  /\ main[r] = Pending => pc[r] \in {"joining", "forwarding"}
  /\ side[r] = Pending => pc[r] = "joining"
  /\ stage[r] # "idle" => ctx[r].a = ARecords(r)

LogInv ==
  /\ \A e \in log :
       /\ LogEnabled
       /\ pc[e.request] = "done"
       /\ e.rcode = reply[e.request].rcode
       /\ e.outcome = outcome[e.request]
       /\ \A f \in log : e.request = f.request => e = f
  /\ \A r \in Requests :
       pc[r] = "done" /\ WellFormed(message[r]) /\ LogEnabled =>
         \E e \in log : e.request = r

HandlerInv ==
  /\ TypeOK
  /\ ChainInv
  /\ \A r \in Requests : RequestInv(r)
  /\ LogInv
-------------------------------------------------------------------------------
(* The chain's calls are the requests.                                     *)
LEMMA CallsAreRequests == Calls = Requests
BY HandlerAssumption

(* The lookups' answers are apart from the marks of one under way.         *)
LEMMA AnswersApart ==
  ASSUME NEW answer \in Answer
  PROVE  answer \notin {NoAnswer, Pending, Unasked}
BY DEF Answer, NoAnswer, Pending, Unasked, Rcode

(* A context the handler builds is one the chain may be called with.       *)
LEMMA ContextIsTyped ==
  ASSUME TypeOK, NEW r \in Requests, NEW plans \in Detections
  PROVE  [arpa |-> message[r].arpa, a |-> ARecords(r), plans |-> plans,
          chain |-> TheChain] \in Context
<1>1. message[r].arpa \in BOOLEAN
  BY HandlerAssumption DEF TypeOK, Message
<1>2. side[r].a \in SUBSET [addr : IPv4, ttl : Nat]
  <2>1. CASE side[r] \in SideAnswers
    BY <2>1, HandlerAssumption DEF Answer
  <2>2. CASE side[r] \in {NoAnswer, Pending, Unasked}
    BY <2>2 DEF NoAnswer, Pending, Unasked
  <2> QED
    BY <2>1, <2>2 DEF TypeOK
<1>3. ARecords(r) \in SUBSET [addr : IPv4, ttl : Nat]
  BY <1>2 DEF ARecords
<1>4. plans \in [Providers -> Plan \cup {NoPlan}] /\ TheChain \in Chains
  BY HandlerAssumption
<1> QED
  BY <1>1, <1>3, <1>4 DEF Context

(* Every step of the handler is one of the chain or leaves it alone.       *)
LEMMA HandlerCallsChain ==
  ASSUME TypeOK, [Next]_vars
  PROVE  ChainNext \/ UNCHANGED chainVars
<1>1. CASE UNCHANGED vars
  BY <1>1 DEF vars
<1>2. ASSUME NEW r \in Requests, NEW plans \in Detections, Synthesize(r, plans)
      PROVE  ChainNext
  BY <1>2, ContextIsTyped, CallsAreRequests DEF Synthesize, ChainNext
<1>3. ASSUME NEW r \in Requests, Reference(r)
      PROVE  ChainNext
  BY <1>3, HandlerAssumption, CallsAreRequests
     DEF Reference, ChainNext, Sourced
<1>4. ASSUME NEW r \in Requests, RunChain(r)
      PROVE  ChainNext
  BY <1>4, CallsAreRequests DEF RunChain, ChainNext
<1> QED
  BY <1>1, <1>2, <1>3, <1>4
     DEF Next, Proceeds, Lookups, Reject, Refuse, Block, BeginDns64,
         BeginPassthrough, FailDns64, RelayNative, RelayNxdomain, RelayError,
         Relay, SendSynthesized, RelayEmpty, Forwarded, Send, Record,
         MainReturns, SideReturns
(* A request that a step leaves alone keeps its invariant.                 *)
SameRequest(d) ==
  UNCHANGED <<message[d], pc[d], main[d], side[d], reply[d], outcome[d],
              stage[d], winner[d], ctx[d]>>

(* A request whose variables a step leaves alone keeps its invariant.      *)
LEMMA SameKeeps ==
  ASSUME NEW d, RequestInv(d), SameRequest(d)
  PROVE  RequestInv(d)'
BY DEF SameRequest, RequestInv, NeverAsked, Admitted, ARecords, Settled,
       Rejected, TurnedAway, FailedByPool, RelayedFromPool, Synthesized,
       Unsynthesized

(* Counting keeps the counters' type.                                      *)
LEMMA CountIsTyped ==
  ASSUME TypeOK, NEW names, Count(names)
  PROVE  metrics' \in [Counter -> Nat]
BY DEF TypeOK, Count

(* A response that settles a request leaves everything else as it was.     *)
LEMMA RespondKeeps ==
  ASSUME HandlerInv, NEW r \in Requests, NEW response \in Reply,
         NEW seen \in Outcome, NEW names,
         pc[r] \in Underway, main[r] # Pending, side[r] # Pending,
         Settled(r, response, seen),
         Respond(r, response, seen, names),
         UNCHANGED <<message, main, side, log, chainVars>>
  PROVE  HandlerInv'
<1>1. /\ reply' = [reply EXCEPT ![r] = response]
      /\ outcome' = [outcome EXCEPT ![r] = seen]
      /\ pc' = [pc EXCEPT ![r] = "sending"]
      /\ UNCHANGED <<message, main, side, log, ctx, stage, winner>>
  BY DEF Respond, Goto, chainVars
<1>2. ChainInv'
  BY ChainKeeps DEF HandlerInv
<1>3. TypeOK'
  <2>1. metrics' \in [Counter -> Nat]
    BY CountIsTyped DEF HandlerInv, Respond
  <2>2. ChainTypeOK'
    BY <1>2 DEF ChainInv
  <2> QED
    BY <1>1, <2>1, <2>2 DEF HandlerInv, TypeOK, PcValue
<1>4. reply'[r] = response /\ outcome'[r] = seen /\ pc'[r] = "sending"
  BY <1>1 DEF HandlerInv, TypeOK
<1>5. \A d \in Requests : d # r => SameRequest(d)
  BY <1>1 DEF HandlerInv, TypeOK, SameRequest
<1>6. RequestInv(r)'
  <2>1. Settled(r, response, seen)'
    BY <1>1 DEF Settled, Rejected, TurnedAway, FailedByPool, RelayedFromPool,
                Synthesized, Unsynthesized, NeverAsked, Admitted
  <2>2. Settled(r, reply[r], outcome[r])'
    BY <1>4, <2>1
  <2>3. stage'[r] # "idle" => ctx'[r].a = ARecords(r)'
    BY <1>1 DEF HandlerInv, RequestInv, ARecords
  <2> QED
    BY <1>1, <1>4, <2>2, <2>3 DEF RequestInv, Underway
<1>7. LogInv'
  <2>1. \A e \in log : e.request \in Requests
    BY DEF HandlerInv, TypeOK
  <2>2. \A e \in log : e.request # r
    BY DEF HandlerInv, LogInv, Underway
  <2> QED
    BY <1>1, <1>4, <1>5, <2>1, <2>2 DEF HandlerInv, LogInv, SameRequest
<1> QED
  BY <1>2, <1>3, <1>5, <1>6, <1>7, SameKeeps DEF HandlerInv

(* The responses are typed.                                                *)
LEMMA ResponsesAreTyped ==
  /\ \A code \in Rcode : Local(code) \in Reply
  /\ \A answer \in MainAnswers : Relayed(answer) \in Reply
  /\ Synthesis \in Reply
BY HandlerAssumption DEF Local, Relayed, Synthesis, Reply, Answer, Rcode

(* handle_request's own responses turn a request away unasked.             *)
LEMMA TurningAwayKeeps ==
  ASSUME HandlerInv, NEW r \in Requests, Reject(r) \/ Refuse(r) \/ Block(r)
  PROVE  HandlerInv'
<1>1. /\ pc[r] = "new" /\ pc[r] \in Underway /\ NeverAsked(r)
      /\ main[r] # Pending /\ side[r] # Pending
  BY DEF Reject, Refuse, Block, HandlerInv, RequestInv, Underway, NeverAsked,
         Unasked, Pending
<1>2. CASE Reject(r)
  <2> DEFINE code == IF message[r].standard THEN "FormErr" ELSE "NotImp"
  <2>1. Settled(r, Local(code), "none")
    BY <1>1, <1>2 DEF Reject, Settled, Rejected, Local
  <2>2. Local(code) \in Reply /\ "none" \in Outcome
    BY ResponsesAreTyped DEF Rcode, Outcome
  <2> QED
    BY <1>1, <1>2, <2>1, <2>2, RespondKeeps DEF Reject
<1>3. CASE Refuse(r)
  <2>1. Settled(r, Local("Refused"), "refused")
    BY <1>1, <1>3 DEF Refuse, Settled, TurnedAway
  <2>2. Local("Refused") \in Reply /\ "refused" \in Outcome
    BY ResponsesAreTyped DEF Rcode, Outcome
  <2> QED
    BY <1>1, <1>3, <2>1, <2>2, RespondKeeps DEF Refuse
<1>4. CASE Block(r)
  <2>1. Settled(r, Local("NXDomain"), "blocked")
    BY <1>1, <1>4 DEF Block, Settled, TurnedAway
  <2>2. Local("NXDomain") \in Reply /\ "blocked" \in Outcome
    BY ResponsesAreTyped DEF Rcode, Outcome
  <2> QED
    BY <1>1, <1>4, <2>1, <2>2, RespondKeeps DEF Block
<1> QED
  BY <1>2, <1>3, <1>4

(* A relayed answer is one of the pool's.                                  *)
LEMMA RelayKeeps ==
  ASSUME HandlerInv, NEW r \in Requests, NEW names,
         NEW seen \in {"native", "nxdomain", "passthrough", "empty"},
         pc[r] \in Underway, Admitted(r), side[r] # Pending,
         main[r] \notin {NoAnswer, Pending, Unasked},
         Unsynthesized(r),
         Relay(r, seen, names)
  PROVE  HandlerInv'
<1>1. main[r] \in MainAnswers
  BY DEF HandlerInv, TypeOK
<1>2. Relayed(main[r]) \in Reply /\ seen \in Outcome /\ main[r] # Pending
  BY <1>1, ResponsesAreTyped DEF Outcome
<1>3. Settled(r, Relayed(main[r]), seen)
  BY <1>1 DEF Settled, RelayedFromPool
<1> QED
  BY <1>2, <1>3, RespondKeeps DEF Relay
(* handle_dns64 before the chain: a failure, or an answer to relay.        *)
LEMMA JoinedKeeps ==
  ASSUME HandlerInv, NEW r \in Requests,
         FailDns64(r) \/ RelayNative(r) \/ RelayNxdomain(r) \/ RelayError(r)
  PROVE  HandlerInv'
<1>1. /\ pc[r] \in Underway /\ Admitted(r) /\ stage[r] = "idle"
      /\ main[r] \notin {Pending, Unasked} /\ side[r] # Pending
      /\ Unsynthesized(r)
  BY DEF Unsynthesized, FailDns64, RelayNative, RelayNxdomain, RelayError,
         Joined, Underway, HandlerInv, RequestInv
<1>2. CASE FailDns64(r)
  <2>1. Settled(r, Local("ServFail"), "servfail")
    BY <1>1, <1>2 DEF FailDns64, Settled, FailedByPool
  <2>2. Local("ServFail") \in Reply /\ "servfail" \in Outcome
    BY ResponsesAreTyped DEF Rcode, Outcome
  <2> QED
    BY <1>1, <1>2, <2>1, <2>2, RespondKeeps DEF FailDns64
<1>3. CASE RelayNative(r)
  <2>1. main[r] \notin {NoAnswer, Pending, Unasked}
    BY <1>1, <1>3 DEF RelayNative, NoAnswer
  <2> QED
    BY <1>1, <1>3, <2>1, RelayKeeps DEF RelayNative
<1>4. CASE RelayNxdomain(r)
  <2>1. main[r] \notin {NoAnswer, Pending, Unasked}
    BY <1>1, <1>4 DEF RelayNxdomain, NoAnswer
  <2> QED
    BY <1>1, <1>4, <2>1, RelayKeeps DEF RelayNxdomain
<1>5. CASE RelayError(r)
  <2>1. main[r] \notin {NoAnswer, Pending, Unasked}
    BY <1>1, <1>5 DEF RelayError
  <2> QED
    BY <1>1, <1>5, <2>1, RelayKeeps DEF RelayError
<1> QED
  BY <1>2, <1>3, <1>4, <1>5

(* handle_dns64 after the chain: its records, or the empty answer.         *)
LEMMA SynthesizedKeeps ==
  ASSUME HandlerInv, NEW r \in Requests, SendSynthesized(r) \/ RelayEmpty(r)
  PROVE  HandlerInv'
<1>1. /\ pc[r] \in Underway /\ Admitted(r) /\ IsDns64(message[r])
      /\ main[r].rcode = "NoError" /\ ~main[r].native
      /\ stage[r] = "done"
      /\ main[r] # Pending /\ side[r] # Pending
  BY DEF SendSynthesized, RelayEmpty, Underway, HandlerInv, RequestInv
<1>2. main[r] \notin {NoAnswer, Pending, Unasked}
  BY <1>1 DEF NoAnswer, Pending, Unasked
<1>3. CASE SendSynthesized(r)
  <2>1. Settled(r, Synthesis, "synthesized")
    BY <1>1, <1>3 DEF SendSynthesized, Settled, Synthesized
  <2>2. Synthesis \in Reply /\ "synthesized" \in Outcome
    BY ResponsesAreTyped DEF Outcome
  <2> QED
    BY <1>1, <1>3, <2>1, <2>2, RespondKeeps DEF SendSynthesized
<1>4. CASE RelayEmpty(r)
  BY <1>1, <1>2, <1>4, RelayKeeps DEF RelayEmpty, Unsynthesized
<1> QED
  BY <1>3, <1>4

(* The passthrough path: the answer, or SERVFAIL.                          *)
LEMMA ForwardedKeeps ==
  ASSUME HandlerInv, NEW r \in Requests, Forwarded(r)
  PROVE  HandlerInv'
<1>1. /\ pc[r] \in Underway /\ Admitted(r) /\ stage[r] = "idle"
      /\ main[r] \notin {Pending, Unasked} /\ side[r] # Pending
      /\ Unsynthesized(r)
  BY DEF Unsynthesized, Forwarded, Underway, HandlerInv, RequestInv
<1>2. CASE main[r] = NoAnswer
  <2>1. Settled(r, Local("ServFail"), "passthrough")
    BY <1>1, <1>2 DEF Settled, FailedByPool
  <2>2. Local("ServFail") \in Reply /\ "passthrough" \in Outcome
    BY ResponsesAreTyped DEF Rcode, Outcome
  <2> QED
    BY <1>1, <1>2, <2>1, <2>2, RespondKeeps DEF Forwarded
<1>3. CASE main[r] # NoAnswer
  <2>1. Relay(r, "passthrough", {})
    BY <1>3 DEF Forwarded, Relay
  <2>2. main[r] \notin {NoAnswer, Pending, Unasked}
    BY <1>1, <1>3
  <2> QED
    BY <1>1, <2>1, <2>2, RelayKeeps
<1> QED
  BY <1>2, <1>3

(* A step that decides nothing and records nothing keeps the rest if it    *)
(* keeps the request's own invariant.                                      *)
LEMMA UndecidedKeeps ==
  ASSUME HandlerInv, NEW r \in Requests, TypeOK', ChainInv',
         RequestInv(r)',
         \A d \in Requests : d # r => SameRequest(d),
         UNCHANGED <<message, reply, outcome, log>>,
         pc[r] # "done", pc'[r] # "done"
  PROVE  HandlerInv'
<1>1. \A d \in Requests : pc'[d] = "done" <=> pc[d] = "done"
  BY DEF SameRequest
<1>2. \A e \in log : e.request \in Requests
  BY DEF HandlerInv, TypeOK
<1>3. LogInv'
  BY <1>1, <1>2 DEF HandlerInv, LogInv
<1> QED
  BY <1>3, SameKeeps DEF HandlerInv

(* Admitted, a request starts its lookups.                                 *)
LEMMA BeginningKeeps ==
  ASSUME HandlerInv, NEW r \in Requests, BeginDns64(r) \/ BeginPassthrough(r)
  PROVE  HandlerInv'
<1> DEFINE place == IF IsDns64(message[r]) THEN "joining" ELSE "forwarding"
<1>1. /\ pc[r] = "new" /\ Admitted(r)
      /\ main' = [main EXCEPT ![r] = Pending]
      /\ \/ IsDns64(message[r]) /\ side' = [side EXCEPT ![r] = Pending]
         \/ ~IsDns64(message[r]) /\ UNCHANGED side
      /\ pc' = [pc EXCEPT ![r] = place]
      /\ \E names : Count(names)
      /\ UNCHANGED <<message, reply, outcome, log, chainVars>>
  BY DEF BeginDns64, BeginPassthrough, Goto
<1>2. UNCHANGED <<message, reply, outcome, log, ctx, stage, winner>>
  BY <1>1 DEF chainVars
<1>3. ChainInv'
  BY <1>1, ChainKeeps DEF HandlerInv
<1>4. TypeOK'
  <2>1. metrics' \in [Counter -> Nat] /\ ChainTypeOK'
    BY <1>1, <1>3, CountIsTyped DEF HandlerInv, ChainInv
  <2> QED
    BY <1>1, <1>2, <2>1 DEF HandlerInv, TypeOK, PcValue
<1>5. \A d \in Requests : d # r => SameRequest(d)
  BY <1>1, <1>2 DEF HandlerInv, TypeOK, SameRequest
<1>6. RequestInv(r)'
  <2>1. pc'[r] = place /\ main'[r] = Pending /\ stage'[r] = "idle"
        /\ reply'[r] = NoReply /\ outcome'[r] = "none"
    BY <1>1, <1>2 DEF HandlerInv, TypeOK, RequestInv, NeverAsked, Underway
  <2>2. Admitted(r)' /\ message'[r] = message[r]
    BY <1>1, <1>2 DEF Admitted
  <2>3. side'[r] = Pending => IsDns64(message[r])
    BY <1>1 DEF HandlerInv, RequestInv, NeverAsked, Unasked, Pending
  <2>4. Pending # Unasked
    BY DEF Pending, Unasked
  <2> QED
    BY <2>1, <2>2, <2>3, <2>4 DEF RequestInv, Underway
<1>7. pc[r] # "done" /\ pc'[r] # "done"
  BY <1>1 DEF HandlerInv, TypeOK
<1> HIDE DEF place
<1> QED
  BY <1>2, <1>3, <1>4, <1>5, <1>6, <1>7, UndecidedKeeps

(* The pool answers one of the two lookups.                                *)
LEMMA ReturnsKeep ==
  ASSUME HandlerInv, NEW r \in Requests,
         \/ \E answer \in MainAnswers \cup {NoAnswer} : MainReturns(r, answer)
         \/ \E answer \in SideAnswers \cup {NoAnswer} : SideReturns(r, answer)
  PROVE  HandlerInv'
<1>1. UNCHANGED <<message, pc, reply, outcome, log, metrics, chainVars>>
  BY DEF MainReturns, SideReturns
<1>2. UNCHANGED <<message, pc, reply, outcome, log, metrics, ctx, stage,
                  winner>>
  BY <1>1 DEF chainVars
<1>3. ChainInv' /\ ChainTypeOK'
  BY <1>1, ChainKeeps DEF HandlerInv, ChainInv
<1>4. CASE \E answer \in MainAnswers \cup {NoAnswer} : MainReturns(r, answer)
  <2>1. PICK answer \in MainAnswers \cup {NoAnswer} : MainReturns(r, answer)
    BY <1>4
  <2>2. /\ main[r] = Pending /\ main' = [main EXCEPT ![r] = answer]
        /\ UNCHANGED side
    BY <2>1 DEF MainReturns
  <2>3. TypeOK'
    BY <1>2, <1>3, <2>2 DEF HandlerInv, TypeOK
  <2>4. \A d \in Requests : d # r => SameRequest(d)
    BY <1>2, <2>2 DEF HandlerInv, TypeOK, SameRequest
  <2>5. RequestInv(r)'
    <3>1. pc[r] \in {"joining", "forwarding"}
      BY <2>2 DEF HandlerInv, RequestInv
    <3>2. main'[r] = answer /\ answer \notin {Pending, Unasked}
      BY <2>2, AnswersApart, HandlerAssumption
         DEF HandlerInv, TypeOK, NoAnswer, Pending, Unasked
    <3>3. Admitted(r)' = Admitted(r)
      BY <1>2 DEF Admitted
    <3> QED
      BY <1>2, <2>2, <3>1, <3>2, <3>3 DEF HandlerInv, RequestInv, Underway
  <2>6. pc[r] # "done" /\ pc'[r] # "done"
    BY <1>2, <2>2 DEF HandlerInv, RequestInv
  <2> QED
    BY <1>2, <1>3, <2>3, <2>4, <2>5, <2>6, UndecidedKeeps
<1>5. CASE \E answer \in SideAnswers \cup {NoAnswer} : SideReturns(r, answer)
  <2>1. PICK answer \in SideAnswers \cup {NoAnswer} : SideReturns(r, answer)
    BY <1>5
  <2>2. /\ side[r] = Pending /\ side' = [side EXCEPT ![r] = answer]
        /\ UNCHANGED main
    BY <2>1 DEF SideReturns
  <2>3. TypeOK'
    BY <1>2, <1>3, <2>2 DEF HandlerInv, TypeOK
  <2>4. \A d \in Requests : d # r => SameRequest(d)
    BY <1>2, <2>2 DEF HandlerInv, TypeOK, SameRequest
  <2>5. RequestInv(r)'
    <3>1. pc[r] = "joining"
      BY <2>2 DEF HandlerInv, RequestInv
    <3>2. Admitted(r)' = Admitted(r)
      BY <1>2 DEF Admitted
    <3> QED
      BY <1>2, <2>2, <3>1, <3>2 DEF HandlerInv, RequestInv, Underway
  <2>6. pc[r] # "done" /\ pc'[r] # "done"
    BY <1>2, <2>2 DEF HandlerInv, RequestInv
  <2> QED
    BY <1>2, <1>3, <2>3, <2>4, <2>5, <2>6, UndecidedKeeps
<1> QED
  BY <1>4, <1>5
(* NODATA: the chain is called with the A records of this very request.    *)
LEMMA SynthesizeKeeps ==
  ASSUME HandlerInv, NEW r \in Requests, NEW plans \in Detections,
         Synthesize(r, plans)
  PROVE  HandlerInv'
<1>1. /\ pc[r] = "joining" /\ Admitted(r) /\ IsDns64(message[r])
      /\ main[r].rcode = "NoError" /\ ~main[r].native
      /\ main[r] # Pending /\ side[r] # Pending
      /\ reply[r] = NoReply /\ outcome[r] = "none"
  BY DEF Synthesize, Joined, HandlerInv, RequestInv, Underway
<1>2. /\ pc' = [pc EXCEPT ![r] = "synthesizing"]
      /\ stage' = [stage EXCEPT ![r] = "running"]
      /\ \E x : x.a = ARecords(r) /\ ctx' = [ctx EXCEPT ![r] = x]
      /\ UNCHANGED <<message, main, side, reply, outcome, log, winner>>
  BY DEF Synthesize, Begin, Goto
<1>3. ChainInv' /\ ChainTypeOK'
  <2>1. ChainNext
    BY ContextIsTyped, CallsAreRequests
       DEF HandlerInv, Synthesize, ChainNext
  <2> QED
    BY <2>1, ChainKeeps DEF HandlerInv, ChainInv
<1>4. TypeOK'
  <2>1. metrics' \in [Counter -> Nat]
    BY CountIsTyped DEF HandlerInv, Synthesize
  <2> QED
    BY <1>2, <1>3, <2>1 DEF HandlerInv, TypeOK, PcValue
<1>5. \A d \in Requests : d # r => SameRequest(d)
  BY <1>2, CallsAreRequests DEF HandlerInv, TypeOK, ChainTypeOK, SameRequest
<1>6. RequestInv(r)'
  <2>1. pc'[r] = "synthesizing" /\ stage'[r] = "running"
        /\ ctx'[r].a = ARecords(r)
    BY <1>2, CallsAreRequests DEF HandlerInv, TypeOK, ChainTypeOK
  <2>2. Admitted(r)' = Admitted(r) /\ ARecords(r)' = ARecords(r)
    BY <1>2 DEF Admitted, ARecords
  <2> QED
    BY <1>1, <1>2, <2>1, <2>2 DEF RequestInv, Underway
<1>7. pc[r] # "done" /\ pc'[r] # "done"
  BY <1>1, <1>2 DEF HandlerInv, TypeOK
<1> QED
  BY <1>2, <1>3, <1>4, <1>5, <1>6, <1>7, UndecidedKeeps

(* While the chain runs, the request waits for it.                         *)
LEMMA RunningKeeps ==
  ASSUME HandlerInv, NEW r \in Requests, Reference(r) \/ RunChain(r)
  PROVE  HandlerInv'
<1>1. /\ stage[r] = "running"
      /\ stage'[r] \in {"running", "done"}
      /\ \A d \in Requests :
           d # r => stage'[d] = stage[d] /\ winner'[d] = winner[d]
      /\ UNCHANGED ctx
  BY CallsAreRequests
     DEF Reference, RunChain, Resolve, ChainStep, TryNext, Succeed, GiveUp,
         Ready, Trying, HandlerInv, TypeOK, ChainTypeOK
<1>2. UNCHANGED <<message, pc, main, side, reply, outcome, log, metrics>>
  BY DEF Reference, RunChain, handlerVars
<1>3. pc[r] = "synthesizing"
  <2>1. stage[r] \notin {"idle", "done"}
    BY <1>1
  <2>2. ~Settled(r, reply[r], outcome[r])
    BY <2>1 DEF Settled, Rejected, TurnedAway, FailedByPool, RelayedFromPool,
                Synthesized, Unsynthesized, NeverAsked
  <2> QED
    BY <2>1, <2>2 DEF HandlerInv, RequestInv, NeverAsked, Underway
<1>4. ChainInv' /\ ChainTypeOK'
  <2>1. ChainNext
    BY CallsAreRequests, HandlerAssumption
       DEF Reference, RunChain, ChainNext, Sourced
  <2> QED
    BY <2>1, ChainKeeps DEF HandlerInv, ChainInv
<1>5. TypeOK'
  BY <1>2, <1>4 DEF HandlerInv, TypeOK
<1>6. \A d \in Requests : d # r => SameRequest(d)
  BY <1>1, <1>2 DEF SameRequest
<1>7. RequestInv(r)'
  <2>1. Admitted(r)' = Admitted(r) /\ ARecords(r)' = ARecords(r)
    BY <1>2 DEF Admitted, ARecords
  <2> QED
    BY <1>1, <1>2, <1>3, <2>1 DEF HandlerInv, RequestInv, Underway
<1> QED
  BY <1>2, <1>3, <1>4, <1>5, <1>6, <1>7, UndecidedKeeps

(* The end of a request: its response is written, and what was answered is *)
(* recorded once.                                                          *)
LEMMA EndingKeeps ==
  ASSUME HandlerInv, NEW r \in Requests, Send(r) \/ Record(r)
  PROVE  HandlerInv'
<1>1. /\ pc[r] \in {"sending", "sent"}
      /\ pc' = [pc EXCEPT ![r] = pc'[r]] /\ pc'[r] \in {"sent", "done"}
      /\ UNCHANGED <<message, main, side, reply, outcome, metrics, chainVars>>
  BY DEF Send, Record, Goto, HandlerInv, TypeOK
<1>2. UNCHANGED <<message, main, side, reply, outcome, metrics, ctx, stage,
                  winner>>
  BY <1>1 DEF chainVars
<1>3. ChainInv' /\ ChainTypeOK'
  BY <1>1, ChainKeeps DEF HandlerInv, ChainInv
<1>4. \A d \in Requests : d # r => SameRequest(d)
  BY <1>1, <1>2 DEF HandlerInv, TypeOK, SameRequest
<1>5. RequestInv(r)'
  <2>1. Settled(r, reply[r], outcome[r])
    BY <1>1 DEF HandlerInv, RequestInv, Underway
  <2>2. Settled(r, reply[r], outcome[r])'
    BY <1>2, <2>1 DEF Settled, Rejected, TurnedAway, FailedByPool,
       RelayedFromPool, Synthesized, Unsynthesized, NeverAsked, Admitted
  <2>3. ARecords(r)' = ARecords(r)
    BY <1>2 DEF ARecords
  <2> QED
    BY <1>1, <1>2, <2>2, <2>3 DEF HandlerInv, RequestInv, Underway
<1>6. \A e \in log : e.request \in Requests /\ e.request # r
  BY <1>1 DEF HandlerInv, TypeOK, LogInv
<1>7. CASE Send(r)
  <2>1. UNCHANGED log /\ (pc'[r] = "done" => ~WellFormed(message[r]))
    BY <1>7 DEF Send, Goto, HandlerInv, TypeOK
  <2>2. TypeOK'
    BY <1>1, <1>2, <1>3, <2>1 DEF HandlerInv, TypeOK, PcValue
  <2>3. LogInv'
    BY <1>2, <1>4, <1>6, <2>1 DEF HandlerInv, LogInv, SameRequest
  <2> QED
    BY <1>3, <1>4, <1>5, <2>2, <2>3, SameKeeps DEF HandlerInv
<1>8. CASE Record(r)
  <2> DEFINE entry == [request |-> r, rcode |-> reply[r].rcode,
                       outcome |-> outcome[r]]
  <2>1. /\ log' = IF LogEnabled THEN log \cup {entry} ELSE log
        /\ pc[r] = "sent" /\ pc'[r] = "done"
    BY <1>8 DEF Record, Goto, HandlerInv, TypeOK
  <2>2. Settled(r, reply[r], outcome[r])
    BY <2>1 DEF HandlerInv, RequestInv, Underway
  <2>3. reply[r] \in Reply
    <3>1. reply[r] # NoReply
      BY <2>2 DEF Settled, Rejected, TurnedAway, FailedByPool,
         RelayedFromPool, Synthesized, Local, Relayed, Synthesis, NoReply
    <3> QED
      BY <3>1 DEF HandlerInv, TypeOK
  <2>4. entry \in [request : Requests, rcode : Rcode, outcome : Outcome]
    BY <2>3 DEF Reply, HandlerInv, TypeOK
  <2>5. TypeOK'
    <3>1. log' \subseteq [request : Requests, rcode : Rcode, outcome : Outcome]
      BY <2>1, <2>4 DEF HandlerInv, TypeOK
    <3> HIDE DEF entry
    <3> QED
      BY <1>1, <1>2, <1>3, <3>1 DEF HandlerInv, TypeOK, PcValue
  <2>6. LogInv'
    <3>1. entry.request = r /\ entry.rcode = reply[r].rcode
          /\ entry.outcome = outcome[r]
      OBVIOUS
    <3> HIDE DEF entry
    <3>2. \A e \in log' : e \in log \/ (e = entry /\ LogEnabled)
      BY <2>1
    <3>3. LogEnabled => entry \in log'
      BY <2>1
    <3>4. \A e \in log : e \in log'
      BY <2>1
    <3>5. ASSUME NEW e \in log'
          PROVE  /\ LogEnabled
                 /\ pc'[e.request] = "done"
                 /\ e.rcode = reply'[e.request].rcode
                 /\ e.outcome = outcome'[e.request]
      BY <1>2, <1>4, <1>6, <2>1, <3>1, <3>2, <3>5
         DEF HandlerInv, LogInv, SameRequest
    <3>6. ASSUME NEW e \in log', NEW f \in log', e.request = f.request
          PROVE  e = f
      BY <1>6, <3>1, <3>2, <3>6 DEF HandlerInv, LogInv
    <3>7. ASSUME NEW d \in Requests, pc'[d] = "done",
                 WellFormed(message'[d]), LogEnabled
          PROVE  \E e \in log' : e.request = d
      BY <1>2, <1>4, <3>1, <3>3, <3>4, <3>7
         DEF HandlerInv, LogInv, SameRequest
    <3> QED
      BY <3>5, <3>6, <3>7 DEF LogInv
  <2> QED
    BY <1>3, <1>4, <1>5, <2>5, <2>6, SameKeeps DEF HandlerInv
<1> QED
  BY <1>7, <1>8
-------------------------------------------------------------------------------
(* HandlerInv holds before any request is looked at.                       *)
LEMMA HandlerBegins == Init => HandlerInv
<1> SUFFICES ASSUME Init PROVE HandlerInv
  OBVIOUS
<1>1. ChainInv
  BY ChainBegins DEF Init
<1>2. ChainTypeOK
  BY <1>1 DEF ChainInv
<1>3. \A r \in Requests : RequestInv(r)
  BY CallsAreRequests
     DEF Init, ChainInit, RequestInv, NeverAsked, Underway, Unasked, Pending
<1>4. LogInv
  BY DEF Init, LogInv
<1>5. TypeOK
  BY <1>2 DEF Init, TypeOK, PcValue, Outcome
<1> QED
  BY <1>1, <1>3, <1>4, <1>5 DEF HandlerInv

(* Every step of the handler keeps HandlerInv.                             *)
LEMMA HandlerKeeps == HandlerInv /\ [Next]_vars => HandlerInv'
<1> SUFFICES ASSUME HandlerInv, [Next]_vars PROVE HandlerInv'
  OBVIOUS
<1>1. CASE UNCHANGED vars
  <2>1. UNCHANGED <<message, pc, main, side, reply, outcome, log, metrics>>
        /\ UNCHANGED chainVars
    BY <1>1 DEF vars, handlerVars
  <2>2. UNCHANGED <<ctx, stage, winner>>
    BY <2>1 DEF chainVars
  <2>3. ChainInv' /\ ChainTypeOK'
    BY <2>1, ChainKeeps DEF HandlerInv, ChainInv
  <2>4. TypeOK' /\ LogInv'
    BY <2>1, <2>3 DEF HandlerInv, TypeOK, LogInv
  <2>5. \A d \in Requests : SameRequest(d)
    BY <2>1, <2>2 DEF SameRequest
  <2> QED
    BY <2>3, <2>4, <2>5, SameKeeps DEF HandlerInv
<1>2. ASSUME NEW r \in Requests, Proceeds(r) PROVE HandlerInv'
  BY <1>2, TurningAwayKeeps, BeginningKeeps, JoinedKeeps, SynthesizeKeeps,
     RunningKeeps, SynthesizedKeeps, ForwardedKeeps, EndingKeeps DEF Proceeds
<1>3. ASSUME NEW r \in Requests, Lookups(r) PROVE HandlerInv'
  BY <1>3, ReturnsKeep, RunningKeeps DEF Lookups
<1> QED
  BY <1>1, <1>2, <1>3 DEF Next

(* HandlerInv is an invariant of the handler.                              *)
LEMMA HandlerInvariant == Spec => []HandlerInv
BY HandlerBegins, HandlerKeeps, PTL DEF Spec

(* Every variable of the handler and the chain stays within the values the *)
(* code gives it.                                                          *)
THEOREM TypeCorrect == Spec => []TypeOK
<1>1. HandlerInv => TypeOK
  BY DEF HandlerInv
<1> QED
  BY <1>1, HandlerInvariant, PTL

(* mask: a prefix selects the bits it counts, from the upper end.          *)
LEMMA MaskSelectsPrefix ==
  ASSUME NEW p \in 0..Width
  PROVE Mask(p) = Width - p..Width - 1
<1> USE WidthAssumption
<1>1. CASE p = 0
  BY <1>1 DEF Mask
<1>2. CASE p # 0
  <2>1. ASSUME NEW b \in Width - p..Width - 1
        PROVE b \in ShiftLeft(AllOnes, Width - p)
    <3>1. b - (Width - p) \in AllOnes
      BY <2>1 DEF AllOnes
    <3>2. b = (b - (Width - p)) + (Width - p)
      BY <2>1
    <3>3. b \in AllOnes
      BY <2>1, <1>2 DEF AllOnes
    <3> QED
      BY <3>1, <3>2, <3>3 DEF ShiftLeft
  <2>2. ASSUME NEW b \in ShiftLeft(AllOnes, Width - p)
        PROVE b \in Width - p..Width - 1
    BY DEF ShiftLeft, AllOnes
  <2> QED
    BY <1>2, <2>1, <2>2 DEF Mask
<1> QED
  BY <1>1, <1>2

(* contains: two words have the same bits under a mask just when they      *)
(* agree on every bit that the prefix counts.                              *)
LEMMA ContainsAgrees ==
  ASSUME NEW entry \in Entry, Parses(entry), NEW bits \in Word
  PROVE Contains6(Net6(entry), bits)
          <=> \A b \in Width - PrefixOf(entry)..Width - 1 :
                b \in bits <=> b \in entry.addr.bits
<1> DEFINE p == PrefixOf(entry)
<1>1. p \in 0..Width
  BY WidthAssumption DEF PrefixOf, Parses, Entry, Bare
<1>2. Mask(p) = Width - p..Width - 1
  BY <1>1, MaskSelectsPrefix
<1>3. Contains6(Net6(entry), bits)
        <=> bits \cap Mask(p) = entry.addr.bits \cap Mask(p)
  BY DEF Contains6, Net6
<1> QED
  BY <1>2, <1>3

(* Admits, by what the entries of the allowlist say.                       *)
LEMMA AdmitsTheListed ==
  ASSUME NEW client \in Address
  PROVE  Admits(client) <=> Listed(Networks, client)
<1>1. Networks \in SUBSET Entry /\ ParsesAll(Networks)
  BY HandlerAssumption
<1>2. client.bits \in Word
  BY DEF Address
<1>3. ASSUME NEW entry \in Networks
      PROVE Contains6(Net6(entry), client.bits)
              <=> \A b \in Width - PrefixOf(entry)..Width - 1 :
                    b \in client.bits <=> b \in entry.addr.bits
  BY <1>1, <1>2, ContainsAgrees DEF ParsesAll
<1> QED
  BY <1>3 DEF Admits, Allows, Listed, Parse

(* handle_request: policy decides before a lookup is made, the allowlist   *)
(* before the blocklist, and the allowlist means what its networks say.    *)
THEOREM PolicyFirst == Spec => []PolicyBeforeResolution
<1>1. HandlerInv => PolicyBeforeResolution
  <2> SUFFICES ASSUME HandlerInv, NEW r \in Requests
               PROVE  LET mayQuery == Listed(Networks, message[r].client)
                      IN /\ ~mayQuery \/ ~WellFormed(message[r])
                            \/ message[r].listed => NeverAsked(r)
                         /\ Decided(r) /\ WellFormed(message[r]) =>
                              (~mayQuery <=> outcome[r] = "refused")
                         /\ outcome[r] = "refused" =>
                              reply[r] = Local("Refused")
    BY DEF PolicyBeforeResolution, NeverAsked
  <2>1. Admits(message[r].client) <=> Listed(Networks, message[r].client)
    <3>1. message[r].client \in Address
      BY HandlerAssumption DEF HandlerInv, TypeOK, Message
    <3> QED
      BY <3>1, AdmitsTheListed
  <2>2. pc[r] \in Underway => ~Decided(r) /\ outcome[r] # "refused"
    BY DEF HandlerInv, RequestInv, Decided
  <2>3. pc[r] \notin Underway => Settled(r, reply[r], outcome[r])
    BY DEF HandlerInv, RequestInv
  <2>4. ~Admitted(r) => NeverAsked(r)
    <3>1. CASE pc[r] \in Underway
      BY <3>1 DEF HandlerInv, RequestInv, Underway
    <3>2. CASE pc[r] \notin Underway
      BY <2>3, <3>2 DEF Settled, Rejected, TurnedAway, FailedByPool,
                        RelayedFromPool, Synthesized
    <3> QED
      BY <3>1, <3>2
  <2>5. ~Listed(Networks, message[r].client) \/ ~WellFormed(message[r])
        \/ message[r].listed => NeverAsked(r)
    BY <2>1, <2>4 DEF Admitted
  <2>6. CASE pc[r] \in Underway
    BY <2>2, <2>5, <2>6
  <2>7. CASE pc[r] \notin Underway
    BY <2>1, <2>3, <2>5, <2>7
       DEF Settled, Rejected, TurnedAway, FailedByPool, RelayedFromPool,
           Synthesized, Admitted
  <2> QED
    BY <2>6, <2>7
<1> QED
  BY <1>1, HandlerInvariant, PTL

(* handle_dns64: synthesis answers NODATA and nothing else, and what the   *)
(* upstream said otherwise reaches the client as it was said.              *)
THEOREM OnlyNodata == Spec => []SynthesizesOnlyNodata
<1>1. HandlerInv => SynthesizesOnlyNodata
  <2> SUFFICES ASSUME HandlerInv, NEW r \in Requests, Decided(r), Admitted(r)
               PROVE  /\ reply[r].from = "synthesis" =>
                           /\ IsDns64(message[r])
                           /\ main[r].rcode = "NoError" /\ ~main[r].native
                           /\ records[r] # {} /\ ~reply[r].ad
                      /\ reply[r].from = "relay" =>
                           /\ reply[r].rcode = main[r].rcode
                           /\ reply[r].ad = main[r].ad
                           /\ records[r] = {}
                      /\ reply[r].from = "local" =>
                           main[r] = NoAnswer /\ reply[r].rcode = "ServFail"
    BY DEF SynthesizesOnlyNodata
  <2>1. Settled(r, reply[r], outcome[r])
    BY DEF HandlerInv, RequestInv, Decided
  <2>2. /\ ~Rejected(r, reply[r], outcome[r])
        /\ ~TurnedAway(r, reply[r], outcome[r])
    BY DEF Rejected, TurnedAway, Admitted
  <2>3. CASE FailedByPool(r, reply[r], outcome[r])
    BY <2>3 DEF FailedByPool, Local
  <2>4. CASE RelayedFromPool(r, reply[r], outcome[r])
    <3>1. records[r] = {}
      <4>1. ~Won(r)
        <5>1. winner[r] = IdAt(r) /\ IdAt(r) \in Ids => winner[r] # "none"
          BY RegistryAssumption DEF Ids
        <5> QED
          BY <2>4, <5>1, WonRecords, CallsAreRequests
             DEF RelayedFromPool, Unsynthesized, HandlerInv, Won, IdAt
      <4> QED
        BY <2>4, <4>1, CallsAreRequests
           DEF RelayedFromPool, Unsynthesized, HandlerInv, ChainInv, CallInv,
               Blank, Ended, Exhausted
    <3> QED
      BY <2>4, <3>1 DEF RelayedFromPool, Relayed
  <2>5. CASE Synthesized(r, reply[r], outcome[r])
    <3>1. records[r] # {}
      BY <2>5, WonRecords, CallsAreRequests DEF Synthesized, HandlerInv
    <3> QED
      BY <2>5, <3>1 DEF Synthesized, Synthesis
  <2> QED
    BY <2>1, <2>2, <2>3, <2>4, <2>5 DEF Settled
<1> QED
  BY <1>1, HandlerInvariant, PTL

(* What is embedded behind the translator is the A lookup of the request.  *)
THEOREM EmbedsOwn == Spec => []EmbedsItsOwnLookup
<1>1. HandlerInv => EmbedsItsOwnLookup
  <2> SUFFICES ASSUME HandlerInv, NEW r \in Requests, NEW rec \in records[r],
                      rec.addr.via = "nat64"
               PROVE  /\ side[r].rcode = "NoError"
                      /\ rec.addr.of \in Addrs(side[r].a)
    BY DEF EmbedsItsOwnLookup
  <2>1. r \in Calls /\ ChainInv
    BY CallsAreRequests DEF HandlerInv
  <2>2. stage[r] # "idle"
    BY <2>1, WonRecords
  <2>3. rec.addr.of \in Eligible(ctx[r])
    BY <2>1, TranslatorConfigured
       DEF TranslatorOnlyAsConfigured, Embedded, IsEmbedded
  <2>4. ctx[r].a = ARecords(r)
    BY <2>2 DEF HandlerInv, RequestInv
  <2>5. rec.addr.of \in Addrs(ARecords(r))
    BY <2>3, <2>4 DEF Eligible
  <2> QED
    BY <2>5 DEF ARecords, Addrs
<1> QED
  BY <1>1, HandlerInvariant, PTL

(* The query log has one entry of each request that has ended, with the    *)
(* code it was answered with and an outcome that says where that is from.  *)
THEOREM LogIsTrue == Spec => []LogTellsTheTruth
<1>1. HandlerInv => LogTellsTheTruth
  <2> SUFFICES ASSUME HandlerInv PROVE LogTellsTheTruth
    OBVIOUS
  <2>1. ASSUME NEW e \in log
        PROVE  /\ e.outcome \in {"refused", "blocked", "servfail"} =>
                    reply[e.request].from = "local"
               /\ e.outcome = "synthesized" <=>
                    reply[e.request].from = "synthesis"
    <3>1. Settled(e.request, reply[e.request], outcome[e.request])
          /\ e.outcome = outcome[e.request]
      BY DEF HandlerInv, TypeOK, LogInv, RequestInv, Underway
    <3> QED
      BY <3>1 DEF Settled, Rejected, TurnedAway, FailedByPool,
                  RelayedFromPool, Synthesized, Local, Relayed, Synthesis
  <2> QED
    BY <2>1 DEF LogTellsTheTruth, HandlerInv, LogInv
<1> QED
  BY <1>1, HandlerInvariant, PTL

(* The chain, as the handler calls it, answers with what the first         *)
(* synthesizer yields.                                                     *)
THEOREM AnswersFirst == Spec => []FirstThatYields
<1>1. HandlerInv => FirstThatYields
  BY FirstYields DEF HandlerInv
<1> QED
  BY <1>1, HandlerInvariant, PTL

(* A specific provider is tried before the generic one it is a part of.    *)
THEOREM TriesSpecificFirst == Spec => []SpecificBeforeGeneric
<1>1. HandlerInv => SpecificBeforeGeneric
  BY SpecificFirst DEF HandlerInv
<1> QED
  BY <1>1, HandlerInvariant, PTL

(* A translator's address is handed out only as configured.                *)
THEOREM TranslatesAsConfigured == Spec => []TranslatorOnlyAsConfigured
<1>1. HandlerInv => TranslatorOnlyAsConfigured
  BY TranslatorConfigured DEF HandlerInv
<1> QED
  BY <1>1, HandlerInvariant, PTL

(* No record is served for longer than what it was made from, or the cap.  *)
THEOREM ServesNoLonger == Spec => []NeverOutlivesItsSource
<1>1. HandlerInv => NeverOutlivesItsSource
  BY NeverOutlives DEF HandlerInv
<1> QED
  BY <1>1, HandlerInvariant, PTL
-------------------------------------------------------------------------------
(* The counters.  The requests each of them, and each place, accounts for. *)
Got(code) == {r \in Requests : reply[r].rcode = code}
Begun == {r \in Requests : pc[r] # "new" /\ Admitted(r)}
Joining == {r \in Requests : pc[r] = "joining"}
Synthesizing == {r \in Requests : pc[r] = "synthesizing"}
Masked == {r \in Requests : /\ side[r] # Unasked /\ Decided(r)
                            /\ outcome[r] \in {"servfail", "passthrough"}}

(* CountersBalance, set by set.                                            *)
Balance ==
  /\ \A code \in Rcode : metrics[code] = Cardinality(Got(code))
  /\ metrics["queries_dns64"] + metrics["queries_passthrough"]
       = Cardinality(Begun)
  /\ metrics["queries_dns64"]
       = metrics["native_aaaa"] + metrics["nxdomain64"] + metrics["nodata"]
         + Cardinality(Masked) + Cardinality(Joining)
  /\ metrics["nodata"]
       = metrics["synthesized"] + metrics["empty"]
         + Cardinality(Synthesizing)

(* The two say the same.                                                   *)
LEMMA BalanceIsCounters == Balance <=> CountersBalance
BY DEF Balance, CountersBalance, Number, Got, Begun, Joining, Synthesizing,
       Masked

(* How the size of a set moves when at most one request joins or leaves.   *)
Moves(before, after, r) ==
  /\ Cardinality(before) \in Nat /\ Cardinality(after) \in Nat
  /\ (r \in after <=> r \in before) => Cardinality(after) = Cardinality(before)
  /\ r \in after /\ r \notin before
       => Cardinality(after) = Cardinality(before) + 1
  /\ r \notin after /\ r \in before
       => Cardinality(before) = Cardinality(after) + 1

(* So it does when all others stay in or out.                              *)
LEMMA OneMoves ==
  ASSUME NEW before \in SUBSET Requests, NEW after \in SUBSET Requests,
         NEW r \in Requests,
         \A s \in Requests \ {r} : s \in after <=> s \in before
  PROVE  Moves(before, after, r)
<1>1. /\ IsFiniteSet(before) /\ Cardinality(before) \in Nat
      /\ IsFiniteSet(after) /\ Cardinality(after) \in Nat
  BY FS_Subset, FS_CardinalityType, HandlerAssumption
<1>2. CASE r \in after <=> r \in before
  <2>1. after = before
    BY <1>2
  <2> QED
    BY <1>1, <1>2, <2>1 DEF Moves
<1>3. CASE r \in after /\ r \notin before
  <2>1. after = before \cup {r}
    BY <1>3
  <2> QED
    BY <1>1, <1>3, <2>1, FS_AddElement DEF Moves
<1>4. CASE r \notin after /\ r \in before
  <2>1. before = after \cup {r}
    BY <1>4
  <2> QED
    BY <1>1, <1>4, <2>1, FS_AddElement DEF Moves
<1> QED
  BY <1>2, <1>3, <1>4

(* What the counters know of a request.                                    *)
SameCounts(d) ==
  /\ \A code \in Rcode : d \in Got(code)' <=> d \in Got(code)
  /\ d \in Begun' <=> d \in Begun
  /\ d \in Joining' <=> d \in Joining
  /\ d \in Synthesizing' <=> d \in Synthesizing
  /\ d \in Masked' <=> d \in Masked

(* Each set moves by at most one request in a step.                        *)
LEMMA SetsMove ==
  ASSUME NEW r \in Requests, \A d \in Requests \ {r} : SameCounts(d)
  PROVE  /\ \A code \in Rcode : Moves(Got(code), Got(code)', r)
         /\ Moves(Begun, Begun', r) /\ Moves(Joining, Joining', r)
         /\ Moves(Synthesizing, Synthesizing', r) /\ Moves(Masked, Masked', r)
<1>1. /\ Begun \in SUBSET Requests /\ Begun' \in SUBSET Requests
      /\ Joining \in SUBSET Requests /\ Joining' \in SUBSET Requests
      /\ Synthesizing \in SUBSET Requests /\ Synthesizing' \in SUBSET Requests
      /\ Masked \in SUBSET Requests /\ Masked' \in SUBSET Requests
  BY DEF Begun, Joining, Synthesizing, Masked
<1>2. /\ Moves(Begun, Begun', r) /\ Moves(Joining, Joining', r)
      /\ Moves(Synthesizing, Synthesizing', r) /\ Moves(Masked, Masked', r)
  BY <1>1, OneMoves DEF SameCounts
<1>3. ASSUME NEW code \in Rcode PROVE Moves(Got(code), Got(code)', r)
  <2>1. Got(code) \in SUBSET Requests /\ Got(code)' \in SUBSET Requests
    BY DEF Got
  <2> QED
    BY <2>1, OneMoves DEF SameCounts
<1> QED
  BY <1>2, <1>3

(* A step that moves nobody and counts nothing keeps the balance.          *)
LEMMA StillBalanced ==
  ASSUME Balance, metrics' = metrics, NEW r \in Requests,
         \A d \in Requests : SameCounts(d)
  PROVE  Balance'
<1>1. \A code \in Rcode : Cardinality(Got(code)') = Cardinality(Got(code))
  BY SetsMove DEF SameCounts, Moves
<1>2. /\ Cardinality(Begun') = Cardinality(Begun)
      /\ Cardinality(Joining') = Cardinality(Joining)
      /\ Cardinality(Synthesizing') = Cardinality(Synthesizing)
      /\ Cardinality(Masked') = Cardinality(Masked)
  BY SetsMove DEF SameCounts, Moves
<1> QED
  BY <1>1, <1>2 DEF Balance

(* A request on the DNS64 path has asked for A records beside its own      *)
(* question; one that is passed through has not.                           *)
SideInv ==
  \A r \in Requests : /\ pc[r] = "joining" => side[r] # Unasked
                      /\ pc[r] = "forwarding" => side[r] = Unasked

(* What a request's own fields are to the counters.                        *)
LEMMA CountsKept ==
  ASSUME NEW d \in Requests,
         UNCHANGED <<message[d], reply[d], outcome[d]>>,
         side'[d] = Unasked <=> side[d] = Unasked,
         pc'[d] = "new" <=> pc[d] = "new",
         pc'[d] = "joining" <=> pc[d] = "joining",
         pc'[d] = "synthesizing" <=> pc[d] = "synthesizing"
  PROVE  SameCounts(d)
BY DEF SameCounts, Got, Begun, Joining, Synthesizing, Masked, Decided,
       Admitted

(* What a response that is decided changes for the counters.               *)
LEMMA ResponseCounts ==
  ASSUME HandlerInv, NEW r \in Requests, NEW response, NEW seen, NEW names,
         response.rcode \in Rcode, pc[r] \in Underway,
         Respond(r, response, seen, names), UNCHANGED <<message, side>>
  PROVE  /\ \A d \in Requests \ {r} : SameCounts(d)
         /\ \A code \in Rcode : r \in Got(code)' <=> code = response.rcode
         /\ \A code \in Rcode : r \notin Got(code)
         /\ r \in Begun <=> pc[r] # "new" /\ Admitted(r)
         /\ r \in Begun' <=> Admitted(r)
         /\ r \in Joining <=> pc[r] = "joining"
         /\ r \in Synthesizing <=> pc[r] = "synthesizing"
         /\ r \notin Joining' /\ r \notin Synthesizing' /\ r \notin Masked
         /\ r \in Masked' <=>
              side[r] # Unasked /\ seen \in {"servfail", "passthrough"}
<1>1. /\ reply' = [reply EXCEPT ![r] = response]
      /\ outcome' = [outcome EXCEPT ![r] = seen]
      /\ pc' = [pc EXCEPT ![r] = "sending"]
  BY DEF Respond, Goto
<1>2. /\ reply'[r] = response /\ outcome'[r] = seen /\ pc'[r] = "sending"
      /\ reply[r] = NoReply
  BY <1>1 DEF HandlerInv, TypeOK, RequestInv
<1>3. \A d \in Requests \ {r} : SameCounts(d)
  <2> SUFFICES ASSUME NEW d \in Requests \ {r} PROVE SameCounts(d)
    OBVIOUS
  <2>1. UNCHANGED <<message[d], reply[d], outcome[d], side[d], pc[d]>>
    BY <1>1 DEF HandlerInv, TypeOK
  <2> QED
    BY <2>1, CountsKept
<1>4. NoReply.rcode \notin Rcode /\ response # NoReply
  BY DEF NoReply, Rcode
<1>5. /\ \A code \in Rcode : r \in Got(code)' <=> code = response.rcode
      /\ \A code \in Rcode : r \notin Got(code)
  BY <1>2, <1>4 DEF Got
<1>6. /\ r \in Begun <=> pc[r] # "new" /\ Admitted(r)
      /\ r \in Begun' <=> Admitted(r)
      /\ r \in Joining <=> pc[r] = "joining"
      /\ r \in Synthesizing <=> pc[r] = "synthesizing"
      /\ r \notin Joining' /\ r \notin Synthesizing'
  BY <1>2 DEF Begun, Joining, Synthesizing, Admitted
<1>7. /\ r \notin Masked
      /\ r \in Masked' <=>
           side[r] # Unasked /\ seen \in {"servfail", "passthrough"}
  BY <1>2, <1>4 DEF Masked, Decided
<1> QED
  BY <1>3, <1>5, <1>6, <1>7

(* A response keeps the balance when what is counted with it is what the   *)
(* request leaves behind: nothing if it was not admitted or was passed     *)
(* through, its end if it was on the DNS64 path.                           *)
Accounted(r, seen, names) ==
  \/ /\ pc[r] = "new" /\ ~Admitted(r) /\ side[r] = Unasked
     /\ names \subseteq {"qtypes", "blocked"}
  \/ /\ pc[r] = "forwarding" /\ Admitted(r) /\ side[r] = Unasked
     /\ names = {}
  \/ /\ pc[r] = "joining" /\ Admitted(r) /\ side[r] # Unasked
     /\ \/ seen \in {"servfail", "passthrough"} /\ names = {}
        \/ seen = "native" /\ names = {"native_aaaa"}
        \/ seen = "nxdomain" /\ names = {"nxdomain64"}
  \/ /\ pc[r] = "synthesizing" /\ Admitted(r)
     /\ \/ seen = "synthesized" /\ names = {"synthesized"}
        \/ seen = "empty" /\ names = {"empty"}

(* Such a response keeps the balance.                                      *)
LEMMA ResponseBalances ==
  ASSUME HandlerInv, Balance, NEW r \in Requests, NEW response, NEW seen,
         NEW names, response.rcode \in Rcode, Accounted(r, seen, names),
         Respond(r, response, seen, names), UNCHANGED <<message, side>>
  PROVE  Balance'
<1>0. pc[r] \in Underway
  BY DEF Accounted, Underway
<1>1. metrics \in [Counter -> Nat]
  BY DEF HandlerInv, TypeOK
<1>2. /\ metrics' \in [Counter -> Nat]
      /\ \A n \in Counter : metrics'[n] =
           IF n \in names \cup {response.rcode} THEN metrics[n] + 1
                                                ELSE metrics[n]
  BY <1>1 DEF Respond, Count
<1>3. names \cap Rcode = {} /\ Rcode \subseteq Counter
  BY DEF Accounted, Rcode, Counter
<1>4. \A code \in Rcode : metrics'[code] = Cardinality(Got(code)')
  <2> SUFFICES ASSUME NEW code \in Rcode
               PROVE  metrics'[code] = Cardinality(Got(code)')
    OBVIOUS
  <2>1. Moves(Got(code), Got(code)', r) /\ r \notin Got(code)
        /\ (r \in Got(code)' <=> code = response.rcode)
    BY <1>0, ResponseCounts, SetsMove
  <2>2. metrics[code] = Cardinality(Got(code)) /\ metrics[code] \in Nat
    BY <1>1, <1>3 DEF Balance
  <2> QED
    BY <1>2, <1>3, <2>1, <2>2 DEF Moves
<1>5. /\ Moves(Begun, Begun', r) /\ Moves(Joining, Joining', r)
      /\ Moves(Synthesizing, Synthesizing', r) /\ Moves(Masked, Masked', r)
  BY <1>0, ResponseCounts, SetsMove
<1>6. \A n \in Counter \ Rcode :
        metrics'[n] = IF n \in names THEN metrics[n] + 1 ELSE metrics[n]
  BY <1>2
<1>7. /\ {"queries_dns64", "queries_passthrough", "native_aaaa", "nxdomain64",
          "nodata", "synthesized", "empty"} \subseteq Counter \ Rcode
  BY DEF Counter, Rcode
<1>8. /\ metrics'["queries_dns64"] = metrics["queries_dns64"]
      /\ metrics'["queries_passthrough"] = metrics["queries_passthrough"]
      /\ metrics'["nodata"] = metrics["nodata"]
  BY <1>6, <1>7 DEF Accounted
<1>9. /\ metrics["queries_dns64"] \in Nat /\ metrics["nodata"] \in Nat
      /\ metrics["queries_passthrough"] \in Nat /\ metrics["empty"] \in Nat
      /\ metrics["native_aaaa"] \in Nat /\ metrics["nxdomain64"] \in Nat
      /\ metrics["synthesized"] \in Nat
  BY <1>1, <1>7
<1>10. metrics'["queries_dns64"] + metrics'["queries_passthrough"]
         = Cardinality(Begun')
  BY <1>0, <1>5, <1>8, <1>9, ResponseCounts DEF Balance, Moves, Accounted
<1>11. metrics'["nodata"]
         = metrics'["synthesized"] + metrics'["empty"]
           + Cardinality(Synthesizing')
  <2>1. /\ metrics'["synthesized"] =
             metrics["synthesized"] + (IF names = {"synthesized"} THEN 1 ELSE 0)
        /\ metrics'["empty"] =
             metrics["empty"] + (IF names = {"empty"} THEN 1 ELSE 0)
    BY <1>6, <1>7, <1>9 DEF Accounted
  <2>2. r \in Synthesizing <=> names = {"synthesized"} \/ names = {"empty"}
    BY <1>0, ResponseCounts DEF Accounted
  <2>3. r \notin Synthesizing' /\ {"synthesized"} # {"empty"}
    BY <1>0, ResponseCounts
  <2>4. metrics["nodata"] = metrics["synthesized"] + metrics["empty"]
                            + Cardinality(Synthesizing)
    BY DEF Balance
  <2>5. CASE r \in Synthesizing
    <3>1. Cardinality(Synthesizing) = Cardinality(Synthesizing') + 1
          /\ Cardinality(Synthesizing') \in Nat
      BY <1>5, <2>3, <2>5 DEF Moves
    <3> QED
      BY <1>8, <1>9, <2>1, <2>2, <2>3, <2>4, <2>5, <3>1
  <2>6. CASE r \notin Synthesizing
    <3>1. Cardinality(Synthesizing) = Cardinality(Synthesizing')
          /\ Cardinality(Synthesizing') \in Nat
      BY <1>5, <2>3, <2>6 DEF Moves
    <3> QED
      BY <1>8, <1>9, <2>1, <2>2, <2>4, <2>6, <3>1
  <2> QED
    BY <2>5, <2>6
<1>12. metrics'["queries_dns64"]
         = metrics'["native_aaaa"] + metrics'["nxdomain64"]
           + metrics'["nodata"] + Cardinality(Masked') + Cardinality(Joining')
  <2>1. /\ metrics'["native_aaaa"] =
             metrics["native_aaaa"] + (IF names = {"native_aaaa"} THEN 1 ELSE 0)
        /\ metrics'["nxdomain64"] =
             metrics["nxdomain64"] + (IF names = {"nxdomain64"} THEN 1 ELSE 0)
    BY <1>6, <1>7, <1>9 DEF Accounted
  <2>2. /\ r \notin Joining' /\ r \notin Masked
        /\ r \in Joining <=>
             \/ names \in {{"native_aaaa"}, {"nxdomain64"}} \/ r \in Masked'
        /\ r \in Masked' =>
             names \notin {{"native_aaaa"}, {"nxdomain64"}}
    BY <1>0, ResponseCounts DEF Accounted
  <2> QED
    BY <1>5, <1>8, <1>9, <2>1, <2>2 DEF Balance, Moves
<1> QED
  BY <1>4, <1>10, <1>11, <1>12 DEF Balance

(* The responses of the handler are accounted for.                         *)
LEMMA ResponsesBalance ==
  ASSUME HandlerInv, SideInv, Balance, NEW r \in Requests,
         \/ Reject(r) \/ Refuse(r) \/ Block(r)
         \/ FailDns64(r) \/ RelayNative(r) \/ RelayNxdomain(r)
         \/ RelayError(r) \/ SendSynthesized(r) \/ RelayEmpty(r)
         \/ Forwarded(r)
  PROVE  Balance'
<1>0. /\ RequestInv(r) /\ UNCHANGED <<message, side>>
      /\ pc[r] = "joining" => side[r] # Unasked
      /\ pc[r] = "forwarding" => side[r] = Unasked
      /\ pc[r] = "new" => side[r] = Unasked
      /\ main[r] \in MainAnswers \cup {NoAnswer, Pending, Unasked}
  BY DEF HandlerInv, TypeOK, SideInv, RequestInv, NeverAsked, Reject, Refuse,
         Block, FailDns64, RelayNative, RelayNxdomain, RelayError, Relay,
         SendSynthesized, RelayEmpty, Forwarded
<1>1. ASSUME NEW answer \in MainAnswers PROVE Relayed(answer).rcode \in Rcode
  BY HandlerAssumption DEF Relayed, Answer
<1>2. \A code : Local(code).rcode = code
  BY DEF Local
<1>3. CASE Reject(r)
  <2> DEFINE code == IF message[r].standard THEN "FormErr" ELSE "NotImp"
  <2>1. Local(code).rcode \in Rcode
    BY <1>2 DEF Rcode
  <2>2. Accounted(r, "none", {})
    BY <1>0, <1>3 DEF Reject, Accounted, Admitted
  <2>3. Respond(r, Local(code), "none", {})
    BY <1>3 DEF Reject
  <2> QED
    BY <1>0, <2>1, <2>2, <2>3, ResponseBalances
<1>4. CASE Refuse(r)
  <2>1. Local("Refused").rcode \in Rcode
    BY <1>2 DEF Rcode
  <2>2. Accounted(r, "refused", {"qtypes"})
    BY <1>0, <1>4 DEF Refuse, Accounted, Admitted
  <2> QED
    BY <1>0, <1>4, <2>1, <2>2, ResponseBalances DEF Refuse
<1>5. CASE Block(r)
  <2>1. Local("NXDomain").rcode \in Rcode
    BY <1>2 DEF Rcode
  <2>2. Accounted(r, "blocked", {"qtypes", "blocked"})
    BY <1>0, <1>5 DEF Block, Accounted, Admitted
  <2> QED
    BY <1>0, <1>5, <2>1, <2>2, ResponseBalances DEF Block
<1>6. CASE FailDns64(r)
  <2>1. Local("ServFail").rcode \in Rcode
    BY <1>2 DEF Rcode
  <2>2. Accounted(r, "servfail", {})
    BY <1>0, <1>6 DEF FailDns64, Joined, Accounted, RequestInv
  <2> QED
    BY <1>0, <1>6, <2>1, <2>2, ResponseBalances DEF FailDns64
<1>7. CASE RelayNative(r) \/ RelayNxdomain(r) \/ RelayError(r)
  <2>1. /\ pc[r] = "joining" /\ Admitted(r)
        /\ main[r] \notin {Pending, Unasked}
        /\ main[r] # NoAnswer
    BY <1>0, <1>7 DEF RelayNative, RelayNxdomain, RelayError, Joined,
                      RequestInv, NoAnswer
  <2>2. Relayed(main[r]).rcode \in Rcode
    BY <1>0, <1>1, <2>1
  <2>3. /\ Accounted(r, "native", {"native_aaaa"})
        /\ Accounted(r, "nxdomain", {"nxdomain64"})
        /\ Accounted(r, "passthrough", {})
    BY <1>0, <2>1 DEF Accounted
  <2> QED
    BY <1>0, <1>7, <2>2, <2>3, ResponseBalances
       DEF RelayNative, RelayNxdomain, RelayError, Relay
<1>8. CASE SendSynthesized(r)
  <2>1. Synthesis.rcode \in Rcode
    BY DEF Synthesis, Rcode
  <2>2. Accounted(r, "synthesized", {"synthesized"})
    BY <1>0, <1>8 DEF SendSynthesized, Accounted, RequestInv
  <2> QED
    BY <1>0, <1>8, <2>1, <2>2, ResponseBalances DEF SendSynthesized
<1>9. CASE RelayEmpty(r)
  <2>1. main[r] \notin {NoAnswer, Pending, Unasked}
    BY <1>0, <1>9 DEF RelayEmpty, RequestInv, NoAnswer, Pending, Unasked
  <2>2. Relayed(main[r]).rcode \in Rcode
    BY <1>0, <1>1, <2>1
  <2>3. Accounted(r, "empty", {"empty"})
    BY <1>0, <1>9 DEF RelayEmpty, Accounted, RequestInv
  <2> QED
    BY <1>0, <1>9, <2>2, <2>3, ResponseBalances DEF RelayEmpty, Relay
<1>10. CASE Forwarded(r)
  <2>1. Accounted(r, "passthrough", {}) /\ main[r] \notin {Pending, Unasked}
    BY <1>0, <1>10 DEF Forwarded, Accounted, RequestInv
  <2>2. CASE main[r] = NoAnswer
    <3>1. Local("ServFail").rcode \in Rcode
      BY <1>2 DEF Rcode
    <3> QED
      BY <1>0, <1>10, <2>1, <2>2, <3>1, ResponseBalances DEF Forwarded
  <2>3. CASE main[r] # NoAnswer
    <3>1. Relayed(main[r]).rcode \in Rcode
      BY <1>0, <1>1, <2>1, <2>3
    <3> QED
      BY <1>0, <1>10, <2>1, <2>3, <3>1, ResponseBalances DEF Forwarded
  <2> QED
    BY <2>2, <2>3
<1> QED
  BY <1>3, <1>4, <1>5, <1>6, <1>7, <1>8, <1>9, <1>10

(* The steps by which an admitted request goes on.                         *)
LEMMA GoingOnBalances ==
  ASSUME HandlerInv, Balance, NEW r \in Requests,
         NEW names, Count(names), UNCHANGED <<message, reply, outcome>>,
         \A d \in Requests \ {r} : UNCHANGED <<pc[d], side[d]>>,
         Admitted(r), pc[r] \in Underway,
         \/ /\ pc[r] = "new" /\ pc'[r] = "joining"
            /\ names = {"qtypes", "queries_dns64"}
         \/ /\ pc[r] = "new" /\ pc'[r] = "forwarding"
            /\ names = {"qtypes", "queries_passthrough"}
         \/ /\ pc[r] = "joining" /\ pc'[r] = "synthesizing"
            /\ names = {"nodata"}
  PROVE  Balance'
<1>1. \A d \in Requests \ {r} : SameCounts(d)
  BY CountsKept
<1>2. reply[r] = NoReply /\ reply' = reply
  BY DEF HandlerInv, RequestInv
<1>3. /\ \A code \in Rcode : Got(code)' = Got(code)
      /\ r \notin Masked' /\ r \notin Masked
  BY <1>2 DEF Got, Masked, Decided
<1>4. /\ r \in Begun' /\ (r \in Begun <=> pc[r] # "new")
      /\ r \in Joining' <=> pc'[r] = "joining"
      /\ r \in Joining <=> pc[r] = "joining"
      /\ r \in Synthesizing' <=> pc'[r] = "synthesizing"
      /\ r \notin Synthesizing
  BY DEF Begun, Joining, Synthesizing, Admitted
<1>5. /\ Moves(Begun, Begun', r) /\ Moves(Joining, Joining', r)
      /\ Moves(Synthesizing, Synthesizing', r) /\ Moves(Masked, Masked', r)
  BY <1>1, SetsMove
<1>6. metrics \in [Counter -> Nat]
  BY DEF HandlerInv, TypeOK
<1>7. \A code \in Rcode : metrics'[code] = metrics[code]
  BY <1>6 DEF Count, Counter, Rcode
<1>8. \A n \in Counter :
        metrics'[n] = IF n \in names THEN metrics[n] + 1 ELSE metrics[n]
  BY <1>6 DEF Count
<1>9. /\ {"queries_dns64", "queries_passthrough", "native_aaaa", "nxdomain64",
          "nodata", "synthesized", "empty"} \subseteq Counter
  BY DEF Counter
<1>10. /\ metrics["queries_dns64"] \in Nat /\ metrics["nodata"] \in Nat
       /\ metrics["queries_passthrough"] \in Nat /\ metrics["empty"] \in Nat
       /\ metrics["native_aaaa"] \in Nat /\ metrics["nxdomain64"] \in Nat
       /\ metrics["synthesized"] \in Nat
  BY <1>6, <1>9
<1>11. /\ metrics'["native_aaaa"] = metrics["native_aaaa"]
       /\ metrics'["nxdomain64"] = metrics["nxdomain64"]
       /\ metrics'["synthesized"] = metrics["synthesized"]
       /\ metrics'["empty"] = metrics["empty"]
       /\ metrics'["queries_dns64"] = metrics["queries_dns64"] +
            IF pc'[r] = "joining" THEN 1 ELSE 0
       /\ metrics'["queries_passthrough"] = metrics["queries_passthrough"] +
            IF pc'[r] = "forwarding" THEN 1 ELSE 0
       /\ metrics'["nodata"] = metrics["nodata"] +
            IF pc'[r] = "synthesizing" THEN 1 ELSE 0
  BY <1>8, <1>9, <1>10
<1>12. \A code \in Rcode : metrics'[code] = Cardinality(Got(code)')
  BY <1>3, <1>7 DEF Balance
<1>13. metrics'["queries_dns64"] + metrics'["queries_passthrough"]
         = Cardinality(Begun')
  BY <1>4, <1>5, <1>10, <1>11 DEF Balance, Moves
<1>14. metrics'["nodata"]
         = metrics'["synthesized"] + metrics'["empty"]
           + Cardinality(Synthesizing')
  BY <1>4, <1>5, <1>10, <1>11 DEF Balance, Moves
<1>15. metrics'["queries_dns64"]
         = metrics'["native_aaaa"] + metrics'["nxdomain64"]
           + metrics'["nodata"] + Cardinality(Masked') + Cardinality(Joining')
  BY <1>3, <1>4, <1>5, <1>10, <1>11 DEF Balance, Moves
<1> QED
  BY <1>12, <1>13, <1>14, <1>15 DEF Balance

(* Every counter moves with the requests it counts.                        *)
LEMMA BalanceKeeps ==
  HandlerInv /\ SideInv /\ Balance /\ [Next]_vars => (SideInv /\ Balance)'
<1> SUFFICES ASSUME HandlerInv, SideInv, Balance, [Next]_vars
             PROVE  SideInv' /\ Balance'
  OBVIOUS
<1>0. /\ pc \in [Requests -> PcValue] /\ DOMAIN side = Requests
      /\ side \in [Requests -> SideAnswers \cup {NoAnswer, Pending, Unasked}]
  BY DEF HandlerInv, TypeOK
<1>1. ASSUME UNCHANGED handlerVars PROVE SideInv' /\ Balance'
  BY <1>1 DEF handlerVars, SideInv, Balance, Got, Begun, Joining,
              Synthesizing, Masked, Decided, Admitted
<1>2. ASSUME NEW r \in Requests,
             \/ Reject(r) \/ Refuse(r) \/ Block(r)
             \/ FailDns64(r) \/ RelayNative(r) \/ RelayNxdomain(r)
             \/ RelayError(r) \/ SendSynthesized(r) \/ RelayEmpty(r)
             \/ Forwarded(r)
      PROVE  SideInv' /\ Balance'
  <2>1. pc' = [pc EXCEPT ![r] = "sending"] /\ side' = side
    BY <1>2 DEF Reject, Refuse, Block, FailDns64, RelayNative, RelayNxdomain,
                RelayError, Relay, SendSynthesized, RelayEmpty, Forwarded,
                Respond, Goto
  <2>2. SideInv'
    BY <1>0, <2>1 DEF SideInv
  <2> QED
    BY <1>2, <2>2, ResponsesBalance
<1>3. ASSUME NEW r \in Requests, BeginDns64(r) \/ BeginPassthrough(r)
      PROVE  SideInv' /\ Balance'
  <2>1. side[r] = Unasked /\ Pending # Unasked
    BY <1>3 DEF BeginDns64, BeginPassthrough, HandlerInv, RequestInv,
                NeverAsked, Pending, Unasked
  <2>2. SideInv'
    BY <1>0, <1>3, <2>1 DEF BeginDns64, BeginPassthrough, SideInv, Goto
  <2>3. /\ pc[r] = "new" /\ "new" \in Underway
        /\ \A d \in Requests \ {r} : UNCHANGED <<pc[d], side[d]>>
        /\ pc'[r] = IF BeginDns64(r) THEN "joining" ELSE "forwarding"
    BY <1>0, <1>3 DEF BeginDns64, BeginPassthrough, Goto, Underway
  <2>4. Balance'
    BY <1>3, <2>3, GoingOnBalances DEF BeginDns64, BeginPassthrough
  <2> QED
    BY <2>2, <2>4
<1>4. ASSUME NEW r \in Requests, NEW plans \in Detections,
             Synthesize(r, plans)
      PROVE  SideInv' /\ Balance'
  <2>1. /\ pc' = [pc EXCEPT ![r] = "synthesizing"] /\ pc[r] = "joining"
        /\ UNCHANGED <<message, side, reply, outcome>> /\ Count({"nodata"})
    BY <1>4 DEF Synthesize, Joined, Goto
  <2>2. SideInv'
    BY <1>0, <2>1 DEF SideInv
  <2>3. /\ Admitted(r) /\ pc[r] \in Underway /\ pc'[r] = "synthesizing"
        /\ \A d \in Requests \ {r} : UNCHANGED <<pc[d], side[d]>>
    BY <1>0, <2>1 DEF HandlerInv, RequestInv, Underway
  <2>4. Balance'
    BY <2>1, <2>3, GoingOnBalances
  <2> QED
    BY <2>2, <2>4
<1>5. ASSUME NEW r \in Requests,
             \/ Send(r) \/ Record(r)
             \/ \E answer \in MainAnswers \cup {NoAnswer} :
                  MainReturns(r, answer)
             \/ \E answer \in SideAnswers \cup {NoAnswer} :
                  SideReturns(r, answer)
      PROVE  SideInv' /\ Balance'
  <2>1. \A answer \in SideAnswers \cup {NoAnswer} : answer # Unasked
    BY AnswersApart, HandlerAssumption DEF NoAnswer, Unasked
  <2>2. Pending # Unasked
    BY DEF Pending, Unasked
  <2>3. UNCHANGED <<message, reply, outcome, metrics>>
    BY <1>5 DEF Send, Record, MainReturns, SideReturns
  <2>4. ASSUME NEW d \in Requests
        PROVE  /\ side'[d] = Unasked <=> side[d] = Unasked
               /\ pc'[d] = pc[d] \/ (pc[d] \in {"sending", "sent"} /\
                                     pc'[d] \in {"sent", "done"})
    BY <1>0, <1>5, <2>1, <2>2
       DEF Send, Record, MainReturns, SideReturns, Goto
  <2>5. SideInv'
    BY <2>4 DEF SideInv
  <2>6. \A d \in Requests : SameCounts(d)
    BY <2>3, <2>4, CountsKept
  <2> QED
    BY <2>3, <2>5, <2>6, StillBalanced
<1> QED
  BY <1>1, <1>2, <1>3, <1>4, <1>5
     DEF Next, Proceeds, Lookups, Reference, RunChain, vars

(* The counters account for every request, at every moment: one code per   *)
(* decided request, one kind per admitted query, and every DNS64 query in  *)
(* exactly one of its ends or on its way there.                            *)
THEOREM CountersAccount == Spec => []CountersBalance
<1>1. Init => SideInv /\ Balance
  <2> SUFFICES ASSUME Init PROVE SideInv /\ Balance
    OBVIOUS
  <2>1. NoReply.rcode \notin Rcode
    BY DEF NoReply, Rcode
  <2>2. /\ \A code \in Rcode : Got(code) = {}
        /\ Begun = {} /\ Joining = {} /\ Synthesizing = {} /\ Masked = {}
    BY <2>1 DEF Init, Got, Begun, Joining, Synthesizing, Masked, Decided
  <2>3. Balance
    BY <2>2, FS_EmptySet DEF Init, Balance, Counter
  <2> QED
    BY <2>3 DEF Init, SideInv
<1>2. HandlerInv /\ SideInv /\ Balance /\ [Next]_vars
        => (HandlerInv /\ SideInv /\ Balance)'
  BY HandlerKeeps, BalanceKeeps
<1>3. Balance => CountersBalance
  BY BalanceIsCounters
<1> QED
  BY <1>1, <1>2, <1>3, HandlerBegins, PTL DEF Spec
===============================================================================
