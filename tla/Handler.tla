-------------------------------- MODULE Handler -------------------------------
(***************************************************************************)
(* The request handler of handler.rs: Dns64Handler::handle_request and     *)
(* handle_dns64, run by concurrent request tasks, composed with the        *)
(* synthesizer chain of module Chain, whose calls are these requests, and  *)
(* the client allowlist of module ClientAcl.                               *)
(*                                                                         *)
(* The code between two awaits is one action.  The resolver pool is the    *)
(* environment here (module Pool models it): each lookup ends with any     *)
(* answer the pool can return, in either order when two run in parallel.   *)
(***************************************************************************)
EXTENDS Chain, ClientAcl, FiniteSets

CONSTANTS
  Requests,    \* the calls of handle_request, which are Chain's calls
  Messages,    \* the messages clients may send, a subset of Message
  MainAnswers, \* what the pool may return for the client's own query
  SideAnswers, \* what it may return for the A lookup beside it
  References,  \* what a reference lookup may yield
  Detections,  \* what the configured providers may make of a name
  TheChain,    \* the chain built at start
  Networks,    \* client_networks, which config.rs has found to parse
  LogEnabled   \* the dashboard, and so the query log, is configured

Rcode == {"NoError", "NXDomain", "Refused", "ServFail", "NotImp", "FormErr"}

(* What the handler looks at in a request: the client it came from, and    *)
(* its question, whether the blocklist lists the name being part of that.  *)
Message == [standard : BOOLEAN, questions : 0..2, qtype : {"AAAA", "other"},
            class : {"IN", "other"}, cd : BOOLEAN, client : Address,
            listed : BOOLEAN, arpa : BOOLEAN]

(* A response of the pool as the handler sees it: NoAnswer is its None.    *)
(* The pool turns SERVFAIL into None, so it is not among the codes.        *)
Answer == [rcode : Rcode \ {"ServFail"}, native : BOOLEAN, ad : BOOLEAN,
           a : SUBSET [addr : IPv4, ttl : Nat]]

NoAnswer == [rcode |-> "none", native |-> FALSE, ad |-> FALSE, a |-> {}]
Pending == [rcode |-> "pending", native |-> FALSE, ad |-> FALSE, a |-> {}]
Unasked == [rcode |-> "unasked", native |-> FALSE, ad |-> FALSE, a |-> {}]

ASSUME HandlerAssumption ==
  /\ Calls = Requests
  /\ IsFiniteSet(Requests)
  /\ Messages \subseteq Message
  /\ MainAnswers \subseteq Answer
  /\ SideAnswers \subseteq Answer
  /\ References \subseteq SUBSET [addr : IPv6, ttl : Nat]
  /\ Detections \subseteq [Providers -> Plan \cup {NoPlan}]
  /\ TheChain \in Chains
  /\ Networks \subseteq Entry
  /\ ParsesAll(Networks)
  /\ LogEnabled \in BOOLEAN

VARIABLES
  message,  \* the message of each request
  pc,       \* where each request is
  main,     \* the lookup of the query itself
  side,     \* the A lookup beside it, on the DNS64 path
  reply,    \* the response, once it is decided
  outcome,  \* the Outcome observed with it
  log,      \* the query log's entries
  metrics   \* the counters of Metrics that handler.rs increments

handlerVars == <<message, pc, main, side, reply, outcome, log, metrics>>
vars == <<handlerVars, chainVars>>

PcValue == {"new", "joining", "forwarding", "synthesizing", "sending", "sent",
            "done"}

Outcome == {"none", "native", "nxdomain", "synthesized", "empty",
            "passthrough", "blocked", "refused", "servfail"}

Reply == [rcode : Rcode, from : {"local", "relay", "synthesis"}, ad : BOOLEAN]

NoReply == [rcode |-> "none", from |-> "nowhere", ad |-> FALSE]

Counter == Rcode \cup {"queries_dns64", "queries_passthrough", "native_aaaa",
                       "nxdomain64", "nodata", "synthesized", "empty",
                       "blocked", "qtypes"}

Init ==
  /\ ChainInit
  /\ message \in [Requests -> Messages]
  /\ pc = [r \in Requests |-> "new"]
  /\ main = [r \in Requests |-> Unasked]
  /\ side = [r \in Requests |-> Unasked]
  /\ reply = [r \in Requests |-> NoReply]
  /\ outcome = [r \in Requests |-> "none"]
  /\ log = {}
  /\ metrics = [n \in Counter |-> 0]

Goto(r, place) == pc' = [pc EXCEPT ![r] = place]

Count(names) ==
  metrics' = [n \in Counter |-> IF n \in names THEN metrics[n] + 1
                                               ELSE metrics[n]]

(* A response is decided and counted; writing it comes next.               *)
Respond(r, response, seen, names) ==
  /\ reply' = [reply EXCEPT ![r] = response]
  /\ outcome' = [outcome EXCEPT ![r] = seen]
  /\ Count(names \cup {response.rcode})
  /\ Goto(r, "sending")

Local(rcode) == [rcode |-> rcode, from |-> "local", ad |-> FALSE]
Relayed(answer) == [rcode |-> answer.rcode, from |-> "relay", ad |-> answer.ad]
Synthesis == [rcode |-> "NoError", from |-> "synthesis", ad |-> FALSE]
-------------------------------------------------------------------------------
(* handle_request, up to its first await.                                  *)
WellFormed(m) == m.standard /\ m.questions = 1

Admits(client) == Allows(Parse(Networks), client)

IsDns64(m) == m.qtype = "AAAA" /\ m.class = "IN" /\ ~m.cd

Reject(r) ==
  /\ pc[r] = "new"
  /\ ~WellFormed(message[r])
  /\ Respond(r, Local(IF message[r].standard THEN "FormErr" ELSE "NotImp"),
             "none", {})
  /\ UNCHANGED <<message, main, side, log, chainVars>>

Refuse(r) ==
  /\ pc[r] = "new"
  /\ WellFormed(message[r])
  /\ ~Admits(message[r].client)
  /\ Respond(r, Local("Refused"), "refused", {"qtypes"})
  /\ UNCHANGED <<message, main, side, log, chainVars>>

(* Mutant: the blocklist decides before the client allowlist does.         *)
BlockAnyone(r) ==
  /\ pc[r] = "new"
  /\ WellFormed(message[r])
  /\ message[r].listed
  /\ Respond(r, Local("NXDomain"), "blocked", {"qtypes", "blocked"})
  /\ UNCHANGED <<message, main, side, log, chainVars>>

Block(r) ==
  /\ pc[r] = "new"
  /\ WellFormed(message[r])
  /\ Admits(message[r].client)
  /\ message[r].listed
  /\ Respond(r, Local("NXDomain"), "blocked", {"qtypes", "blocked"})
  /\ UNCHANGED <<message, main, side, log, chainVars>>

Admitted(r) ==
  /\ WellFormed(message[r])
  /\ Admits(message[r].client)
  /\ ~message[r].listed

(* The AAAA and the A lookup start together.                               *)
BeginDns64(r) ==
  /\ pc[r] = "new"
  /\ Admitted(r)
  /\ IsDns64(message[r])
  /\ main' = [main EXCEPT ![r] = Pending]
  /\ side' = [side EXCEPT ![r] = Pending]
  /\ Count({"qtypes", "queries_dns64"})
  /\ Goto(r, "joining")
  /\ UNCHANGED <<message, reply, outcome, log, chainVars>>

BeginPassthrough(r) ==
  /\ pc[r] = "new"
  /\ Admitted(r)
  /\ ~IsDns64(message[r])
  /\ main' = [main EXCEPT ![r] = Pending]
  /\ Count({"qtypes", "queries_passthrough"})
  /\ Goto(r, "forwarding")
  /\ UNCHANGED <<message, side, reply, outcome, log, chainVars>>
-------------------------------------------------------------------------------
(* tokio::join!: each lookup ends on its own; the request goes on when     *)
(* both have.                                                              *)
MainReturns(r, answer) ==
  /\ main[r] = Pending
  /\ main' = [main EXCEPT ![r] = answer]
  /\ UNCHANGED <<message, pc, side, reply, outcome, log, metrics,
                 chainVars>>

SideReturns(r, answer) ==
  /\ side[r] = Pending
  /\ side' = [side EXCEPT ![r] = answer]
  /\ UNCHANGED <<message, pc, main, reply, outcome, log, metrics,
                 chainVars>>

(* Mutant: as with try_join!, an A lookup that failed is waited for.       *)
JoinedIfBoth(r) ==
  pc[r] = "joining" /\ {Pending, NoAnswer} \cap {main[r], side[r]} = {}

Joined(r) == pc[r] = "joining" /\ Pending \notin {main[r], side[r]}

Relay(r, seen, names) ==
  /\ Respond(r, Relayed(main[r]), seen, names)
  /\ UNCHANGED <<message, main, side, log, chainVars>>

FailDns64(r) ==
  /\ Joined(r)
  /\ main[r] = NoAnswer
  /\ Respond(r, Local("ServFail"), "servfail", {})
  /\ UNCHANGED <<message, main, side, log, chainVars>>

(* Native AAAA records, looked for before the code of the response is.     *)
RelayNative(r) ==
  /\ Joined(r)
  /\ main[r].native
  /\ Relay(r, "native", {"native_aaaa"})

RelayNxdomain(r) ==
  /\ Joined(r)
  /\ ~main[r].native
  /\ main[r].rcode = "NXDomain"
  /\ Relay(r, "nxdomain", {"nxdomain64"})

RelayError(r) ==
  /\ Joined(r)
  /\ main[r] # NoAnswer
  /\ ~main[r].native
  /\ main[r].rcode \notin {"NoError", "NXDomain"}
  /\ Relay(r, "passthrough", {})

(* Mutant: the code of the A lookup is not looked at.                      *)
ARecordsOfAny(r) == side[r].a

(* Only a NoError answer to the A lookup contributes A records.            *)
ARecords(r) == IF side[r].rcode = "NoError" THEN side[r].a ELSE {}

(* Mutant: everything but NXDOMAIN is taken for NODATA.                    *)
SynthesizeOverErrors(r, plans) ==
  /\ Joined(r)
  /\ main[r].rcode # "NXDomain" /\ main[r] # NoAnswer
  /\ ~main[r].native
  /\ Begin(r, [arpa |-> message[r].arpa, a |-> ARecords(r), plans |-> plans,
               chain |-> TheChain])
  /\ Count({"nodata"})
  /\ Goto(r, "synthesizing")
  /\ UNCHANGED <<message, main, side, reply, outcome, log>>

Synthesize(r, plans) ==
  /\ Joined(r)
  /\ main[r].rcode = "NoError"
  /\ ~main[r].native
  /\ Begin(r, [arpa |-> message[r].arpa, a |-> ARecords(r), plans |-> plans,
               chain |-> TheChain])
  /\ Count({"nodata"})
  /\ Goto(r, "synthesizing")
  /\ UNCHANGED <<message, main, side, reply, outcome, log>>

Reference(r) ==
  /\ \E found \in References : Resolve(r, found)
  /\ UNCHANGED handlerVars

RunChain(r) ==
  /\ ChainStep(r)
  /\ UNCHANGED handlerVars

SendSynthesized(r) ==
  /\ pc[r] = "synthesizing"
  /\ stage[r] = "done"
  /\ winner[r] # "none"
  /\ Respond(r, Synthesis, "synthesized", {"synthesized"})
  /\ UNCHANGED <<message, main, side, log, chainVars>>

(* Mutant: the empty answer is not counted.                                *)
RelayEmptyUncounted(r) ==
  /\ pc[r] = "synthesizing"
  /\ stage[r] = "done"
  /\ winner[r] = "none"
  /\ Relay(r, "empty", {})

RelayEmpty(r) ==
  /\ pc[r] = "synthesizing"
  /\ stage[r] = "done"
  /\ winner[r] = "none"
  /\ Relay(r, "empty", {"empty"})

(* Mutant: whatever the pool returned is relayed.                          *)
ForwardedUnchecked(r) ==
  /\ pc[r] = "forwarding"
  /\ main[r] # Pending
  /\ Respond(r, Relayed(main[r]), "passthrough", {})
  /\ UNCHANGED <<message, main, side, log, chainVars>>

(* Passthrough: a failure is answered SERVFAIL, and observed as relayed.   *)
Forwarded(r) ==
  /\ pc[r] = "forwarding"
  /\ main[r] # Pending
  /\ Respond(r, IF main[r] = NoAnswer THEN Local("ServFail")
                                      ELSE Relayed(main[r]),
             "passthrough", {})
  /\ UNCHANGED <<message, main, side, log, chainVars>>
-------------------------------------------------------------------------------
(* send_response with finish: the write may fail, which is logged and goes *)
(* no further, so that both its ends are this one step.                    *)
Send(r) ==
  /\ pc[r] = "sending"
  /\ Goto(r, IF WellFormed(message[r]) THEN "sent" ELSE "done")
  /\ UNCHANGED <<message, main, side, reply, outcome, log, metrics, chainVars>>

(* Mutant: the code of the upstream's answer is logged.                    *)
RecordUpstream(r) ==
  /\ pc[r] = "sent"
  /\ log' = IF LogEnabled
            THEN log \cup {[request |-> r, rcode |-> main[r].rcode,
                            outcome |-> outcome[r]]}
            ELSE log
  /\ Goto(r, "done")
  /\ UNCHANGED <<message, main, side, reply, outcome, metrics, chainVars>>

Record(r) ==
  /\ pc[r] = "sent"
  /\ log' = IF LogEnabled
            THEN log \cup {[request |-> r, rcode |-> reply[r].rcode,
                            outcome |-> outcome[r]]}
            ELSE log
  /\ Goto(r, "done")
  /\ UNCHANGED <<message, main, side, reply, outcome, metrics,
                 chainVars>>

(* What the code of a request does by itself once it is scheduled.         *)
Proceeds(r) ==
  \/ Reject(r) \/ Refuse(r) \/ Block(r) \/ BeginDns64(r) \/ BeginPassthrough(r)
  \/ FailDns64(r) \/ RelayNative(r) \/ RelayNxdomain(r) \/ RelayError(r)
  \/ \E plans \in Detections : Synthesize(r, plans)
  \/ RunChain(r) \/ SendSynthesized(r) \/ RelayEmpty(r) \/ Forwarded(r)
  \/ Send(r) \/ Record(r)

(* What the pool does for it: every resolution ends.                       *)
Lookups(r) ==
  \/ \E answer \in MainAnswers \cup {NoAnswer} : MainReturns(r, answer)
  \/ \E answer \in SideAnswers \cup {NoAnswer} : SideReturns(r, answer)
  \/ Reference(r)

Next == \E r \in Requests : Proceeds(r) \/ Lookups(r)

Spec == Init /\ [][Next]_vars

(* Tasks are scheduled, the pool answers every lookup, and a write to a    *)
(* client's socket ends one way or the other.                              *)
FairSpec ==
  Spec /\ \A r \in Requests : WF_vars(Proceeds(r)) /\ WF_vars(Lookups(r))
-------------------------------------------------------------------------------
(* Every variable stays within the values the code gives it.               *)
TypeOK ==
  /\ ChainTypeOK
  /\ message \in [Requests -> Messages]
  /\ pc \in [Requests -> PcValue]
  /\ main \in [Requests -> MainAnswers \cup {NoAnswer, Pending, Unasked}]
  /\ side \in [Requests -> SideAnswers \cup {NoAnswer, Pending, Unasked}]
  /\ reply \in [Requests -> Reply \cup {NoReply}]
  /\ outcome \in [Requests -> Outcome]
  /\ log \subseteq [request : Requests, rcode : Rcode, outcome : Outcome]
  /\ metrics \in [Counter -> Nat]

Decided(r) == reply[r] # NoReply

(* A request that policy or form turns away costs no lookup, and the       *)
(* client allowlist decides before the blocklist does: a client in none of *)
(* the listed networks cannot tell what the blocklist holds, and no other  *)
(* is turned away as if it were.                                           *)
PolicyBeforeResolution ==
  \A r \in Requests :
    LET mayQuery == Listed(Networks, message[r].client)
    IN /\ ~mayQuery \/ ~WellFormed(message[r]) \/ message[r].listed =>
            main[r] = Unasked /\ side[r] = Unasked /\ stage[r] = "idle"
       /\ Decided(r) /\ WellFormed(message[r]) =>
            (~mayQuery <=> outcome[r] = "refused")
       /\ outcome[r] = "refused" => reply[r] = Local("Refused")

(* RFC 6147 as the code means it: synthesis answers a NoError response     *)
(* without an AAAA record, to an IN query with CD clear, and nothing else. *)
(* An upstream's failure or error is never masked by a good A lookup, and  *)
(* what the upstream said is relayed with its own code and AD bit.         *)
SynthesizesOnlyNodata ==
  \A r \in Requests : Decided(r) /\ Admitted(r) =>
    /\ reply[r].from = "synthesis" =>
         /\ IsDns64(message[r])
         /\ main[r].rcode = "NoError" /\ ~main[r].native
         /\ records[r] # {} /\ ~reply[r].ad
    /\ reply[r].from = "relay" =>
         /\ reply[r].rcode = main[r].rcode /\ reply[r].ad = main[r].ad
         /\ records[r] = {}
    /\ reply[r].from = "local" =>
         main[r] = NoAnswer /\ reply[r].rcode = "ServFail"

(* An address behind the translator is one of the name's A records, as the *)
(* A lookup beside this very AAAA lookup returned it without an error.     *)
EmbedsItsOwnLookup ==
  \A r \in Requests : \A rec \in records[r] :
    rec.addr.via = "nat64" =>
      /\ side[r].rcode = "NoError"
      /\ rec.addr.of \in Addrs(side[r].a)

Number(P(_)) == Cardinality({r \in Requests : P(r)})

(* The counters account for every request, at every moment: one code per   *)
(* decided request, one query kind per admitted one, and every DNS64 query *)
(* in exactly one of its ends or on its way there.                         *)
CountersBalance ==
  LET IsJoining(r) == pc[r] = "joining"
      IsSynthesizing(r) == pc[r] = "synthesizing"
      IsMasked(r) == side[r] # Unasked /\ Decided(r)
                     /\ outcome[r] \in {"servfail", "passthrough"}
      Began(r) == pc[r] # "new" /\ Admitted(r)
  IN /\ \A code \in Rcode :
          LET Got(r) == reply[r].rcode = code
          IN metrics[code] = Number(Got)
     /\ metrics["queries_dns64"] + metrics["queries_passthrough"]
          = Number(Began)
     /\ metrics["queries_dns64"]
          = metrics["native_aaaa"] + metrics["nxdomain64"] + metrics["nodata"]
            + Number(IsMasked) + Number(IsJoining)
     /\ metrics["nodata"]
          = metrics["synthesized"] + metrics["empty"]
            + Number(IsSynthesizing)

(* The query log tells the truth: a well-formed request that has ended has *)
(* one entry, with the code it was answered with, and an outcome that says *)
(* where that answer came from.                                            *)
LogTellsTheTruth ==
  /\ \A r \in Requests :
       pc[r] = "done" /\ WellFormed(message[r]) /\ LogEnabled =>
         \E e \in log : e.request = r
  /\ \A e \in log :
       /\ LogEnabled
       /\ e.rcode = reply[e.request].rcode
       /\ e.outcome \in {"refused", "blocked", "servfail"} =>
            reply[e.request].from = "local"
       /\ e.outcome = "synthesized" <=> reply[e.request].from = "synthesis"
       /\ \A f \in log : e.request = f.request => e = f

(* Every request is answered, and the answer recorded, whichever lookup    *)
(* ends first and however many reference lookups the chain makes.          *)
EveryRequestEnds == \A r \in Requests : <>(pc[r] = "done")
===============================================================================
