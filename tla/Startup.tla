-------------------------------- MODULE Startup -------------------------------
(***************************************************************************)
(* The start of the server: Config::validate of config.rs and main of      *)
(* main.rs, from the configuration to the sockets it answers on, with the  *)
(* tasks it spawns on the way, the metrics endpoint and the dashboard, and *)
(* the load of module Blocklist, which it awaits.                          *)
(*                                                                         *)
(* Whether an upstream can be dialled and a port be bound is the           *)
(* environment, and stays as it is for the length of a start.              *)
(***************************************************************************)
EXTENDS Blocklist, ClientAcl, Registry, Addresses

CONSTANTS
  Configs,   \* the configurations that parse
  Worlds,    \* the environments
  Translated \* IPv4 addresses that clients will want to reach

(* The fields of Config that the start reads.  Whether lists are given is  *)
(* told here, which ones by Urls.                                          *)
Config == [listenV6 : BOOLEAN, upstreams : Nat, prefix : [1..8 -> Segment],
           networks : SUBSET Entry, ids : Seq(STRING), lists : BOOLEAN,
           metrics : BOOLEAN, ui : BOOLEAN]

Service == {"metrics", "ui"}
Socket == {"udp", "tcp"}

World == [down : SUBSET Nat, taken : SUBSET (Service \cup Socket)]

ASSUME StartupAssumption ==
  /\ Configs \subseteq Config
  /\ Worlds \subseteq World
  /\ Translated \subseteq [1..4 -> Octet]

VARIABLES
  config,    \* the configuration
  world,     \* which upstreams are down, which ports taken
  step,      \* where main is
  connected, \* how many upstreams it has dialled
  service,   \* the metrics endpoint and the dashboard
  queryLog,  \* whether there is a query log
  acl,       \* the client allowlist, once it is parsed
  sockets    \* those bound

startVars == <<config, world, step, connected, service, queryLog, acl,
               sockets>>
vars == <<startVars, loadVars>>

StepValue == {"validating", "building", "connecting", "loading", "binding udp",
              "binding tcp", "serving", "failed"}

Init ==
  /\ LoadInit
  /\ config \in Configs
  /\ world \in Worlds
  /\ step = "validating"
  /\ connected = 0
  /\ service = [s \in Service |-> "off"]
  /\ queryLog = FALSE
  /\ acl = {}
  /\ sockets = {}
-------------------------------------------------------------------------------
(* Config::validate: only /96 prefixes, and none whose addresses the       *)
(* filter of the chain would strip.                                        *)
LowBitsAreZero(prefix) == prefix[7] = 0 /\ prefix[8] = 0

IsValid(c) ==
  /\ c.listenV6
  /\ c.upstreams > 0
  /\ LowBitsAreZero(c.prefix)
  /\ IsGlobalUnicastV6(c.prefix)
  /\ ParsesAll(c.networks)

(* main returns an error: the process ends, with all that it had opened.   *)
Abort ==
  /\ step' = "failed"
  /\ service' = [s \in Service |-> "off"]
  /\ sockets' = {}
  /\ UNCHANGED <<config, world, connected, queryLog, acl, loadVars>>

Spawn(s, wanted) ==
  service' = [service EXCEPT ![s] = IF wanted THEN "starting" ELSE "off"]

Validate ==
  /\ step = "validating"
  /\ IF IsValid(config)
     THEN /\ step' = "building"
          /\ UNCHANGED <<config, world, connected, service, queryLog, acl,
                         sockets, loadVars>>
     ELSE Abort

(* The chain, then the metrics endpoint, then the query log.               *)
Build ==
  /\ step = "building"
  /\ IF Builds(config.ids)
     THEN /\ step' = "connecting"
          /\ Spawn("metrics", config.metrics)
          /\ queryLog' = config.ui
          /\ UNCHANGED <<config, world, connected, acl, sockets, loadVars>>
     ELSE Abort

(* Pool::connect: the upstreams are dialled in turn, every one of them.    *)
Connect ==
  /\ step = "connecting"
  /\ connected < config.upstreams
  /\ IF connected + 1 \in world.down
     THEN Abort
     ELSE /\ connected' = connected + 1
          /\ UNCHANGED <<config, world, step, service, queryLog, acl, sockets,
                         loadVars>>

Connected ==
  /\ step = "connecting"
  /\ connected = config.upstreams
  /\ step' = "loading"
  /\ UNCHANGED <<config, world, connected, service, queryLog, acl, sockets,
                 loadVars>>

Load ==
  /\ step = "loading"
  /\ config.lists
  /\ LoadStep
  /\ UNCHANGED startVars

(* Behind the load, if there was one: the dashboard, then the allowlist.   *)
Prepare ==
  /\ step = "loading"
  /\ config.lists => loaded
  /\ Spawn("ui", config.ui)
  /\ acl' = Parse(config.networks)
  /\ step' = "binding udp"
  /\ UNCHANGED <<config, world, connected, queryLog, sockets, loadVars>>

Bind(socket, here, next) ==
  /\ step = here
  /\ IF socket \in world.taken
     THEN Abort
     ELSE /\ sockets' = sockets \cup {socket}
          /\ step' = next
          /\ UNCHANGED <<config, world, connected, service, queryLog, acl,
                         loadVars>>

Main ==
  \/ Validate \/ Build \/ Connect \/ Connected \/ Load \/ Prepare
  \/ Bind("udp", "binding udp", "binding tcp")
  \/ Bind("tcp", "binding tcp", "serving")

(* metrics::serve and web::serve, tasks of their own: a bind that fails    *)
(* costs the service, and only that.                                       *)
Serve(s) ==
  /\ service[s] = "starting"
  /\ service' = [service EXCEPT
                   ![s] = IF s \in world.taken THEN "disabled" ELSE "up"]
  /\ UNCHANGED <<config, world, step, connected, queryLog, acl, sockets,
                 loadVars>>

Next == Main \/ \E s \in Service : Serve(s)

Spec == Init /\ [][Next]_vars

(* The runtime polls main and the tasks it spawned; a dial, a bind and a   *)
(* list's request end, the last of them by FETCH_TIMEOUT at the latest.    *)
FairSpec == Spec /\ WF_vars(Main) /\ \A s \in Service : WF_vars(Serve(s))
-------------------------------------------------------------------------------
(* Whichever lists fail, at whatever point, the server starts with the     *)
(* rules of all the others and reports every one of them: a failure takes  *)
(* nothing away, and stops nothing that comes after it.                    *)
ServesWithTheRest ==
  step = "serving" /\ config.lists =>
    /\ [i \in DOMAIN sources |-> sources[i].url] = Urls
    /\ \A i \in DOMAIN sources :
         LET delivered == NamesOf(received[i], "block")
         IN /\ delivered \subseteq block
            /\ NamesOf(received[i], "allow") \subseteq allow
            /\ sources[i].status = "failed" => sources[i].blocks = 0
            /\ sources[i].blocks = 0 => delivered = {}

(* From the moment a client can reach it, the server is what its operator  *)
(* configured, or it does not start: the allowlist admits the clients it   *)
(* lists and no others, the lists are through, every upstream has answered *)
(* a dial, queries are kept only for a dashboard, and an address behind    *)
(* the translator is one the chain will serve and that has the prefix.     *)
ServesOnlyAsConfigured ==
  sockets # {} =>
    /\ \A client \in Address :
         Allows(acl, client) <=> Listed(config.networks, client)
    /\ config.lists => loaded
    /\ 1..config.upstreams \cap world.down = {} /\ config.upstreams > 0
    /\ queryLog => config.ui
    /\ \A o \in Translated : IsGlobalUnicastV6(Embed(config.prefix, o))
    /\ Embed(config.prefix, <<0, 0, 0, 0>>) = config.prefix

Startable ==
  /\ IsValid(config)
  /\ Builds(config.ids)
  /\ 1..config.upstreams \cap world.down = {}
  /\ Socket \cap world.taken = {}

(* A start ends, and whether it ends in serving depends on the             *)
(* configuration, the upstreams and the DNS ports alone: a list's server   *)
(* that redirects, stalls or fails can delay it and not prevent it, and    *)
(* neither can the metrics endpoint or the dashboard.                      *)
StartsOrFails == <>(step = IF Startable THEN "serving" ELSE "failed")
===============================================================================
