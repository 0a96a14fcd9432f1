SPECIFICATION FairSpec
CONSTANTS
  Requests = {r1, r2}
  Calls = {r1, r2}
  Messages <- AllMessages
  MainAnswers <- AllMainAnswers
  SideAnswers <- AllSideAnswers
  References <- AllReferences
  Detections <- AllDetections
  LogEnabled = TRUE
  Networks <- OneNetwork
  Width = 3
  TheChain <- ProviderThenNat64
  Configs <- OneConfig
  Providers = {"fastly"}
  NoCap = NoCap
  DefaultTtl = 2
  IPv4 = {"public", "private"}
  Routable = {"public"}
  IPv6 = {"global", "ula"}
  Global = {"global"}
INVARIANTS
  TypeOK
  PolicyBeforeResolution
  SynthesizesOnlyNodata
  EmbedsItsOwnLookup
  CountersBalance
  LogTellsTheTruth
PROPERTIES
  EveryRequestEnds
CHECK_DEADLOCK FALSE
