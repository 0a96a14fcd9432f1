SPECIFICATION CdnSpec
CONSTANTS
  Calls = {c1}
  Contexts <- AllContexts
  References <- AllReferences
  Buckets <- AllBuckets
  Regions <- AllRegions
  Configs <- AllConfigs
  Providers <- MakeIds
  NoCap = NoCap
  DefaultTtl = 4
  IPv4 <- AllIPv4
  Routable <- AllRoutable
  IPv6 <- AllIPv6
  Global <- AllGlobal
INVARIANTS
  FirstThatYields
  SpecificBeforeGeneric
  TranslatorOnlyAsConfigured
  
  
  RewritesSettle
  EmbedsOnlyItsOwnRange
CHECK_DEADLOCK FALSE
