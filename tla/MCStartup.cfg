SPECIFICATION FairSpec
CONSTANTS
  Labels = {"com", "net", "co", "example", "myexample", "ads", "eu", "www",
            "localhost", "localdomain"}
  Urls <- Three
  ListAt <- TheLists
  Fragments <- CutLines
  Queries <- AllQueries
  MaxRedirects = 3
  Width = 3
  Providers = {"shopify", "cloudflare"}
  Configs <- AllConfigs
  Worlds <- AllWorlds
  Translated <- SomeAddresses
INVARIANTS
  BlocksAsListed
  ServesWithTheRest
  ServesOnlyAsConfigured
PROPERTIES
  StartsOrFails
CHECK_DEADLOCK FALSE
