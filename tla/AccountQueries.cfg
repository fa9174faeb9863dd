SPECIFICATION MCSpec
CONSTANTS
  a1 = a1
  a2 = a2
  a3 = a3
  Accounts = {a1}
  Owners = {a1, a2}
  Calls = {c1, c2}
  MaxAge = 1
  MaxTime = 2
  MaxData = 2
  Lookups = {l1, l2}
  Settings <- MCSettings
  Aliases <- MCAliases
  TTL = 1
  MaxEntries = 1
  Pool = {a1, a2, a3}
  Offers <- MCOffers
  Strategies = {"round-robin", "preferred", "host"}
  Preferred = a2
  NoAccount = NoAccount
  MaxRecentSamples = 2
  MaxRequests = 3
INVARIANT QueryTypeOK
INVARIANT OwnCatalogue
INVARIANT RepliesAdvance
INVARIANT NoneRepeatedInRound
INVARIANT TrafficAccounted
