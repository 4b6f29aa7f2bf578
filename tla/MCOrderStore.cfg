\* Two connections, every hazard action; calls are executed and locks granted in turn.
SPECIFICATION FairSpec
CONSTANTS
  j1 = j1  j2 = j2  j3 = j3  k1 = k1  k2 = k2  jX = jX  s1 = s1  s2 = s2
  Jobs <- MCJobs
  Products <- MCProducts
  JobUser <- MCJobUser
  JobProduct <- MCJobProduct
  InitialStock <- MCStock
  MaxBatch = 3
  Sessions = {s1, s2}
  Batches <- MCBatches
  SeedOrder <- MCSeedOrder
  SeedFlags <- OnAndOff
INVARIANTS
  TypeOK
  StockConserved
  OnePurchasePerPair
  VerdictsMatchOrders
  RejectionsAreJustified
  RepliesAreDurable
  SalesAreAnnounced
  NoWaitCycle
PROPERTIES
  ResultsAreFinal
  SalesOnlyWhileActive
  ImplementsFlashSale
  EveryCallReturns
