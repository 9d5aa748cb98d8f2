SPECIFICATION FairSpec
CONSTANTS
  PoolSize = 2
  GroupMax = 3
  Calls <- MCCalls
INVARIANTS
  Lockstep
  LiveAccounting
PROPERTIES
  KeepsPromise
  DispatchReturns
