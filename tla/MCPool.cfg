SPECIFICATION FairSpec
CONSTANTS
  Threads = {main, w1, w2}
  Caller = main
  Calls <- MCCalls
  IntMax = 15
  MaxDispatches = 2
  MaxCollections = 2
PROPERTIES
  ServesCall
  DispatchReturns
