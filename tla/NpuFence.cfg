SPECIFICATION FairSpec
CONSTANTS
  w1 = w1  w2 = w2  c1 = c1  c2 = c2  p1 = p1
  Nobody = Nobody  Ipc = Ipc  Retained = Retained
  Workers <- TwoWorkers
  Connections <- TwoConnections
  Pollers <- OnePoller
  Collects <- OneCtypesWorker
INVARIANTS IInv NativeExclusive QuarantineSealed
PROPERTIES ImplementsExclusion CollectionNotStarved MaintenanceEnds
