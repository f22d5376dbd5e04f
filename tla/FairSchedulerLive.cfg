SPECIFICATION FairSpec
CONSTANTS
  j1 = j1  j2 = j2  j3 = j3
  appA = appA  appB = appB  c1 = c1  c2 = c2  c3 = c3  k1 = k1  k2 = k2  w1 = w1  w2 = w2
  NoJob = NoJob
  Jobs <- MCJobs
  Apps <- MCApps
  Clients <- MCClients
  Keys <- MCKeys
  Workers <- OneWorker
  AppOf <- MCAppOf
  ClientOf <- MCClientOf
  KeyOf <- SeparateKeyOf
  PriorityOf <- PlatformPriority
  MaxPending = 2
  AgingCap = 100
  AgingRate = 50
  Ttls <- ShortOrFar
  Interval = 1
  Horizon = 1
PROPERTIES EveryJobFinishes CloseDrains
