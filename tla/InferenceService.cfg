SPECIFICATION Spec
CONSTANTS
  c1 = c1  c2 = c2  closer = closer  w1 = w1  w2 = w2  k1 = k1  k2 = k2
  h1 = h1  h2 = h2  x1 = x1  x2 = x2  j1 = j1  j2 = j2  None = None
  Clients <- TwoClients
  Closer = closer
  Workers <- OneWorker
  Keys <- OneKey
  Handles <- TwoHandles
  Channels <- OneChannel
  Jobs <- TwoJobs
  InstanceOf <- SameInstance
  Mem <- ModelMem
  IoMem <- ChannelMem
  Budget = 3
  Limit = 4
  Failures = {}
INVARIANTS TypeOK BudgetRespected AdmissionDecides NothingLeaks ChannelOneJob
SYMMETRY Symmetry
CHECK_DEADLOCK FALSE
