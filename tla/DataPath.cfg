SPECIFICATION DataSpec
CONSTANTS
  NumQueues = 2
  Cuda = TRUE
  NumChunks = 5
  NumBuffers = 3
  Apis = {"raw", "h2d", "forward", "inverse"}
  Callers = {t1, t2}
  Handles = {h}
  Eager = eager
  Admitted = {0, 1}
  MaxChanges = 1
  MaxRequests = 2
  MaxFaults = 1
  Placers = {p0, p1}
  Families = {"layout", "typed"}
  Contexts = {"idle", "busy"}
  Machines = {"m0", "m1"}
  Forces = {"no", "sym_gpu"}
  Profiles <- MCProfiles
  Capacity = 1
  MaxClears = 1
  MaxCalls = 2
  MaxShifts = 1
INVARIANT OneEffect
INVARIANT CloseDrainsBackend
INVARIANT PlacementJustified
PROPERTY PromiseSpec
PROPERTY EveryCallReturns
 
CHECK_DEADLOCK FALSE
