SPECIFICATION Spec
CONSTANTS
  Threads = {t1, t2, t3}
  Slots = {s1, s2}
  None = None
  Devices = {gpu, host}
  Keys = {ka, kb}
  gpu = gpu
  host = host
  ka = ka
  kb = kb
  Capacities = {1, 2}
  MaxContexts = 2
  MaxContextsPerDevice = 2
  MaxBackgroundWorkers = 1
  MaxRetainedBytes = 3
  MaxLiveStagingBytes = 5
  AcquireTimeout = TRUE
  MaxGeneration = 2
  DeviceOf <- MCSameDevice
  SlotsOf <- MCSlotsOf
  WorkersOf <- MCWorkersOf
INVARIANT TypeOK
INVARIANT ExclusiveLease
INVARIANT ContextsAccounted
PROPERTY QuarantineDisablesDevice
PROPERTY BudgetSpec
SYMMETRY Symmetry
