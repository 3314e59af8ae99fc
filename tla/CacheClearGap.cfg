SPECIFICATION Spec
CONSTANTS
  Threads = {t1, t2, t3}
  Slots = {s1, s2}
  None = None
  Devices = {gpu, host}
  Keys = {ka, kb}
  gpu = gpu
  host = host
  ka = ka
  kb = kb
  Capacities = {1, 2}
  MaxContexts = 2
  MaxContextsPerDevice = 2
  MaxBackgroundWorkers = 1
  MaxRetainedBytes = 4
  MaxLiveStagingBytes = 5
  AcquireTimeout = FALSE
  MaxGeneration = 1
  DeviceOf <- MCDeviceOf
  SlotsOf <- MCSlotsOf
  WorkersOf <- MCWorkersOf
INVARIANT ClearEvictsEveryIdleContext
SYMMETRY Symmetry
