SPECIFICATION ResourcesSpec
CONSTANTS
  Threads = {t1, t2}
  Slots = {s1, s2}
  None = None
  Devices = {gpu, host}
  Keys = {ka, kb}
  gpu = gpu
  host = host
  ka = ka
  kb = kb
  Capacities = {1, 2}
  MaxContexts = 2
  MaxContextsPerDevice = 1
  MaxBackgroundWorkers = 1
  MaxRetainedBytes = 4
  MaxLiveStagingBytes = 5
  AcquireTimeout = FALSE
  MaxGeneration = 1
  DeviceOf <- MCDeviceOf
  SlotsOf <- MCSlotsOf
  WorkersOf <- MCWorkersOf
  Drivers = {d1, d2}
  NoDriver = NoDriver
  PoolThreads = 3
  MaxRows = 4
  MaxFloor = 0
  MaxCalls = 3
INVARIANT GathersSafe
PROPERTY WaitersEnd
CHECK_DEADLOCK FALSE
