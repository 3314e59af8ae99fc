SPECIFICATION Spec
CONSTANTS
  Threads = {t1, t2, t3}
  Handles = {h1}
  None = None
  Contexts = 2
  Keys = {ka, kb, kc}
  gpu0 = gpu0
  gpu1 = gpu1
  ka = ka
  kb = kb
  kc = kc
  MaxStreams = 3
  MaxWorkers = 1
  PerDevice = 1
  Timeout = TRUE
  Abandon = FALSE
  MaxDrains = 2
  DeviceOf <- MCDeviceOf
  StreamsOf <- MCStreamsOf
  WorkersOf <- MCWorkersOf
INVARIANT LeaseEndsOnce
INVARIANT PoolAccounted
SYMMETRY Symmetry
