SPECIFICATION FairSpec
CONSTANTS
  Threads = {t1, t2}
  Handles = {h1}
  None = None
  Contexts = 2
  Keys = {ka, kb, kc}
  gpu0 = gpu0
  gpu1 = gpu1
  ka = ka
  kb = kb
  kc = kc
  MaxStreams = 4
  MaxWorkers = 1
  PerDevice = 1
  Timeout = FALSE
  Abandon = TRUE
  MaxDrains = 2
  DeviceOf <- MCDeviceOf
  StreamsOf <- MCStreamsOf
  WorkersOf <- MCWorkersOf
INVARIANT ScratchNotReused
 
 
