SPECIFICATION FairSpec
CONSTANTS
  Threads = {t1, t2}
  Handles = {h1}
  None = None
  Contexts = 1
  Keys = {ka}
  gpu0 = gpu0
  gpu1 = gpu1
  ka = ka
  kb = kb
  kc = kc
  MaxStreams = 4
  MaxWorkers = 1
  PerDevice = 1
  Timeout = TRUE
  Abandon = TRUE
  MaxDrains = 0
  DeviceOf <- MCDeviceOf
  StreamsOf <- MCStreamsOf
  WorkersOf <- MCWorkersOf
PROPERTY AbandonedHandleDrains
CHECK_DEADLOCK FALSE
