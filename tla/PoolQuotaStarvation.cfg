SPECIFICATION FairSpec
CONSTANTS
  Threads = {t1}
  Handles = {h1}
  None = None
  Contexts = 2
  Keys = {ka, kb}
  gpu0 = gpu0
  gpu1 = gpu1
  ka = ka
  kb = kb
  kc = kc
  MaxStreams = 3
  MaxWorkers = 1
  PerDevice = 1
  Timeout = FALSE
  Abandon = TRUE
  MaxDrains = 0
  DeviceOf <- MCDeviceOf
  StreamsOf <- MCStreamsOf
  WorkersOf <- MCWorkersOf
PROPERTY AdmissionEnds
