SPECIFICATION StorageSpec
CONSTANTS
  t1 = t1
  t2 = t2
  u1 = u1
  p = p
  q = q
  ra = ra
  rb = rb
  Threads = {t1, t2, u1}
  Procs = {p, q}
  ProcOf <- MCProcOf
  StoreChoices = {{p, q}, {}}
  Recipes = {ra, rb}
  Size <- MCSize
  Unsupported <- MCUnsupported
  Capacity = 1
  MaxBytes = 2
  MaxEntries = 1
  None = None
  MaxVersion = 2
  MaxCalls = 3
  MaxFaults = 1
  i1 = i1
  i2 = i2
  Installers = {i1, i2}
  Manifests <- MCManifests
  Variants = {"cpu", "cu126"}
  NoLink = NoLink
  UserFile = UserFile
  Nobody = Nobody
  MaxEnvironments = 3
INVARIANT SingleFlight
INVARIANT FreshResult
INVARIANT StoreSound
 
PROPERTY CallsEnd
CHECK_DEADLOCK FALSE
