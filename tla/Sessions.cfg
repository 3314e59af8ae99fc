SPECIFICATION SessionsSpec
CONSTANTS
  g1 = g1
  g2 = g2
  q = q
  t = t
  u = u
  w1 = w1
  w2 = w2
  w3 = w3
  Callers = {c1, c2}
  Layouts = {q}
  Typeds = {t, u}
  Groups = {g1, g2}
  Members <- MCMembers
  Bytes <- MCBytes
  MaxEntries = 2
  MaxParameterBytes = 2
  Nobody = Nobody
  MaxEdits = 2
  MaxStarts = 6
  Contents = {0, 1}
  NoWeight = NoWeight
  MaxWrites = 4
  MaxGets = 3
  Names = {"p", "r"}
  SizeOf <- MCSizeOf
  MaxPrepared = 3
  MaxSnapshots = 2
  MaxRevisions = 3
  MaxLoads = 2
  Direct = {d}
  Restores = {r}
  Prefetched <- MCPrefetched
  MaxInflight = 1
  Slots = 2
  Programs = {p}
  MaxFailures = 1
  MaxOpCalls = 1
  SourceForms <- MCSourceForms
  IndexForms <- MCIndexForms
  BagForms <- MCBagForms
  TableRows <- MCTableRows
  ScaleExtents = {1, 2}
  MaxTensorChanges = 2
SYMMETRY MCCallers
INVARIANT RequestsSafe
INVARIANT WeightsFresh
INVARIANT RevisionsAccounted
 
 
 
CHECK_DEADLOCK FALSE
