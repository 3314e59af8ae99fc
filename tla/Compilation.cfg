SPECIFICATION CompilationSpec
CONSTANTS
  Rank = 3
  kMinChunkBytes = 2
  kMaxChunkBytes = 6
  kChunksPerBuffer = 2
  Plans <- MCPlans
  MaxInt = 127
  Requests <- MCRequests
  BindTasks <- MCBindTasks
  Artifacts <- MCArtifacts
  Regions <- MCRegions
  Kinds = {"view", "clone", "move", "cast", "deq", "write", "call", "same", "size"}
  MaxNodes = 5
  Calls <- MCCalls
  Transfers <- MCTransfers
  CurrentDevice = 0
  Measurements <- MCMeasurements
  Predicted <- MCPredicted
  Evaluations <- MCAllEvaluations
  Programs <- MCPrograms
  HistoryLimit = 2
  Captures <- MCCaptures
  LiveExtents = {1, 2, 3}
  Forgeries = {"none", "symbols", "shape", "index"}
INVARIANT RowsTiled
INVARIANT PlansExact
INVARIANT AdmittedMeansAsked
INVARIANT ImportKeepsMeaning
 
 
 
CHECK_DEADLOCK FALSE
