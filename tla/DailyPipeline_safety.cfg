SPECIFICATION Spec
CONSTANTS
  Steps <- TheSteps
  Files <- TheFiles
  Stages <- TheStages
  Outputs <- TheOutputs
  Inputs <- TheInputs
  Resumable <- TheResumable
  Reads <- TheReads
  Writes <- TheWrites
  Optional = {"rag"}
  Demo = {"quotes", "news", "proxies"}
  Mock = "chain"
  Status = "status"
  Sources = {"portfolio", "strategy"}
  Requests <- TheRequests
  Unwatched <- TheUnwatched
  MaxRuns = 3
  MaxTouches = 1
  MaxFaults = 1
  None = None
INVARIANTS LiveAdviceIsLive FinishedIsFresh
CHECK_DEADLOCK FALSE
