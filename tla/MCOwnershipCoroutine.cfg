SPECIFICATION Spec
CONSTANTS
  Names = {"p", "q"}
  Params <- ParamsValue
  Programs <- ScopeEndedBefore
  MaxObjects = 4
  Zeroed = TRUE
INVARIANT NothingDestroyedTwice
