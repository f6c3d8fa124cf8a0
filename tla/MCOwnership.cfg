SPECIFICATION Spec
CONSTANTS
  Names = {"p", "q"}
  Params <- ParamsValue
  Programs <- ProgramsValue
  MaxObjects = 4
  Zeroed = TRUE
INVARIANTS
  OperandsAreComputed
  UsesReadTheLatestValue
  NothingDestroyedTwice
  NothingLeaks
  FinallyRunsUnlessJumpedOver
