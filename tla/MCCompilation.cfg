SPECIFICATION Spec
CONSTANTS
    Module = {"a", "b", "c"}
    Name = {"a", "b", "c", "native"}
    Sources <- SourcesValue
    Programs <- ProgramsValue
    FunInstance = {"f", "g", "h"}
    StructInstance = {"s"}
    Abstract = {"h"}
INVARIANTS
    SortedOrCyclic
    OnePlaceEach
    LentInstancesAreBuilt
PROPERTY
    AnalysisEnds
CHECK_DEADLOCK FALSE
