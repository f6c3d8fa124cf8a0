SPECIFICATION FairSpec
CONSTANTS
    None = None
    Word = Word
    Programs <- Sound
    Obj <- Objects
    RegisterFile = 40
    LocalStack = 8
    MaxDepth = 7
    Zeroed = FALSE
    Cleared = {"Unhandled exception"}
    MaxCalls = 2
INVARIANTS
    StacksInOrder
    DestroysLiveObjects
    RecordsFindTheirValue
    BorrowedStayAlive
    ExceptionSurvives
    NothingIsLeft
PROPERTIES
    UnwindingEnds
