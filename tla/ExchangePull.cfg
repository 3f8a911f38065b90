SPECIFICATION Spec
CONSTANTS
    Callers = {1, 2}
    Server = 3
    Sites <- MCSites
    Versions = {0, 2, 3}
    ChangeLists <- MCChangeLists
INVARIANTS TypeOK HandledAsAsked MergedAsAnswered Understood
PROPERTY ImplementsCall
CHECK_DEADLOCK FALSE
