SPECIFICATION Spec
CONSTANTS
    t1 = t1
    t2 = t2
    Threads = {t1, t2}
    NoThread = NoThread
    Bits <- MCBits
    Literals <- MCLiterals
    Scripts <- MCScripts
    Inputs <- MCInputs
INVARIANTS
    TypeOK
    ParsesAsAlone
    NodesOwned
    NodesLocated
    CopyLocated
    FailureIsReported
    StackHolds
    WellFormed
    RunsAsWritten
    DependenciesComplete
    ReprintsSame
PROPERTIES
    ImplementsSharedParser
    ImplementsParserOwnership
