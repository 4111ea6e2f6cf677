SPECIFICATION Spec
CONSTANTS
    t1 = t1
    t2 = t2
    Threads = {t1, t2}
    NoThread = NoThread
    Bits <- MCBits
    Literals <- MCLiterals
    Scripts <- CastScripts
    Inputs <- MCInputs
INVARIANTS
    StackHolds
