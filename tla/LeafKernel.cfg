SPECIFICATION Spec
CONSTANTS
    Group = {g1, g2, g3}
    StrArray = {name}
    Str = {old, older, new}
    Known = {old, older}
    GroupBits = 2
    PointCount = 2
INVARIANTS
    TypeOK
    NoAliasing
    PendingIsNew
    IndInv
    CopyIsExact
PROPERTIES
    ImplementsLeafEdits
    EachEditKept
