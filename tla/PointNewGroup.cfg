SPECIFICATION Spec
CONSTANTS
    Group = {keep, made}
    NoGroup = NoGroup
    keep = keep
    made = made
    StrArray = {"s"}
    Str = {"", "new"}
    GroupBits = 1
    PointCount <- MCPointCount
    Coord = {0, 1}
    Origin = 0
    Editable = {made}
    Registries <- MCRegistries
    GridGroups <- MCNoGroups
    GridAttrs <- MCGridAttrs
    TempNames <- MCTempNames
    MaxReturns = 1
    MaxThrows = 2
    MayLeave = FALSE
    MaxEdits = 2
    IndexWidth = 2
INVARIANTS
    IngroupAgrees
