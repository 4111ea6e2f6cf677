SPECIFICATION Spec
CONSTANTS
    Group = {keep, made}
    NoGroup = NoGroup
    keep = keep
    made = made
    StrArray = {"s"}
    Str = {"", "new"}
    GroupBits = 1
    PointCount <- MCPointCount
    Coord = {0, 1}
    Origin = 0
    Editable = {keep}
    Registries <- MCRegistries
    GridGroups <- MCGridGroups
    GridAttrs <- MCGridAttrs
    TempNames <- MCTempNames
    MaxReturns = 1
    MaxThrows = 2
    MayLeave = TRUE
    MaxEdits = 2
    IndexWidth = 2
PROPERTIES
    MoveKeepsPositions
