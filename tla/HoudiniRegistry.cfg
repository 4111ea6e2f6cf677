SPECIFICATION Spec
CONSTANTS
    path = path
    var = var
    one = one
    two = two
    Name = {path, var}
    Snippets <- MCSnippets
    Params <- MCParams
    Sessions <- MCSessions
    Val = {zero, one, two}
    Zero = zero
    NotFound = NotFound
    Mismatch = Mismatch
    NoExecutable = NoExecutable
INVARIANTS
    RegistryFollowsFlag
