SPECIFICATION Spec
CONSTANTS
    Voxel = {1, 2, 3}
    Val = {0, 1}
    Background = 0
    Levels = {0, 1, 2}
    Kernels <- MCKernels
    GridLists <- MCGridLists
    MaxExecutes = 1
INVARIANTS
    TypeOK
    ReadGridsLineUp
    ReadsOriginal
PROPERTIES
    ImplementsVolumeKernels
    Termination
