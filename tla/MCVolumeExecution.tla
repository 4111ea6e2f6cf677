-------------------------- MODULE MCVolumeExecution -------------------------
\* Every kernel over two grids of two values, on lists that hold both grids,
\* one of them, or one of them under another type.
EXTENDS VolumeExecution

Inputs == [1 .. 2 -> Val]
Keeps(i) == [x \in Inputs |-> x[i]]
Depends(f, j) == \E x, y \in Inputs : f[x] # f[y] /\ \A m \in (1 .. 2) \ {j} : x[m] = y[m]

MCKernel(wa, wb, fa, fb, all) ==
    [accesses |-> << [name |-> "a", type |-> "float", writes |-> wa],
                     [name |-> "b", type |-> "float", writes |-> wb] >>,
     compute  |-> <<fa, fb>>,
     deps     |-> IF all THEN <<{1, 2}, {1, 2}>>
                  ELSE <<{j \in 1 .. 2 : wa /\ Depends(fa, j)}, {j \in 1 .. 2 : wb /\ Depends(fb, j)}>>]

\* The n-th function of two values, n < 16, by its table of values.
F(n) == [x \in Inputs |-> (n \div 2^(2 * x[1] + x[2])) % 2]

\* Both grids written, by every pair of functions; the second only, by every
\* function; a swap all of whose dependencies are assumed; one grid only.
MCKernels ==
    {MCKernel(TRUE, TRUE, F(m), F(n), FALSE) : m, n \in 0 .. 15} \cup
    {MCKernel(FALSE, TRUE, Keeps(1), F(n), FALSE) : n \in 0 .. 15} \cup
    {MCKernel(TRUE, TRUE, Keeps(2), Keeps(1), TRUE)} \cup
    {[accesses |-> <<[name |-> "a", type |-> "float", writes |-> wa]>>,
      compute |-> <<[x \in [1 .. 1 -> Val] |-> IF wa THEN 1 - x[1] ELSE x[1]]>>,
      deps |-> <<IF wa THEN {1} ELSE {}>>] : wa \in BOOLEAN}

Fine == [v \in Voxel |-> v]
Coarse == [v \in Voxel |-> IF v = 2 THEN 1 ELSE v]

\* A grid without tiles, and one with a tile of a level over the first two voxels.
MCGrid(name, type, map, leaf, active, ones) ==
    [name |-> name, type |-> type, map |-> map, active |-> active,
     level |-> [v \in Voxel |-> IF v \in leaf THEN 0 ELSE -1],
     origin |-> Fine,
     value |-> [v \in Voxel |-> IF v \in ones THEN 1 ELSE 0]]

Tiled(grid, level) ==
    [grid EXCEPT !.level = [v \in Voxel |-> IF v \in {1, 2} THEN level ELSE @[v]],
                 !.origin = Coarse]

MCGridLists == {
    << MCGrid("b", "float", Coarse, {1, 3}, {1}, {3}), MCGrid("a", "float", Fine, {1, 2}, {2}, {2}) >>,
    << MCGrid("a", "float", Fine, {1, 2}, {1, 2}, {1}), MCGrid("b", "int", Fine, {1}, {1}, {}) >>,
    << MCGrid("b", "float", Fine, {1, 2}, {1}, {2}) >>,
    << Tiled(MCGrid("a", "float", Fine, {3}, {1}, {1}), 1),
       MCGrid("b", "float", Fine, {1, 2, 3}, {2, 3}, {2}) >>,
    << Tiled(MCGrid("b", "float", Fine, {3}, {1, 3}, {3}), 1),
       Tiled(MCGrid("a", "float", Fine, {}, {}, {1}), 2) >> }
=============================================================================
