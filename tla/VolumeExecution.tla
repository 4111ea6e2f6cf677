--------------------------- MODULE VolumeExecution --------------------------
(***************************************************************************)
(* VolumeExecutable::execute (compiler/VolumeExecutable.cc) on a list of   *)
(* grids and on a single grid: registerVolumes picks, creates and copies   *)
(* grids, then the kernel runs over the iterated voxels, or the tiles of a *)
(* level, of each writeable grid, one grid after the other, the voxels of  *)
(* a grid in any order (in parallel or not).                               *)
(*                                                                         *)
(* The kernel is a record as in VolumeKernels; deps gives for each access  *)
(* the accesses its value depends on, as AttributeRegistry::create found   *)
(* them.  That they contain every access the computed value does depend on *)
(* is assumed here (DepsAssumption).                                       *)
(***************************************************************************)
EXTENDS Integers, FiniteSetsExt, Sequences

CONSTANTS Voxel,          \* positions and voxels: a voxel's position is itself
          Val, Background,
          Levels,         \* of the nodes whose values a kernel may run over, 0 the leaf
          Kernels,        \* the kernels tried
          GridLists,      \* the lists of grids tried
          MaxExecutes     \* bound: executions in a behaviour

VARIABLES kernel,                   \* the executable: registry and function,
          iterator, createMissing, treeExecutionLevel,  \*   and its settings
          grids,                    \* the caller's list of grids
          phase, next,              \* the pass of execute() and the next access
          readGrids, writeableGrids,
          visited,                  \* the voxels of the current grid that are done
          executes,                 \* executions begun
          before                    \* history: the grids when the kernel began

executable == <<kernel, iterator, createMissing, treeExecutionLevel>>
vars == <<executable, grids, phase, next, readGrids, writeableGrids, visited, executes, before>>

Access == DOMAIN kernel.accesses

\* The accesses the final value of access i really depends on.
DependsOn(k, i, j) ==
    \E x, y \in DOMAIN k.compute[i] :
        /\ \A m \in DOMAIN x \ {j} : x[m] = y[m]
        /\ k.compute[i][x] # k.compute[i][y]

ASSUME DepsAssumption ==
    \A k \in Kernels : \A i, j \in DOMAIN k.accesses :
        k.accesses[i].writes /\ DependsOn(k, i, j) => j \in k.deps[i]
GridType ==
    [name : STRING, type : STRING, map : [Voxel -> Voxel], value : [Voxel -> Val],
     level : [Voxel -> Levels \cup {-1}], origin : [Voxel -> Voxel], active : SUBSET Voxel]

\* A registry has one access of a name and type; a transform takes a voxel, or
\* the origin of a tile, to a position and back.
AccessType == [name : STRING, type : STRING, writes : BOOLEAN]
ASSUME KernelAssumption ==
    \A k \in Kernels :
        /\ k.accesses \in Seq(AccessType)
        /\ \A i, j \in DOMAIN k.accesses :
              k.accesses[i].name = k.accesses[j].name /\ k.accesses[i].type = k.accesses[j].type => i = j
        /\ k.compute \in [DOMAIN k.accesses -> [[DOMAIN k.accesses -> Val] -> Val]]
ASSUME GridAssumption ==
    \A list \in GridLists :
        /\ list \in Seq(GridType)
        /\ \A g \in DOMAIN list, v \in Voxel : list[g].level[v] \in Levels => list[g].map[v] = v
ASSUME ParameterAssumption ==
    Background \in Val /\ 0 \in Levels /\ Levels \subseteq Nat /\ MaxExecutes \in Nat

\* Fault: only the accesses registered earlier are asked.
affectsearlier(i) == \E j \in Access : j < i /\ i \in kernel.deps[j]

\* AccessData::affectsothers: some other access depends on this one.
affectsothers(i) == \E j \in Access \ {i} : i \in kernel.deps[j]

Init ==
    /\ kernel \in Kernels
    /\ iterator = "ON" /\ createMissing = TRUE /\ treeExecutionLevel = 0
    /\ grids \in GridLists
    /\ phase = "idle" /\ next = 1 /\ readGrids = <<>> /\ writeableGrids = <<>>
    /\ visited = {} /\ executes = 0 /\ before = <<>>

MoreCalls == phase = "idle" /\ executes < MaxExecutes

\* setValueIterator, setCreateMissing and setTreeExecutionLevel, whose argument is a
\* level of the tree: it throws on any other.
Configure ==
    /\ MoreCalls
    /\ iterator' \in {"ON", "OFF", "ALL"}
    /\ createMissing' \in BOOLEAN
    /\ treeExecutionLevel' \in Levels
    /\ UNCHANGED <<kernel, grids, phase, next, readGrids, writeableGrids, visited,
                   executes, before>>

Execute ==
    /\ MoreCalls
    /\ phase' = "register"
    /\ executes' = executes + 1
    /\ UNCHANGED <<executable, grids, next, readGrids, writeableGrids, visited, before>>

Leave ==
    /\ phase' = "idle" /\ next' = 1 /\ readGrids' = <<>> /\ writeableGrids' = <<>>
    /\ visited' = {} /\ before' = <<>>
    /\ UNCHANGED <<executable, grids>>

-----------------------------------------------------------------------------
(* registerVolumes, one access at a time.                                  *)

SameName(i) == {g \in DOMAIN grids : grids[g].name = kernel.accesses[i].name}
\* Fault: a grid of another type matches.
MatchesName(i) == SameName(i)

Matches(i) == {g \in SameName(i) : grids[g].type = kernel.accesses[i].type}

\* A new grid has the default transform and no node.
NewGrid(i) ==
    [name |-> kernel.accesses[i].name, type |-> kernel.accesses[i].type,
     map |-> [v \in Voxel |-> v], value |-> [v \in Voxel |-> Background],
     level |-> [v \in Voxel |-> -1], origin |-> [v \in Voxel |-> v], active |-> {}]

\* An access is read from the grid it matched, or from a deep copy of it if it
\* is written and another access depends on it.
Alias(g) == [grid |-> g, copy |-> <<>>]
Copy(g, grid) == [grid |-> g, copy |-> <<grid>>]

Register(i, g, grid) ==
    /\ next' = next + 1
    /\ readGrids' = Append(readGrids,
            IF kernel.accesses[i].writes /\ affectsothers(i) THEN Copy(g, grid) ELSE Alias(g))
    /\ writeableGrids' = IF kernel.accesses[i].writes THEN Append(writeableGrids, g) ELSE writeableGrids
    /\ UNCHANGED <<executable, phase, visited, executes, before>>

\* Fault: a created grid is not added to the list.
RegisterUnlisted ==
    /\ phase = "register" /\ next <= Len(kernel.accesses)
    /\ \/ /\ Matches(next) # {}
          /\ Register(next, Min(Matches(next)), grids[Min(Matches(next))])
          /\ UNCHANGED grids
       \/ /\ Matches(next) = {} /\ createMissing
          /\ Register(next, Len(grids) + 1, NewGrid(next))
          /\ UNCHANGED grids

RegisterVolume ==
    /\ phase = "register" /\ next <= Len(kernel.accesses)
    /\ \/ /\ Matches(next) # {}
          /\ Register(next, Min(Matches(next)), grids[Min(Matches(next))])
          /\ UNCHANGED grids
       \/ /\ Matches(next) = {} /\ createMissing
          /\ grids' = Append(grids, NewGrid(next))
          /\ Register(next, Len(grids) + 1, NewGrid(next))
       \/ /\ Matches(next) = {} /\ ~ createMissing     \* missing, or of another type
          /\ Leave /\ UNCHANGED executes

\* The address of the kernel is looked up once the grids are registered; it is
\* always there, for Compiler::compile throws when a function has no address.
BeginRun ==
    /\ phase = "register" /\ next = Len(kernel.accesses) + 1
    /\ phase' = "run" /\ next' = 1 /\ before' = grids
    /\ UNCHANGED <<executable, grids, readGrids, writeableGrids, visited, executes>>

\* execute(GridBase&): every access must name that one grid, which is read and
\* written in place; nothing is created or copied.
ExecuteSingle(g) ==
    /\ MoreCalls
    /\ executes' = executes + 1
    /\ LET fits == \A i \in Access : g \in Matches(i) IN
        \/ ~ (fits /\ Access # {}) /\ Leave
        \/ /\ fits /\ Access # {}
           /\ phase' = "run" /\ next' = 1 /\ before' = grids
           /\ readGrids' = <<Alias(g)>> /\ writeableGrids' = <<g>>
           /\ UNCHANGED <<executable, grids, visited>>

-----------------------------------------------------------------------------
(* run: the kernel over the writeable grids.                               *)

CurrentGrid == writeableGrids[next]

\* The values held by nodes of the level: voxels, or the tiles of a node.  A tile is
\* visited once, at its origin.
Held(grid) ==
    {v \in Voxel : grid.level[v] = treeExecutionLevel /\ grid.origin[v] = v}

IterVoxels(grid) ==
    CASE iterator = "ON"  -> Held(grid) \cap grid.active
      [] iterator = "OFF" -> Held(grid) \ grid.active
      [] iterator = "ALL" -> Held(grid)

\* getvoxel: the value of the read grid at the world position of the voxel.
getvoxel(i, pos) ==
    LET read == readGrids[i]
        grid == IF read.copy = <<>> THEN grids[read.grid] ELSE read.copy[1]
    IN  grid.value[grid.origin[grid.map[pos]]]

\* Fault: the value of a voxel is set whatever holds it, a tile becomes a leaf.
setvoxelonly(grid, v, val) == [grid EXCEPT !.value[v] = val, !.level[v] = 0]

\* setvoxel: the value of the voxel or of the tile that holds it, which stays what it is.
setvoxel(grid, v, val) == [grid EXCEPT !.value[grid.origin[v]] = val]

\* The access whose registered index is the write_index of the current grid.
WriteIndex ==
    CHOOSE i \in Access : grids[CurrentGrid].name = kernel.accesses[i].name
                       /\ grids[CurrentGrid].type = kernel.accesses[i].type

\* The kernel at one voxel: all accesses are read, and the one of the current
\* grid is set, if it is written at all.
RunVoxel(v) ==
    /\ phase = "run" /\ next <= Len(writeableGrids)
    /\ v \in IterVoxels(grids[CurrentGrid]) \ visited
    /\ visited' = visited \cup {v}
    /\ LET i == WriteIndex
           loaded == [j \in Access |-> getvoxel(j, v)]
       IN  grids' = IF kernel.accesses[i].writes
                    THEN [grids EXCEPT ![CurrentGrid] = setvoxel(@, v, kernel.compute[i][loaded])]
                    ELSE grids
    /\ UNCHANGED <<executable, phase, next, readGrids, writeableGrids, executes, before>>

NextGrid ==
    /\ phase = "run" /\ next <= Len(writeableGrids)
    /\ IterVoxels(grids[CurrentGrid]) \subseteq visited
    /\ next' = next + 1 /\ visited' = {}
    /\ UNCHANGED <<executable, grids, phase, readGrids, writeableGrids, executes, before>>

\* Fault: the last grid ends the run, and there may be none.
FinishAtLast ==
    /\ phase = "run" /\ next = Len(writeableGrids)
    /\ Leave
    /\ UNCHANGED executes

Finish ==
    /\ phase = "run" /\ next = Len(writeableGrids) + 1
    /\ Leave
    /\ UNCHANGED executes

\* The bound is reached: the caller makes no further call.
Rest == phase = "idle" /\ ~ MoreCalls /\ UNCHANGED vars

Step ==
    \/ RegisterVolume \/ BeginRun \/ NextGrid \/ Finish
    \/ \E v \in Voxel : RunVoxel(v)

Next == Configure \/ Execute \/ (\E g \in DOMAIN grids : ExecuteSingle(g)) \/ Step \/ Rest

\* The calling thread and the pool's threads keep running.
Spec == Init /\ [][Next]_vars /\ WF_vars(Step)

-----------------------------------------------------------------------------
(* Properties.                                                             *)

TypeOK ==
    /\ iterator \in {"ON", "OFF", "ALL"} /\ createMissing \in BOOLEAN
    /\ treeExecutionLevel \in Levels
    /\ grids \in Seq(GridType) /\ before \in Seq(GridType)
    /\ phase \in {"idle", "register", "run"}
    /\ next \in 1 .. Len(kernel.accesses) + 1
    /\ \A i \in DOMAIN readGrids : readGrids[i].grid \in DOMAIN grids /\ readGrids[i].copy \in Seq(GridType)
    /\ \A i \in DOMAIN writeableGrids : writeableGrids[i] \in DOMAIN grids
    /\ visited \subseteq Voxel /\ executes \in 0 .. MaxExecutes

\* The read grids line up with the registry: the kernel reads the i-th access
\* from the i-th grid, so when it runs each must hold that access.
ReadGridsLineUp ==
    phase = "run" =>
        /\ Len(readGrids) = Len(kernel.accesses)
        /\ \A i \in Access : LET grid == grids[readGrids[i].grid] IN
            grid.name = kernel.accesses[i].name /\ grid.type = kernel.accesses[i].type

\* No voxel is computed from a value this execution has already changed, other
\* than its own.
ReadsOriginal ==
    phase = "run" /\ next <= Len(writeableGrids) =>
        \A v \in IterVoxels(grids[CurrentGrid]) \ visited, j \in Access :
            j \in kernel.deps[WriteIndex] =>
                LET grid == before[readGrids[j].grid] IN
                    getvoxel(j, v) = grid.value[grid.origin[grid.map[v]]]

Remaining ==
    IF phase # "run" THEN {}
    ELSE UNION {{writeableGrids[k]} \X
                (IterVoxels(grids[writeableGrids[k]]) \ IF k = next THEN visited ELSE {}) :
                    k \in {k \in next .. Len(writeableGrids) :
                        \E i \in Access : /\ kernel.accesses[i].writes
                                          /\ readGrids[i].grid = writeableGrids[k]}}

Promise == INSTANCE VolumeKernels WITH
    kernel <- kernel, iterator <- iterator, level <- treeExecutionLevel, grids <- grids,
    before <- before, todo <- Remaining

\* Grid by grid and voxel by voxel, or tile by tile, with copies only where the registry asks
\* for them, the result is that of computing everything from the old values.
ImplementsVolumeKernels == Promise!Spec

Termination == phase # "idle" ~> phase = "idle"
=============================================================================
