----------------------- MODULE VolumeExecution_proofs -----------------------
(***************************************************************************)
(* The kernel of VolumeExecutable::execute reads the grids as they were,   *)
(* for any kernels, lists of grids, transforms, tiles and levels; and, on  *)
(* lists without two grids of the same name and type, VolumeExecution      *)
(* implements VolumeKernels.                                               *)
(***************************************************************************)
EXTENDS VolumeExecution, SequenceTheorems, WellFoundedInduction, TLAPS

-----------------------------------------------------------------------------
(* The inductive invariant.                                                *)

\* All of a grid but its values.
SameTopology(a, b) ==
    /\ a.name = b.name /\ a.type = b.type /\ a.map = b.map
    /\ a.level = b.level /\ a.origin = b.origin /\ a.active = b.active

Read == [grid : Nat, copy : Seq(GridType)]

\* The types of the variables.
Shape ==
    /\ kernel \in Kernels
    /\ iterator \in {"ON", "OFF", "ALL"} /\ createMissing \in BOOLEAN
    /\ treeExecutionLevel \in Levels
    /\ grids \in Seq(GridType) /\ before \in Seq(GridType)
    /\ phase \in {"idle", "register", "run"}
    /\ next \in Nat \ {0}
    /\ readGrids \in Seq(Read) /\ writeableGrids \in Seq(Nat)
    /\ visited \subseteq Voxel /\ executes \in 0 .. MaxExecutes

\* The voxels held by a node are at their own positions.
MapsSound ==
    \A g \in DOMAIN grids, v \in Voxel : grids[g].level[v] \in Levels => grids[g].map[v] = v

\* Each access so far has a grid of its name and type, copied if it is written
\* and another access depends on it; each grid that is written has one access.
Registered ==
    /\ \A i \in DOMAIN readGrids :
        /\ i \in Access /\ readGrids[i].grid \in Matches(i)
        /\ readGrids[i].copy = <<>> => ~ (kernel.accesses[i].writes /\ affectsothers(i))
        /\ kernel.accesses[i].writes =>
                \E k \in DOMAIN writeableGrids : writeableGrids[k] = readGrids[i].grid
    /\ \A k \in DOMAIN writeableGrids :
            \E i \in DOMAIN readGrids : readGrids[i].grid = writeableGrids[k]
    /\ \A k, m \in DOMAIN writeableGrids : writeableGrids[k] = writeableGrids[m] => k = m

\* A copy is that of its grid in a list of grids.
Copied(gs) ==
    \A i \in DOMAIN readGrids :
        readGrids[i].copy # <<>> => readGrids[i].copy[1] = gs[readGrids[i].grid]

Idle ==
    readGrids = <<>> /\ writeableGrids = <<>> /\ next = 1 /\ visited = {} /\ before = <<>>

Registering ==
    /\ Len(readGrids) = next - 1 /\ next <= Len(kernel.accesses) + 1
    /\ Len(writeableGrids) <= next - 1
    /\ visited = {} /\ before = <<>>
    /\ Copied(grids)

\* The values the run may have changed: those of the written grids it is done
\* with, and the visited ones of the current grid.
Written(g, v) ==
    /\ \E k \in DOMAIN writeableGrids :
            writeableGrids[k] = g /\ (k < next \/ (k = next /\ v \in visited))
    /\ \E i \in Access : kernel.accesses[i].writes /\ readGrids[i].grid = g

Running ==
    /\ Len(readGrids) = Len(kernel.accesses)
    /\ Len(writeableGrids) <= Len(kernel.accesses) /\ next <= Len(writeableGrids) + 1
    /\ Copied(before)
    /\ Len(before) = Len(grids)
    /\ \A g \in DOMAIN grids :
        /\ SameTopology(before[g], grids[g])
        /\ \A v \in Voxel : grids[g].value[v] # before[g].value[v] => Written(g, v)

IndInv ==
    /\ Shape /\ MapsSound /\ Registered
    /\ phase = "idle" => Idle
    /\ phase = "register" => Registering
    /\ phase = "run" => Running

-----------------------------------------------------------------------------
(* Accesses and grids.                                                     *)

LEMMA KernelType ==
    ASSUME kernel \in Kernels
    PROVE  /\ kernel.accesses \in Seq(AccessType)
           /\ Access = 1 .. Len(kernel.accesses) /\ Len(kernel.accesses) \in Nat
           /\ \A i \in Access : kernel.accesses[i] \in AccessType
           /\ \A i, j \in Access : kernel.accesses[i].name = kernel.accesses[j].name
                                /\ kernel.accesses[i].type = kernel.accesses[j].type => i = j
           /\ kernel.compute \in [Access -> [[Access -> Val] -> Val]]
<1>1. kernel.accesses \in Seq(AccessType)
  BY KernelAssumption
<1>2. Access = 1 .. Len(kernel.accesses) /\ Len(kernel.accesses) \in Nat
  BY <1>1 DEF Access
<1>3. \A i \in Access : kernel.accesses[i] \in AccessType
  BY <1>1, <1>2
<1> QED
  BY <1>1, <1>2, <1>3, KernelAssumption DEF Access

\* A grid matches one access at most.
LEMMA MatchUnique ==
    ASSUME kernel \in Kernels, NEW i \in Access, NEW j \in Access, NEW g,
           g \in Matches(i), g \in Matches(j)
    PROVE  i = j
BY KernelType DEF Matches, SameName

\* setvoxel at a held voxel changes its value and nothing else.
LEMMA SetVoxel ==
    ASSUME NEW grid \in GridType, NEW v \in Voxel, grid.origin[v] = v, NEW val \in Val
    PROVE  LET new == setvoxel(grid, v, val)
           IN  /\ new \in GridType /\ SameTopology(grid, new)
               /\ new.value = [grid.value EXCEPT ![v] = val]
<1> DEFINE value == [grid.value EXCEPT ![v] = val]
           new == [grid EXCEPT !.value = value]
<1>1. setvoxel(grid, v, val) = new
  BY DEF setvoxel
<1>2. value \in [Voxel -> Val]
  BY DEF GridType
<1> HIDE DEF value
<1>3. new \in GridType /\ new.value = value /\ SameTopology(grid, new)
  BY <1>2 DEF GridType, SameTopology
<1> QED
  BY <1>1, <1>3 DEF value

\* A grid of a kernel's access without a node.
LEMMA NewGridType ==
    ASSUME kernel \in Kernels, NEW i \in Access
    PROVE  /\ NewGrid(i) \in GridType
           /\ NewGrid(i).name = kernel.accesses[i].name /\ NewGrid(i).type = kernel.accesses[i].type
           /\ \A v \in Voxel : NewGrid(i).level[v] = -1
<1>1. kernel.accesses[i] \in AccessType
  BY KernelType
<1> QED
  BY <1>1, ParameterAssumption DEF NewGrid, GridType, AccessType

LEMMA HeldIsOrigin ==
    ASSUME NEW grid, NEW v \in IterVoxels(grid), iterator \in {"ON", "OFF", "ALL"}
    PROVE  v \in Voxel /\ grid.level[v] = treeExecutionLevel /\ grid.origin[v] = v
BY DEF IterVoxels, Held

-----------------------------------------------------------------------------
(* Calls and settings.                                                     *)

LEMMA InitSound == Init => IndInv
<1> SUFFICES ASSUME Init PROVE IndInv
  OBVIOUS
<1>1. /\ readGrids = <<>> /\ writeableGrids = <<>> /\ before = <<>>
      /\ readGrids \in Seq(Read) /\ writeableGrids \in Seq(Nat) /\ before \in Seq(GridType)
      /\ DOMAIN readGrids = {} /\ DOMAIN writeableGrids = {}
  BY DEF Init
<1>2. Shape
  BY <1>1, GridAssumption, ParameterAssumption DEF Init, Shape
<1>3. MapsSound
  BY GridAssumption DEF Init, MapsSound
<1>4. Registered /\ Idle /\ phase = "idle"
  BY <1>1 DEF Init, Registered, Idle
<1> QED
  BY <1>2, <1>3, <1>4 DEF IndInv

\* An execution that ends, by return or by exception, leaves only the grids.
LEMMA LeaveSound == ASSUME IndInv, Leave, executes' \in 0 .. MaxExecutes PROVE IndInv'
<1>1. /\ phase' = "idle" /\ next' = 1 /\ readGrids' = <<>> /\ writeableGrids' = <<>>
      /\ visited' = {} /\ before' = <<>>
      /\ UNCHANGED <<kernel, iterator, createMissing, treeExecutionLevel, grids>>
  BY DEF Leave, executable
<1>2. /\ readGrids' \in Seq(Read) /\ writeableGrids' \in Seq(Nat) /\ before' \in Seq(GridType)
      /\ DOMAIN readGrids' = {} /\ DOMAIN writeableGrids' = {}
  BY <1>1
<1>3. Shape' /\ MapsSound'
  BY <1>1, <1>2 DEF IndInv, Shape, MapsSound
<1>4. Registered' /\ Idle'
  BY <1>1, <1>2 DEF Registered, Idle
<1> QED
  BY <1>1, <1>3, <1>4 DEF IndInv

LEMMA CallSound == ASSUME IndInv, Configure \/ Execute PROVE IndInv'
<1>1. /\ phase = "idle" /\ phase' \in {"idle", "register"} /\ kernel' = kernel
      /\ UNCHANGED <<grids, next, readGrids, writeableGrids, visited, before>>
  BY DEF Configure, Execute, MoreCalls, executable
<1>2. Shape'
  BY <1>1, ParameterAssumption DEF IndInv, Shape, Configure, Execute, MoreCalls, executable
<1>3. MapsSound'
  BY <1>1 DEF IndInv, MapsSound
<1>4. Idle /\ DOMAIN readGrids = {} /\ DOMAIN writeableGrids = {} /\ Len(readGrids) = 0 /\ Len(writeableGrids) = 0
  BY <1>1 DEF IndInv, Idle
<1>5. Registered' /\ Idle'
  BY <1>1, <1>4 DEF Registered, Idle
<1>6. Registering'
  <2>1. Len(kernel.accesses) \in Nat
    BY KernelType DEF IndInv, Shape
  <2> QED
    BY <1>1, <1>4, <2>1 DEF Idle, Registering, Copied
<1> QED
  BY <1>1, <1>2, <1>3, <1>5, <1>6 DEF IndInv

-----------------------------------------------------------------------------
(* registerVolumes.                                                        *)

\* What one access adds, once it has a grid, matched or created.
LEMMA RegisterSound ==
    ASSUME IndInv, phase = "register", next <= Len(kernel.accesses), NEW g, NEW grid,
           Register(next, g, grid),
           grids' \in Seq(GridType), DOMAIN grids \subseteq DOMAIN grids',
           \A h \in DOMAIN grids : grids'[h] = grids[h],
           \A h \in DOMAIN grids' \ DOMAIN grids, v \in Voxel : grids'[h].level[v] \notin Levels,
           g \in DOMAIN grids', grids'[g] = grid,
           grid.name = kernel.accesses[next].name, grid.type = kernel.accesses[next].type
    PROVE  IndInv'
<1> DEFINE copied == kernel.accesses[next].writes /\ affectsothers(next)
           read == IF copied THEN Copy(g, grid) ELSE Alias(g)
           writes == kernel.accesses[next].writes
<1>1. /\ next' = next + 1 /\ readGrids' = Append(readGrids, read)
      /\ writeableGrids' = IF writes THEN Append(writeableGrids, g) ELSE writeableGrids
      /\ UNCHANGED <<kernel, iterator, createMissing, treeExecutionLevel, phase, visited, executes, before>>
  BY DEF Register, executable
<1>2. /\ Shape /\ MapsSound /\ Registered /\ Registering
      /\ next \in Nat \ {0} /\ Len(readGrids) = next - 1
      /\ readGrids \in Seq(Read) /\ writeableGrids \in Seq(Nat)
      /\ Len(kernel.accesses) \in Nat /\ next \in Access
      /\ DOMAIN readGrids = 1 .. next - 1
  BY KernelType DEF IndInv, Shape, Registering
<1>3. Access' = Access /\ \A i \in Access : affectsothers(i)' = affectsothers(i)
  BY <1>1 DEF Access, affectsothers
<1>4. /\ g \in DOMAIN grids' /\ g \in Nat /\ grid \in GridType
      /\ \A i \in Access : Matches(i) \subseteq Matches(i)'
      /\ \A i \in Access : Matches(i) \subseteq DOMAIN grids
      /\ \A i \in Access : i = next => g \in Matches(i)'
  BY <1>1 DEF Matches, SameName
<1>5. read \in Read /\ read.grid = g /\ (read.copy = <<>> <=> ~ copied)
      /\ (copied => read.copy[1] = grid)
  <2>1. <<grid>> \in Seq(GridType) /\ <<grid>> # <<>> /\ <<grid>>[1] = grid /\ <<>> \in Seq(GridType)
    BY <1>4
  <2> QED
    BY <1>4, <2>1 DEF Copy, Alias, Read
<1> HIDE DEF read
<1>6. /\ readGrids' \in Seq(Read) /\ Len(readGrids') = next
      /\ DOMAIN readGrids' = 1 .. next
      /\ readGrids'[next] = read
      /\ \A i \in 1 .. next - 1 : readGrids'[i] = readGrids[i]
  BY <1>1, <1>2, <1>5
<1>7. /\ writeableGrids' \in Seq(Nat)
      /\ Len(writeableGrids') = IF writes THEN Len(writeableGrids) + 1 ELSE Len(writeableGrids)
      /\ DOMAIN writeableGrids' = 1 .. Len(writeableGrids')
      /\ DOMAIN writeableGrids = 1 .. Len(writeableGrids) /\ Len(writeableGrids) \in Nat
      /\ writes => writeableGrids'[Len(writeableGrids) + 1] = g
      /\ \A k \in DOMAIN writeableGrids : writeableGrids'[k] = writeableGrids[k]
  BY <1>1, <1>2, <1>4
<1>8. \A i \in 1 .. next - 1 : readGrids[i].grid # g
  <2> SUFFICES ASSUME NEW i \in 1 .. next - 1, readGrids[i].grid = g PROVE FALSE
    OBVIOUS
  <2>1. i \in Access /\ g \in Matches(i)
    BY <1>2 DEF Registered
  <2>2. grid.name = kernel.accesses[i].name /\ grid.type = kernel.accesses[i].type
    BY <2>1 DEF Matches, SameName
  <2>3. i = next
    BY <1>2, <2>1, <2>2, KernelType DEF Shape
  <2> QED
    BY <1>2, <2>3
<1>9. Shape'
  BY <1>1, <1>6, <1>7 DEF IndInv, Shape
<1>10. MapsSound'
  BY <1>1, <1>2 DEF MapsSound
<1>11. Registered'
  <2>0. ASSUME NEW n \in DOMAIN writeableGrids', n \notin DOMAIN writeableGrids
        PROVE  writeableGrids'[n] = g /\ n = Len(writeableGrids) + 1
    <3>1. CASE writes
      BY <1>7, <2>0, <3>1
    <3>2. CASE ~ writes
      BY <1>7, <2>0, <3>2
    <3> QED
      BY <3>1, <3>2
  <2>1. ASSUME NEW i \in 1 .. next
        PROVE  /\ i \in Access /\ readGrids'[i].grid \in Matches(i)'
               /\ readGrids'[i].copy = <<>> => ~ (kernel.accesses[i].writes /\ affectsothers(i))
               /\ kernel.accesses[i].writes =>
                     \E k \in DOMAIN writeableGrids' : writeableGrids'[k] = readGrids'[i].grid
    <3>1. CASE i = next
      <4>1. writes => Len(writeableGrids) + 1 \in DOMAIN writeableGrids'
        BY <1>7
      <4>2. readGrids'[i] = read /\ read.grid \in Matches(i)' /\ i \in Access
        BY <1>2, <1>4, <1>5, <1>6, <3>1
      <4>3. read.copy = <<>> => ~ (kernel.accesses[i].writes /\ affectsothers(i))
        BY <1>5, <3>1
      <4> QED
        BY <1>5, <1>7, <3>1, <4>1, <4>2, <4>3
    <3>2. CASE i # next
      <4>1. i \in 1 .. next - 1
        BY <1>2, <3>2
      <4>2. DOMAIN writeableGrids \subseteq DOMAIN writeableGrids'
        BY <1>7
      <4>3. /\ readGrids'[i] = readGrids[i] /\ i \in DOMAIN readGrids
            /\ i \in Access /\ readGrids[i].grid \in Matches(i)
            /\ readGrids[i].copy = <<>> => ~ (kernel.accesses[i].writes /\ affectsothers(i))
            /\ kernel.accesses[i].writes =>
                  \E k \in DOMAIN writeableGrids : writeableGrids[k] = readGrids[i].grid
        BY <1>2, <1>6, <4>1 DEF Registered
      <4>4. readGrids[i].grid \in Matches(i)'
        BY <1>4, <4>3
      <4> QED
        BY <1>7, <4>2, <4>3, <4>4
    <3> QED
      BY <3>1, <3>2
  <2>2. ASSUME NEW k \in DOMAIN writeableGrids'
        PROVE  \E i \in DOMAIN readGrids' : readGrids'[i].grid = writeableGrids'[k]
    <3>1. CASE k \in DOMAIN writeableGrids
      <4>1. PICK i \in DOMAIN readGrids : readGrids[i].grid = writeableGrids[k]
        BY <1>2, <3>1 DEF Registered
      <4>2. i \in DOMAIN readGrids' /\ readGrids'[i] = readGrids[i]
        BY <1>2, <1>6
      <4> QED
        BY <1>7, <3>1, <4>1, <4>2
    <3>2. CASE k \notin DOMAIN writeableGrids
      <4>1. writeableGrids'[k] = g
        BY <2>0, <3>2
      <4>2. next \in DOMAIN readGrids' /\ readGrids'[next].grid = g
        BY <1>2, <1>5, <1>6
      <4> QED
        BY <4>1, <4>2
    <3> QED
      BY <3>1, <3>2
  <2>3. ASSUME NEW k \in DOMAIN writeableGrids', NEW m \in DOMAIN writeableGrids',
               writeableGrids'[k] = writeableGrids'[m]
        PROVE  k = m
    <3>1. \A n \in DOMAIN writeableGrids : writeableGrids[n] # g
      BY <1>2, <1>8 DEF Registered
    <3> QED
      BY <1>2, <1>7, <2>0, <2>3, <3>1 DEF Registered
  <2> QED
    BY <1>1, <1>3, <1>6, <2>1, <2>2, <2>3 DEF Registered
<1>12. Registering'
  <2>1. Copied(grids)'
    <3> SUFFICES ASSUME NEW i \in 1 .. next, readGrids'[i].copy # <<>>
                 PROVE  readGrids'[i].copy[1] = grids'[readGrids'[i].grid]
      BY <1>6 DEF Copied
    <3>1. CASE i = next
      BY <1>5, <1>6, <3>1
    <3>2. CASE i \in 1 .. next - 1
      <4>1. readGrids'[i] = readGrids[i] /\ i \in DOMAIN readGrids
        BY <1>2, <1>6, <3>2
      <4>2. readGrids[i].copy[1] = grids[readGrids[i].grid]
        BY <1>2, <4>1 DEF Registering, Copied
      <4>3. readGrids[i].grid \in DOMAIN grids
        BY <1>2, <1>4, <4>1 DEF Registered
      <4> QED
        BY <4>1, <4>2, <4>3
    <3> QED
      BY <1>2, <3>1, <3>2
  <2> QED
    BY <1>1, <1>2, <1>6, <1>7, <2>1 DEF Registering
<1> QED
  BY <1>1, <1>9, <1>10, <1>11, <1>12 DEF IndInv

\* A set of numbers that is not empty has a least one.
LEMMA LeastExists ==
    ASSUME NEW S \in SUBSET Nat, S # {} PROVE \E n \in S : \A m \in S : n <= m
<1>1. PICK x \in S : \A y \in S : ~ <<y, x>> \in OpToRel(<, Nat)
  BY NatLessThanWellFounded, WFMin, Zenon
<1>2. \A y \in S : ~ (y < x)
  BY <1>1, Zenon DEF OpToRel
<1> QED
  BY <1>2

\* The first of the grids of a name and type is one of them.
LEMMA FirstMatches ==
    ASSUME IndInv, NEW i, Matches(i) # {} PROVE Min(Matches(i)) \in Matches(i)
<1>1. Matches(i) \in SUBSET Nat
  BY DEF IndInv, Shape, Matches, SameName
<1> QED
  BY <1>1, LeastExists DEF Min

LEMMA RegisterVolumeSound == ASSUME IndInv, RegisterVolume PROVE IndInv'
<1>1. phase = "register" /\ next <= Len(kernel.accesses) /\ next \in Access
      /\ grids \in Seq(GridType) /\ Len(grids) \in Nat /\ DOMAIN grids = 1 .. Len(grids)
  BY KernelType DEF RegisterVolume, IndInv, Shape
<1>2. CASE /\ Matches(next) # {}
           /\ Register(next, Min(Matches(next)), grids[Min(Matches(next))])
           /\ UNCHANGED grids
  <2>1. Min(Matches(next)) \in Matches(next) /\ kernel' = kernel
    BY <1>2, FirstMatches DEF Register, executable
  <2> DEFINE g == Min(Matches(next))
  <2>2. /\ g \in DOMAIN grids
        /\ grids[g].name = kernel.accesses[next].name /\ grids[g].type = kernel.accesses[next].type
    BY <2>1 DEF Matches, SameName
  <2> HIDE DEF g
  <2>3. Register(next, g, grids[g])
    BY <1>2 DEF g
  <2> QED
    BY <1>1, <1>2, <2>2, <2>3, RegisterSound
<1>3. CASE /\ Matches(next) = {}
           /\ grids' = Append(grids, NewGrid(next))
           /\ Register(next, Len(grids) + 1, NewGrid(next))
  <2>1. /\ NewGrid(next) \in GridType
        /\ NewGrid(next).name = kernel.accesses[next].name
        /\ NewGrid(next).type = kernel.accesses[next].type
        /\ \A v \in Voxel : NewGrid(next).level[v] \notin Levels
    BY <1>1, NewGridType, ParameterAssumption DEF IndInv, Shape
  <2> DEFINE new == NewGrid(next)
  <2> HIDE DEF new
  <2>2. /\ grids' \in Seq(GridType) /\ DOMAIN grids' = 1 .. Len(grids) + 1
        /\ \A h \in DOMAIN grids : grids'[h] = grids[h]
        /\ grids'[Len(grids) + 1] = new
    BY <1>1, <1>3, <2>1 DEF new
  <2>4. DOMAIN grids \subseteq DOMAIN grids' /\ DOMAIN grids' \ DOMAIN grids = {Len(grids) + 1}
    BY <1>1, <2>2
  <2> QED
    BY <1>1, <1>3, <2>1, <2>2, <2>4, RegisterSound DEF new
<1>4. CASE Leave /\ UNCHANGED executes
  BY <1>4, LeaveSound DEF IndInv, Shape
<1> QED
  BY <1>2, <1>3, <1>4 DEF RegisterVolume

-----------------------------------------------------------------------------
(* The run.                                                                *)

LEMMA BeginRunSound == ASSUME IndInv, BeginRun PROVE IndInv'
<1>1. /\ phase = "register" /\ next = Len(kernel.accesses) + 1
      /\ phase' = "run" /\ next' = 1 /\ before' = grids
      /\ UNCHANGED <<kernel, iterator, createMissing, treeExecutionLevel, grids, readGrids,
                     writeableGrids, visited, executes>>
  BY DEF BeginRun, executable
<1>2. Registering /\ Len(kernel.accesses) \in Nat /\ writeableGrids \in Seq(Nat)
  BY <1>1, KernelType DEF IndInv, Shape
<1>3. Shape' /\ MapsSound'
  BY <1>1 DEF IndInv, Shape, MapsSound
<1>4. Registered'
  BY <1>1 DEF IndInv, Registered, Access, Matches, SameName, affectsothers
<1>5. Len(readGrids) = Len(kernel.accesses) /\ Len(writeableGrids) <= Len(kernel.accesses)
      /\ Len(writeableGrids) \in Nat
  BY <1>1, <1>2 DEF Registering
<1>6. Copied(before)'
  BY <1>1, <1>2 DEF Registering, Copied
<1>7. Running'
  BY <1>1, <1>5, <1>6 DEF Running, SameTopology
<1> QED
  BY <1>1, <1>3, <1>4, <1>7 DEF IndInv

LEMMA ExecuteSingleSound == ASSUME IndInv, NEW g \in DOMAIN grids, ExecuteSingle(g) PROVE IndInv'
<1>1. executes' \in 0 .. MaxExecutes /\ phase = "idle"
  BY ParameterAssumption DEF IndInv, Shape, ExecuteSingle, MoreCalls
<1>2. CASE Leave
  BY <1>1, <1>2, LeaveSound
<1>3. CASE /\ \A i \in Access : g \in Matches(i)
           /\ Access # {}
           /\ phase' = "run" /\ next' = 1 /\ before' = grids
           /\ readGrids' = <<Alias(g)>> /\ writeableGrids' = <<g>>
           /\ UNCHANGED <<executable, grids, visited>>
  <2>1. Access = {1} /\ Len(kernel.accesses) = 1
    <3>1. \A i, j \in Access : i = j
      BY <1>3, MatchUnique DEF IndInv, Shape
    <3>2. Access = 1 .. Len(kernel.accesses) /\ Len(kernel.accesses) \in Nat
      BY KernelType DEF IndInv, Shape
    <3> DEFINE n == Len(kernel.accesses)
    <3> HIDE DEF n
    <3>3. n \in Nat /\ Access = 1 .. n
      BY <3>2 DEF n
    <3>4. 1 \in Access /\ (n > 1 => 2 \in Access)
      BY <1>3, <3>3
    <3>5. n = 1
      BY <3>1, <3>3, <3>4
    <3> QED
      BY <3>3, <3>5 DEF n
  <2>2. g \in Nat /\ Alias(g) \in Read /\ Alias(g).grid = g /\ Alias(g).copy = <<>>
    <3>1. <<>> \in Seq(GridType)
      OBVIOUS
    <3> QED
      BY <3>1 DEF IndInv, Shape, Alias, Read
  <2>3. /\ readGrids' \in Seq(Read) /\ DOMAIN readGrids' = {1} /\ Len(readGrids') = 1
        /\ readGrids'[1] = Alias(g)
    BY <1>3, <2>2
  <2>4. /\ writeableGrids' \in Seq(Nat) /\ DOMAIN writeableGrids' = {1}
        /\ Len(writeableGrids') = 1 /\ writeableGrids'[1] = g
    BY <1>3, <2>2
  <2>5. UNCHANGED <<kernel, iterator, createMissing, treeExecutionLevel>>
    BY <1>3 DEF executable
  <2>6. Shape' /\ MapsSound'
    BY <1>1, <1>3, <2>3, <2>4, <2>5 DEF IndInv, Shape, MapsSound
  <2>7. Access' = {1} /\ g \in Matches(1)' /\ ~ affectsothers(1)'
    <3>1. Access' = {1}
      BY <2>1, <2>5 DEF Access
    <3>2. g \in Matches(1)
      BY <1>3, <2>1
    <3>3. g \in Matches(1)'
      BY <1>3, <2>5, <3>2 DEF Matches, SameName
    <3> QED
      BY <3>1, <3>3 DEF affectsothers
  <2>8. Registered'
    BY <2>2, <2>3, <2>4, <2>7 DEF Registered
  <2>9. Running'
    <3>1. Copied(before)'
      BY <2>2, <2>3 DEF Copied
    <3>2. /\ Len(readGrids') = Len(kernel'.accesses)
          /\ Len(writeableGrids') <= Len(kernel'.accesses) /\ next' <= Len(writeableGrids') + 1
      <4>1. Len(kernel'.accesses) = 1 /\ next' = 1
        BY <1>3, <2>1, <2>5
      <4> QED
        BY <2>3, <2>4, <4>1
    <3>3. before' = grids' /\ Len(before') = Len(grids')
      BY <1>3
    <3> QED
      BY <3>1, <3>2, <3>3 DEF Running, SameTopology
  <2> QED
    BY <1>3, <2>6, <2>8, <2>9 DEF IndInv
<1> QED
  BY <1>2, <1>3 DEF ExecuteSingle

\* The grid the kernel runs over is that of one access.
LEMMA Current ==
    ASSUME IndInv, phase = "run", next <= Len(writeableGrids)
    PROVE  /\ next \in DOMAIN writeableGrids /\ CurrentGrid \in DOMAIN grids
           /\ WriteIndex \in Access /\ WriteIndex \in DOMAIN readGrids
           /\ readGrids[WriteIndex].grid = CurrentGrid
           /\ CurrentGrid \in Matches(WriteIndex)
<1>1. next \in DOMAIN writeableGrids
  BY DEF IndInv, Shape
<1>2. PICK i \in DOMAIN readGrids : readGrids[i].grid = CurrentGrid
  BY <1>1 DEF IndInv, Registered, CurrentGrid
<1>3. i \in Access /\ CurrentGrid \in Matches(i)
  BY <1>2 DEF IndInv, Registered
<1>4. CurrentGrid \in DOMAIN grids
  BY <1>3 DEF Matches, SameName
<1>5. WriteIndex \in Access /\ CurrentGrid \in Matches(WriteIndex)
  BY <1>3 DEF WriteIndex, Matches, SameName
<1>6. WriteIndex = i
  BY <1>3, <1>5, MatchUnique DEF IndInv, Shape
<1> QED
  BY <1>1, <1>2, <1>4, <1>5, <1>6

\* What getvoxel reads is the value the grid had before.
LEMMA ReadsBefore ==
    ASSUME IndInv, phase = "run", next <= Len(writeableGrids),
           NEW v \in IterVoxels(grids[CurrentGrid]) \ visited, NEW j \in Access,
           j \in kernel.deps[WriteIndex]
    PROVE  LET old == before[readGrids[j].grid] IN getvoxel(j, v) = old.value[old.origin[old.map[v]]]
<1> DEFINE g == readGrids[j].grid
           old == before[g]
           new == grids[g]
<1>1. Running /\ Registered /\ j \in DOMAIN readGrids /\ g \in DOMAIN grids
  <2>1. DOMAIN readGrids = Access
    BY KernelType DEF IndInv, Shape, Running
  <2> QED
    BY <2>1 DEF IndInv, Registered, Matches, SameName
<1>2. CASE readGrids[j].copy # <<>>
  <2>1. readGrids[j].copy[1] = old
    BY <1>1, <1>2 DEF Running, Copied
  <2> QED
    BY <1>2, <2>1 DEF getvoxel
<1>3. CASE readGrids[j].copy = <<>>
  <2>1. SameTopology(old, new)
    BY <1>1 DEF Running
  <2>2. getvoxel(j, v) = new.value[old.origin[old.map[v]]]
    BY <1>3, <2>1 DEF getvoxel, SameTopology
  <2>3. old.origin[old.map[v]] \in Voxel
    <3>1. new \in GridType /\ grids[CurrentGrid] \in GridType
      BY <1>1, Current DEF IndInv, Shape
    <3>2. v \in Voxel
      BY HeldIsOrigin DEF IndInv, Shape
    <3> QED
      BY <2>1, <3>1, <3>2 DEF SameTopology, GridType
  <2>4. ~ Written(g, old.origin[old.map[v]])
    <3> SUFFICES ASSUME Written(g, old.origin[old.map[v]]) PROVE FALSE
      OBVIOUS
    <3>1. PICK i \in Access : kernel.accesses[i].writes /\ readGrids[i].grid = g
      BY DEF Written
    <3>2. PICK k \in DOMAIN writeableGrids :
              writeableGrids[k] = g /\ (k < next \/ (k = next /\ old.origin[old.map[v]] \in visited))
      BY DEF Written
    <3>3. i = j
      <4>1. DOMAIN readGrids = Access
        BY <1>1, KernelType DEF IndInv, Shape, Running
      <4> QED
        BY <1>1, <3>1, <4>1, MatchUnique DEF IndInv, Shape, Registered
    <3>4. ~ affectsothers(j)
      BY <1>1, <1>3, <3>1, <3>3 DEF Registered
    <3>5. j = WriteIndex
      BY <3>4, Current DEF affectsothers
    <3>6. g = CurrentGrid /\ k = next
      BY <1>1, <3>2, <3>5, Current DEF Registered, CurrentGrid
    <3>7. old.origin[old.map[v]] = v
      <4>1. v \in Voxel /\ new.level[v] \in Levels /\ new.origin[v] = v
        BY <3>6, HeldIsOrigin DEF IndInv, Shape
      <4>2. new.map[v] = v
        BY <1>1, <4>1 DEF IndInv, MapsSound
      <4> QED
        BY <2>1, <4>1, <4>2 DEF SameTopology
    <3>8. v \in visited
      BY <3>2, <3>6, <3>7 DEF IndInv, Shape
    <3> QED
      BY <3>8
  <2>5. new.value[old.origin[old.map[v]]] = old.value[old.origin[old.map[v]]]
    BY <1>1, <2>3, <2>4 DEF Running
  <2> QED
    BY <2>2, <2>5
<1> QED
  BY <1>2, <1>3

\* What the kernel assigns at a voxel is a value.
LEMMA ComputesValue ==
    ASSUME IndInv, phase = "run", next <= Len(writeableGrids),
           NEW v \in IterVoxels(grids[CurrentGrid])
    PROVE  /\ [j \in Access |-> getvoxel(j, v)] \in [Access -> Val]
           /\ kernel.compute[WriteIndex][[j \in Access |-> getvoxel(j, v)]] \in Val
<1>1. Running /\ Registered /\ DOMAIN readGrids = Access /\ v \in Voxel
  BY KernelType, HeldIsOrigin DEF IndInv, Shape, Running
<1>2. ASSUME NEW j \in Access PROVE getvoxel(j, v) \in Val
  <2>1. readGrids[j].grid \in DOMAIN grids
    BY <1>1 DEF Registered, Matches, SameName
  <2>2. grids[readGrids[j].grid] \in GridType /\ before[readGrids[j].grid] \in GridType
    BY <1>1, <2>1 DEF IndInv, Shape, Running
  <2>3. readGrids[j].copy # <<>> => readGrids[j].copy[1] = before[readGrids[j].grid]
    BY <1>1 DEF Running, Copied
  <2>4. PICK grid \in GridType : getvoxel(j, v) = grid.value[grid.origin[grid.map[v]]]
    BY <2>2, <2>3 DEF getvoxel
  <2> QED
    BY <1>1, <2>4 DEF GridType
<1>3. [j \in Access |-> getvoxel(j, v)] \in [Access -> Val]
  BY <1>2
<1>4. kernel.compute[WriteIndex] \in [[Access -> Val] -> Val]
  BY KernelType, Current DEF IndInv, Shape
<1> QED
  BY <1>3, <1>4

\* The kernel at one voxel sets its value in the current grid, if it writes it.
RunsVoxel(v) ==
    LET writes == kernel.accesses[WriteIndex].writes
        val    == kernel.compute[WriteIndex][[j \in Access |-> getvoxel(j, v)]]
    IN  /\ grids' \in Seq(GridType) /\ Len(grids') = Len(grids) /\ DOMAIN grids' = DOMAIN grids
        /\ \A g \in DOMAIN grids : SameTopology(grids[g], grids'[g])
        /\ \A g \in DOMAIN grids, u \in Voxel : g # CurrentGrid \/ u # v \/ ~ writes =>
                grids'[g].value[u] = grids[g].value[u]
        /\ writes => grids' = [grids EXCEPT ![CurrentGrid].value[v] = val]

LEMMA RunVoxelRuns == ASSUME IndInv, NEW v \in Voxel, RunVoxel(v) PROVE RunsVoxel(v)
<1> DEFINE writes == kernel.accesses[WriteIndex].writes
           val    == kernel.compute[WriteIndex][[j \in Access |-> getvoxel(j, v)]]
           new    == setvoxel(grids[CurrentGrid], v, val)
<1>1. /\ phase = "run" /\ next <= Len(writeableGrids) /\ v \in IterVoxels(grids[CurrentGrid])
      /\ grids' = IF writes THEN [grids EXCEPT ![CurrentGrid] = new] ELSE grids
  BY DEF RunVoxel
<1>2. CurrentGrid \in DOMAIN grids /\ grids[CurrentGrid] \in GridType /\ grids \in Seq(GridType)
  BY <1>1, Current DEF IndInv, Shape
<1>3. val \in Val
  BY <1>1, ComputesValue
<1>4. grids[CurrentGrid].origin[v] = v
  BY <1>1, HeldIsOrigin DEF IndInv, Shape
<1> HIDE DEF val
<1>5. /\ new \in GridType /\ SameTopology(grids[CurrentGrid], new)
      /\ new.value = [grids[CurrentGrid].value EXCEPT ![v] = val]
  BY <1>2, <1>3, <1>4, SetVoxel
<1>6. new = [grids[CurrentGrid] EXCEPT !.value[v] = val]
  BY <1>4 DEF setvoxel
<1> HIDE DEF new
<1>7. /\ \A u \in Voxel : u # v => new.value[u] = grids[CurrentGrid].value[u]
  BY <1>2, <1>5 DEF GridType
<1>8. CASE writes
  <2>1. grids' = [grids EXCEPT ![CurrentGrid] = new]
    BY <1>1, <1>8
  <2>2. /\ grids' \in Seq(GridType) /\ Len(grids') = Len(grids) /\ DOMAIN grids' = DOMAIN grids
        /\ grids'[CurrentGrid] = new
        /\ \A g \in DOMAIN grids : g # CurrentGrid => grids'[g] = grids[g]
    BY <1>2, <1>5, <2>1
  <2>3. \A g \in DOMAIN grids : SameTopology(grids[g], grids'[g])
    BY <1>5, <2>2 DEF SameTopology
  <2>4. grids' = [grids EXCEPT ![CurrentGrid].value[v] = val]
    BY <1>6, <2>1
  <2> QED
    BY <1>7, <1>8, <2>2, <2>3, <2>4 DEF RunsVoxel, val
<1>9. CASE ~ writes
  BY <1>1, <1>2, <1>9 DEF RunsVoxel, SameTopology
<1> QED
  BY <1>8, <1>9

LEMMA RunVoxelSound == ASSUME IndInv, NEW v \in Voxel, RunVoxel(v) PROVE IndInv'
<1>1. /\ phase = "run" /\ phase' = "run" /\ next <= Len(writeableGrids)
      /\ visited' = visited \cup {v}
      /\ UNCHANGED <<kernel, iterator, createMissing, treeExecutionLevel, next, readGrids,
                     writeableGrids, executes, before>>
  BY DEF RunVoxel, executable
<1>2. /\ grids' \in Seq(GridType) /\ Len(grids') = Len(grids) /\ DOMAIN grids' = DOMAIN grids
      /\ \A g \in DOMAIN grids : SameTopology(grids[g], grids'[g])
      /\ \A g \in DOMAIN grids, u \in Voxel :
            g # CurrentGrid \/ u # v \/ ~ kernel.accesses[WriteIndex].writes =>
                grids'[g].value[u] = grids[g].value[u]
  BY RunVoxelRuns DEF RunsVoxel
<1>3. Shape'
  BY <1>1, <1>2 DEF IndInv, Shape
<1>4. MapsSound'
  BY <1>2 DEF IndInv, MapsSound, SameTopology
<1>5. Registered'
  <2>1. \A i : Matches(i)' = Matches(i)
    BY <1>1, <1>2 DEF Matches, SameName, SameTopology
  <2>2. Access' = Access /\ \A i : affectsothers(i)' = affectsothers(i)
    BY <1>1 DEF Access, affectsothers
  <2> QED
    BY <1>1, <2>1, <2>2 DEF IndInv, Registered
<1>6. Running'
  <2>1. \A g \in DOMAIN grids : SameTopology(before[g], grids'[g])
    BY <1>1, <1>2 DEF IndInv, Running, SameTopology
  <2>2. ASSUME NEW g \in DOMAIN grids, NEW u \in Voxel, grids'[g].value[u] # before[g].value[u]
        PROVE  Written(g, u)'
    <3>1. CASE grids[g].value[u] # before[g].value[u]
      <4>1. Written(g, u)
        BY <1>1, <3>1 DEF IndInv, Running
      <4> QED
        BY <1>1, <4>1 DEF Written, Access
    <3>2. CASE grids[g].value[u] = before[g].value[u]
      <4>1. g = CurrentGrid /\ u = v /\ kernel.accesses[WriteIndex].writes
        BY <1>2, <2>2, <3>2
      <4> QED
        BY <1>1, <4>1, Current DEF Written, Access, CurrentGrid
    <3> QED
      BY <3>1, <3>2
  <2>3. Copied(before)'
    BY <1>1 DEF IndInv, Running, Copied
  <2> QED
    BY <1>1, <1>2, <2>1, <2>2, <2>3 DEF IndInv, Running
<1> QED
  BY <1>1, <1>3, <1>4, <1>5, <1>6 DEF IndInv

LEMMA NextGridSound == ASSUME IndInv, NextGrid PROVE IndInv'
<1>1. /\ phase = "run" /\ phase' = "run" /\ next <= Len(writeableGrids)
      /\ next' = next + 1 /\ visited' = {}
      /\ UNCHANGED <<kernel, iterator, createMissing, treeExecutionLevel, grids, readGrids,
                     writeableGrids, executes, before>>
  BY DEF NextGrid, executable
<1>2. Shape' /\ MapsSound'
  BY <1>1 DEF IndInv, Shape, MapsSound
<1>3. Registered'
  BY <1>1 DEF IndInv, Registered, Access, Matches, SameName, affectsothers
<1>4. \A g, v : Written(g, v) => Written(g, v)'
  BY <1>1 DEF IndInv, Shape, Written, Access
<1>5. Running'
  BY <1>1, <1>4 DEF IndInv, Shape, Running, Copied
<1> QED
  BY <1>1, <1>2, <1>3, <1>5 DEF IndInv

LEMMA StepSound == IndInv /\ [Next]_vars => IndInv'
<1> SUFFICES ASSUME IndInv, [Next]_vars PROVE IndInv'
  OBVIOUS
<1>1. CASE Configure \/ Execute
  BY <1>1, CallSound
<1>2. CASE \E g \in DOMAIN grids : ExecuteSingle(g)
  BY <1>2, ExecuteSingleSound
<1>3. CASE RegisterVolume \/ BeginRun \/ NextGrid
  BY <1>3, RegisterVolumeSound, BeginRunSound, NextGridSound
<1>4. CASE Finish
  BY <1>4, LeaveSound DEF Finish, IndInv, Shape
<1>5. CASE \E v \in Voxel : RunVoxel(v)
  BY <1>5, RunVoxelSound
<1>6. CASE Rest \/ UNCHANGED vars
  <2>1. UNCHANGED <<kernel, iterator, createMissing, treeExecutionLevel, grids, phase, next,
                    readGrids, writeableGrids, visited, executes, before>>
    BY <1>6 DEF Rest, vars, executable
  <2>2. Shape' /\ MapsSound'
    BY <2>1 DEF IndInv, Shape, MapsSound
  <2>3. Registered'
    BY <2>1 DEF IndInv, Registered, Access, Matches, SameName, affectsothers
  <2>4. (Idle => Idle') /\ (Registering => Registering') /\ (Running => Running')
    BY <2>1 DEF Idle, Registering, Running, Copied, Written, Access
  <2> QED
    BY <2>1, <2>2, <2>3, <2>4 DEF IndInv
<1> QED
  BY <1>1, <1>2, <1>3, <1>4, <1>5, <1>6 DEF Next, Step

\* Grids, copies and values are in order in every state of any executions.
THEOREM GridsSound == Spec => []IndInv
BY InitSound, StepSound, PTL DEF Spec

-----------------------------------------------------------------------------
(* What the kernel relies on.                                              *)

\* Every variable keeps its type, each grid and copy its own.
THEOREM TypeCorrect == Spec => []TypeOK
<1>1. IndInv => TypeOK
  <2> SUFFICES ASSUME IndInv PROVE TypeOK
    OBVIOUS
  <2>1. next \in 1 .. Len(kernel.accesses) + 1
    <3>1. Len(kernel.accesses) \in Nat /\ next \in Nat \ {0} /\ Len(writeableGrids) \in Nat
      BY KernelType DEF IndInv, Shape
    <3> QED
      BY <3>1 DEF IndInv, Shape, Idle, Registering, Running
  <2>2. \A i \in DOMAIN readGrids :
            readGrids[i].grid \in DOMAIN grids /\ readGrids[i].copy \in Seq(GridType)
    <3> SUFFICES ASSUME NEW i \in DOMAIN readGrids
                 PROVE  readGrids[i].grid \in DOMAIN grids /\ readGrids[i].copy \in Seq(GridType)
      OBVIOUS
    <3>1. readGrids[i] \in Read
      BY DEF IndInv, Shape
    <3>2. readGrids[i].grid \in DOMAIN grids
      BY DEF IndInv, Registered, Matches, SameName
    <3> QED
      BY <3>1, <3>2 DEF Read
  <2>3. \A k \in DOMAIN writeableGrids : writeableGrids[k] \in DOMAIN grids
    BY <2>2 DEF IndInv, Registered
  <2> QED
    BY <2>1, <2>2, <2>3 DEF TypeOK, IndInv, Shape
<1> QED
  BY <1>1, GridsSound, PTL

\* The kernel finds each access in the grid of its position.
THEOREM GridsLineUp == Spec => []ReadGridsLineUp
<1>1. IndInv => ReadGridsLineUp
  <2> SUFFICES ASSUME IndInv, phase = "run" PROVE ReadGridsLineUp
    BY DEF ReadGridsLineUp
  <2>1. Len(readGrids) = Len(kernel.accesses) /\ DOMAIN readGrids = Access
    BY KernelType DEF IndInv, Shape, Running
  <2> QED
    BY <2>1 DEF IndInv, Registered, ReadGridsLineUp, Matches, SameName
<1> QED
  BY <1>1, GridsSound, PTL

\* The copies registerVolumes makes are all that are needed: what a value depends
\* on is read as it was before the execution.
THEOREM OriginalsAreRead == Spec => []ReadsOriginal
<1>1. IndInv => ReadsOriginal
  BY ReadsBefore DEF ReadsOriginal
<1> QED
  BY <1>1, GridsSound, PTL

-----------------------------------------------------------------------------
(* A kernel is a function of what its accesses depend on.                  *)

\* If two inputs differ only where an access does not depend on them, it has the
\* same value: change one input after the other.
LEMMA DependenciesDecide ==
    ASSUME kernel \in Kernels, NEW i \in Access, kernel.accesses[i].writes,
           NEW x \in [Access -> Val], NEW y \in [Access -> Val],
           \A j \in Access : j \in kernel.deps[i] => x[j] = y[j]
    PROVE  kernel.compute[i][x] = kernel.compute[i][y]
<1> DEFINE f == kernel.compute[i]
           mix(n) == [j \in Access |-> IF j <= n THEN x[j] ELSE y[j]]
           count == Len(kernel.accesses)
           bad == {n \in 0 .. count : f[mix(n)] # f[y]}
<1>1. Access = 1 .. count /\ count \in Nat /\ DOMAIN f = [Access -> Val]
  BY KernelType
<1>2. \A n \in Nat : mix(n) \in [Access -> Val]
  OBVIOUS
<1> HIDE DEF count, f
<1>3. mix(0) = y /\ mix(count) = x
  BY <1>1
<1>4. bad = {}
  <2> SUFFICES ASSUME bad # {} PROVE FALSE
    OBVIOUS
  <2>1. PICK n \in bad : \A m \in bad : n <= m
    <3>1. bad \in SUBSET Nat
      BY <1>1
    <3> HIDE DEF bad
    <3> QED
      BY <3>1, LeastExists
  <2>2. n \in 1 .. count /\ f[mix(n)] # f[y] /\ n \in Access
    <3>1. n \in 0 .. count /\ f[mix(n)] # f[y]
      BY <2>1
    <3> HIDE DEF mix, bad
    <3>2. n # 0
      BY <1>3, <3>1
    <3> QED
      BY <1>1, <3>1, <3>2
  <2>3. n - 1 \in 0 .. count /\ n - 1 \notin bad
    <3> HIDE DEF bad
    <3>1. n \in 1 .. count /\ ~ (n <= n - 1)
      BY <1>1, <2>2
    <3> QED
      BY <1>1, <2>1, <3>1
  <2>4. f[mix(n - 1)] = f[y]
    BY <2>3
  <2>5. \A j \in Access \ {n} : mix(n)[j] = mix(n - 1)[j]
    BY <1>1, <2>2
  <2>6. DependsOn(kernel, i, n)
    <3>1. mix(n) \in DOMAIN f /\ mix(n - 1) \in DOMAIN f
      BY <1>1, <1>2, <2>2
    <3>2. DOMAIN mix(n) = Access
      OBVIOUS
    <3> DEFINE g == mix(n)
               h == mix(n - 1)
    <3>3. /\ g \in DOMAIN f /\ h \in DOMAIN f /\ f[g] # f[h]
          /\ \A m \in DOMAIN g \ {n} : g[m] = h[m]
      <4> HIDE DEF mix
      <4> QED
        BY <2>2, <2>4, <2>5, <3>1, <3>2
    <3> HIDE DEF g, h
    <3> QED
      BY <3>3 DEF DependsOn, f
  <2>7. x[n] = y[n]
    BY <2>2, <2>6, DepsAssumption DEF Access
  <2>8. mix(n) = mix(n - 1)
    BY <1>1, <2>2, <2>7
  <2> QED
    BY <2>2, <2>4, <2>8
<1>5. f[mix(count)] = f[y]
  BY <1>1, <1>4
<1> QED
  BY <1>3, <1>5 DEF f

-----------------------------------------------------------------------------
(* Lists without two grids of a name and type.                             *)

Distinct(gs) ==
    \A g, h \in DOMAIN gs : gs[g].name = gs[h].name /\ gs[g].type = gs[h].type => g = h

DistinctLists == \A list \in GridLists : Distinct(list)

AllDistinct == Distinct(grids)

LEMMA DistinctStep == IndInv /\ AllDistinct /\ [Next]_vars => AllDistinct'
<1> SUFFICES ASSUME IndInv, AllDistinct, [Next]_vars PROVE AllDistinct'
  OBVIOUS
<1>1. CASE grids' = grids
  BY <1>1 DEF AllDistinct, Distinct
<1>2. CASE RegisterVolume /\ Matches(next) = {} /\ grids' = Append(grids, NewGrid(next))
  <2>1. next \in Access /\ grids \in Seq(GridType) /\ Len(grids) \in Nat
    BY <1>2, KernelType DEF RegisterVolume, IndInv, Shape
  <2>2. /\ NewGrid(next) \in GridType
        /\ NewGrid(next).name = kernel.accesses[next].name
        /\ NewGrid(next).type = kernel.accesses[next].type
    BY <2>1, NewGridType DEF IndInv, Shape
  <2> DEFINE new == NewGrid(next)
  <2> HIDE DEF new
  <2>3. /\ DOMAIN grids = 1 .. Len(grids) /\ DOMAIN grids' = 1 .. Len(grids) + 1
        /\ \A h \in DOMAIN grids : grids'[h] = grids[h]
        /\ grids'[Len(grids) + 1] = new
    BY <1>2, <2>1, <2>2 DEF new
  <2>4. \A g \in DOMAIN grids : ~ (grids[g].name = new.name /\ grids[g].type = new.type)
    BY <1>2, <2>2 DEF Matches, SameName, new
  <2> QED
    BY <2>1, <2>3, <2>4 DEF AllDistinct, Distinct
<1>3. CASE \E v \in Voxel : RunVoxel(v)
  <2>1. PICK v \in Voxel : RunVoxel(v)
    BY <1>3
  <2>2. DOMAIN grids' = DOMAIN grids /\ \A g \in DOMAIN grids : SameTopology(grids[g], grids'[g])
    BY <2>1, RunVoxelRuns DEF RunsVoxel
  <2> QED
    BY <2>2 DEF AllDistinct, Distinct, SameTopology
<1> QED
  BY <1>1, <1>2, <1>3
     DEF Next, Step, Configure, Execute, ExecuteSingle, RegisterVolume, BeginRun, NextGrid, Finish,
         Rest, Leave, vars

-----------------------------------------------------------------------------
(* The mapping.                                                            *)

\* The abstract module iterates over the same values.
LEMMA SameIterated ==
    ASSUME NEW grid \in GridType PROVE Promise!Iterated(grid) = IterVoxels(grid)
<1>1. Promise!Held(grid) = Held(grid)
  BY DEF Promise!Held, Held, GridType
<1> QED
  BY <1>1 DEF Promise!Iterated, IterVoxels

\* An access names one grid, the one it is read from.
LEMMA MatchedIs ==
    ASSUME NEW gs \in Seq(GridType), Distinct(gs), NEW i, NEW g \in DOMAIN gs,
           gs[g].name = kernel.accesses[i].name, gs[g].type = kernel.accesses[i].type
    PROVE  Promise!Matched(gs, i) = g
<1>1. Promise!Matches(gs, i) = {g}
  BY DEF Promise!Matches, Distinct
<1>2. g \in Nat
  OBVIOUS
<1> QED
  BY <1>1, <1>2 DEF Promise!Matched, Promise!Min

\* The grids of before are those of the list but for values.
LEMMA BeforeIs ==
    ASSUME IndInv, AllDistinct, phase = "run"
    PROVE  /\ DOMAIN readGrids = Access /\ DOMAIN before = DOMAIN grids /\ Distinct(before)
           /\ \A j \in Access : /\ readGrids[j].grid \in DOMAIN grids
                                /\ Promise!Matched(grids, j) = readGrids[j].grid
                                /\ Promise!Matched(before, j) = readGrids[j].grid
<1>1. /\ Running /\ Registered /\ kernel \in Kernels
      /\ grids \in Seq(GridType) /\ before \in Seq(GridType)
  BY DEF IndInv, Shape
<1>2. DOMAIN readGrids = Access
  BY <1>1, KernelType DEF IndInv, Shape, Running
<1>3. DOMAIN before = DOMAIN grids
  BY <1>1 DEF Running
<1>4. Distinct(before)
  BY <1>1, <1>3 DEF AllDistinct, Distinct, Running, SameTopology
<1>5. ASSUME NEW j \in Access
      PROVE  /\ readGrids[j].grid \in DOMAIN grids
             /\ Promise!Matched(grids, j) = readGrids[j].grid
             /\ Promise!Matched(before, j) = readGrids[j].grid
  <2> DEFINE g == readGrids[j].grid
  <2>1. /\ g \in DOMAIN grids
        /\ grids[g].name = kernel.accesses[j].name /\ grids[g].type = kernel.accesses[j].type
    BY <1>1, <1>2 DEF Registered, Matches, SameName
  <2>2. before[g].name = kernel.accesses[j].name /\ before[g].type = kernel.accesses[j].type
    BY <1>1, <2>1 DEF Running, SameTopology
  <2> HIDE DEF g
  <2>3. Promise!Matched(grids, j) = g
    BY <1>1, <2>1, MatchedIs DEF AllDistinct
  <2>4. Promise!Matched(before, j) = g
    BY <1>1, <1>3, <1>4, <2>1, <2>2, MatchedIs
  <2> QED
    BY <2>1, <2>3, <2>4 DEF g
<1> QED
  BY <1>2, <1>3, <1>4, <1>5

-----------------------------------------------------------------------------
(* What is left to do.                                                     *)

\* The written grids the run is not done with, and what it has to do in each.
Pending ==
    {k \in next .. Len(writeableGrids) :
        \E i \in Access : kernel.accesses[i].writes /\ readGrids[i].grid = writeableGrids[k]}

Left(k) == IterVoxels(grids[writeableGrids[k]]) \ IF k = next THEN visited ELSE {}

LEMMA RemainingIs ==
    /\ phase # "run" => Remaining = {}
    /\ phase = "run" =>
        \A t : t \in Remaining <=> \E k \in Pending : t \in {writeableGrids[k]} \X Left(k)
BY DEF Remaining, Pending, Left

\* All that a kernel assigns.
Assigned ==
    UNION {{Promise!Matched(grids, i)} \X Promise!Iterated(grids[Promise!Matched(grids, i)]) :
              i \in {i \in Promise!Access : kernel.accesses[i].writes}}

LEMMA StartsWithAll ==
    IndInv /\ AllDistinct /\ phase = "run" /\ next = 1 /\ visited = {} => Remaining = Assigned
<1> SUFFICES ASSUME IndInv, AllDistinct, phase = "run", next = 1, visited = {}
             PROVE  Remaining = Assigned
  OBVIOUS
<1>1. Promise!Access = Access
  BY DEF Promise!Access, Access
<1>2. /\ Registered /\ DOMAIN readGrids = Access /\ grids \in Seq(GridType)
      /\ DOMAIN writeableGrids = 1 .. Len(writeableGrids)
  BY BeforeIs DEF IndInv, Shape
<1>3. ASSUME NEW i \in Access
      PROVE  /\ Promise!Matched(grids, i) = readGrids[i].grid
             /\ Promise!Iterated(grids[readGrids[i].grid]) = IterVoxels(grids[readGrids[i].grid])
  <2>1. readGrids[i].grid \in DOMAIN grids /\ Promise!Matched(grids, i) = readGrids[i].grid
    BY BeforeIs
  <2>2. grids[readGrids[i].grid] \in GridType
    BY <1>2, <2>1
  <2> QED
    BY <2>1, <2>2, SameIterated
<1>4. \A k \in Pending : Left(k) = IterVoxels(grids[writeableGrids[k]])
  BY DEF Left
<1>5. ASSUME NEW t PROVE t \in Remaining <=> t \in Assigned
  <2>1. t \in Assigned <=> \E i \in Access :
            kernel.accesses[i].writes /\ t \in {readGrids[i].grid} \X IterVoxels(grids[readGrids[i].grid])
    BY <1>1, <1>3 DEF Assigned
  <2>2. t \in Remaining <=> \E k \in Pending :
            t \in {writeableGrids[k]} \X IterVoxels(grids[writeableGrids[k]])
    BY <1>4, RemainingIs
  <2>3. \A k \in Pending : \E i \in Access :
            kernel.accesses[i].writes /\ readGrids[i].grid = writeableGrids[k]
    BY DEF Pending
  <2>4. \A i \in Access : kernel.accesses[i].writes =>
            \E k \in Pending : writeableGrids[k] = readGrids[i].grid
    <3> SUFFICES ASSUME NEW i \in Access, kernel.accesses[i].writes
                 PROVE  \E k \in Pending : writeableGrids[k] = readGrids[i].grid
      OBVIOUS
    <3>1. PICK k \in DOMAIN writeableGrids : writeableGrids[k] = readGrids[i].grid
      BY <1>2 DEF Registered
    <3> QED
      BY <1>2, <3>1 DEF Pending
  <2> QED
    BY <2>1, <2>2, <2>3, <2>4
<1> QED
  BY <1>5

LEMMA NextStartsWithAll ==
    (IndInv /\ AllDistinct /\ phase = "run" /\ next = 1 /\ visited = {} => Remaining = Assigned)'
BY StartsWithAll, PTL

\* Visiting a voxel takes it off what is left, if its grid is written.
LEMMA VisitsOne ==
    ASSUME IndInv, AllDistinct, NEW v \in Voxel, RunVoxel(v)
    PROVE  /\ kernel.accesses[WriteIndex].writes =>
                /\ <<CurrentGrid, v>> \in Remaining
                /\ Remaining' = Remaining \ {<<CurrentGrid, v>>}
           /\ ~ kernel.accesses[WriteIndex].writes => Remaining' = Remaining
<1>1. /\ phase = "run" /\ phase' = "run" /\ next <= Len(writeableGrids)
      /\ v \in IterVoxels(grids[CurrentGrid]) /\ v \notin visited
      /\ visited' = visited \cup {v}
      /\ UNCHANGED <<kernel, iterator, createMissing, treeExecutionLevel, next, readGrids,
                     writeableGrids, executes, before>>
  BY DEF RunVoxel, executable
<1>2. Registered /\ next \in Nat \ {0} /\ DOMAIN writeableGrids = 1 .. Len(writeableGrids)
  BY DEF IndInv, Shape
<1>3. /\ WriteIndex \in Access /\ readGrids[WriteIndex].grid = CurrentGrid
      /\ CurrentGrid = writeableGrids[next]
      /\ \A i \in Access : readGrids[i].grid = CurrentGrid => i = WriteIndex
  <2>1. WriteIndex \in Access /\ readGrids[WriteIndex].grid = CurrentGrid
    BY <1>1, Current
  <2>2. \A i \in Access : readGrids[i].grid = CurrentGrid => i = WriteIndex
    BY <1>1, <1>2, <2>1, BeforeIs, MatchUnique DEF IndInv, Shape, Registered
  <2> QED
    BY <2>1, <2>2 DEF CurrentGrid
<1>4. Pending' = Pending
  BY <1>1 DEF Pending, Access
<1>5. next \in Pending <=> kernel.accesses[WriteIndex].writes
  BY <1>1, <1>2, <1>3 DEF Pending
<1>6. ASSUME NEW k \in Pending
      PROVE  /\ writeableGrids'[k] = writeableGrids[k]
             /\ k # next => writeableGrids[k] # CurrentGrid /\ Left(k)' = Left(k)
             /\ k = next => Left(k)' = Left(k) \ {v} /\ v \in Left(k)
  <2>1. k \in DOMAIN writeableGrids /\ next \in DOMAIN writeableGrids
    BY <1>1, <1>2 DEF Pending
  <2>2. writeableGrids[k] \in DOMAIN grids
    BY <1>1, <1>2, <2>1, BeforeIs DEF Registered
  <2>3. SameTopology(grids[writeableGrids[k]], grids'[writeableGrids[k]])
    BY <2>2, RunVoxelRuns DEF RunsVoxel
  <2>4. IterVoxels(grids[writeableGrids[k]])' = IterVoxels(grids[writeableGrids[k]])
    BY <1>1, <2>3 DEF IterVoxels, Held, SameTopology
  <2>5. k # next => writeableGrids[k] # CurrentGrid
    BY <1>2, <1>3, <2>1 DEF Registered
  <2> QED
    BY <1>1, <1>3, <2>4, <2>5 DEF Left
<1>7. \A t : t \in Remaining <=> \E k \in Pending : t \in {writeableGrids[k]} \X Left(k)
  BY <1>1, RemainingIs
<1>8. \A t : t \in Remaining' <=> \E k \in Pending : t \in {writeableGrids[k]} \X Left(k)'
  <2>1. \A t : t \in Remaining' <=> \E k \in Pending' : t \in {writeableGrids'[k]} \X Left(k)'
    BY <1>1 DEF Remaining, Pending, Left
  <2> QED
    BY <1>4, <1>6, <2>1
<1>9. CASE kernel.accesses[WriteIndex].writes
  <2>1. <<CurrentGrid, v>> \in Remaining
    BY <1>3, <1>5, <1>6, <1>7, <1>9
  <2>2. ASSUME NEW t PROVE t \in Remaining' <=> t \in Remaining /\ t # <<CurrentGrid, v>>
    <3>1. ASSUME NEW k \in Pending
          PROVE  t \in {writeableGrids[k]} \X Left(k)' <=>
                    t \in {writeableGrids[k]} \X Left(k) /\ t # <<CurrentGrid, v>>
      BY <1>3, <1>6
    <3> QED
      BY <1>7, <1>8, <3>1
  <2> QED
    BY <1>9, <2>1, <2>2
<1>10. CASE ~ kernel.accesses[WriteIndex].writes
  <2>1. \A k \in Pending : Left(k)' = Left(k)
    BY <1>5, <1>6, <1>10
  <2> QED
    BY <1>7, <1>8, <1>10, <2>1
<1> QED
  BY <1>9, <1>10

\* Going on to the next grid leaves nothing behind.
LEMMA NextGridLeavesNothing == ASSUME IndInv, NextGrid PROVE Remaining' = Remaining
<1>1. /\ phase = "run" /\ phase' = "run" /\ next <= Len(writeableGrids) /\ next' = next + 1
      /\ IterVoxels(grids[writeableGrids[next]]) \subseteq visited /\ visited' = {}
      /\ UNCHANGED <<kernel, iterator, createMissing, treeExecutionLevel, grids, readGrids,
                     writeableGrids, before>>
  BY DEF NextGrid, executable, CurrentGrid
<1>2. next \in Nat /\ Len(writeableGrids) \in Nat
  BY DEF IndInv, Shape
<1>3. Left(next) = {}
  BY <1>1 DEF Left
<1>4. /\ \A k \in Pending : k # next => k \in Pending' /\ Left(k)' = Left(k)
      /\ \A k \in Pending' : k \in Pending /\ k # next /\ Left(k)' = Left(k)
  <2>1. /\ \A k \in Pending : k # next => k \in Pending'
        /\ \A k \in Pending' : k \in Pending /\ k # next
    BY <1>1, <1>2 DEF Pending, Access
  <2>2. \A k : k # next => Left(k)' = Left(k)
    <3> SUFFICES ASSUME NEW k, k # next PROVE Left(k)' = Left(k)
      OBVIOUS
    <3>1. IterVoxels(grids[writeableGrids[k]])' = IterVoxels(grids[writeableGrids[k]])
      BY <1>1 DEF IterVoxels, Held
    <3> QED
      BY <1>1, <3>1 DEF Left
  <2> QED
    BY <2>1, <2>2
<1>5. \A t : t \in Remaining <=> \E k \in Pending : t \in {writeableGrids[k]} \X Left(k)
  BY <1>1, RemainingIs
<1>6. \A t : t \in Remaining' <=> \E k \in Pending' : t \in {writeableGrids[k]} \X Left(k)'
  BY <1>1 DEF Remaining, Pending, Left
<1>7. ASSUME NEW t PROVE t \in Remaining' <=> t \in Remaining
  BY <1>3, <1>4, <1>5, <1>6
<1> QED
  BY <1>7

-----------------------------------------------------------------------------
(* Every step is one of the promise's or changes nothing it speaks of.     *)

\* A step that only changes what the promise does not know.
Unseen ==
    UNCHANGED <<kernel, iterator, treeExecutionLevel, grids, before>> /\ Remaining' = Remaining

LEMMA UnseenStutters == Unseen => UNCHANGED Promise!vars
BY DEF Unseen, Promise!vars

\* An execution that ends, or throws, has nothing left.
LEMMA LeaveMaps == ASSUME Remaining = {}, Leave PROVE Promise!End
<1>1. Remaining' = {}
  BY DEF Leave, Remaining
<1> QED
  BY <1>1 DEF Leave, executable, Promise!End

LEMMA BeginMaps ==
    ASSUME IndInv, IndInv', AllDistinct', phase # "run", phase' = "run", next' = 1, visited' = {},
           before' = grids, UNCHANGED <<kernel, iterator, treeExecutionLevel, grids>>
    PROVE  Promise!Begin
<1>1. Remaining = {}
  BY DEF Remaining
<1>2. Remaining' = Assigned'
  BY NextStartsWithAll
<1>3. Assigned' = Assigned
  BY DEF Assigned, Promise!Access, Promise!Matched, Promise!Matches, Promise!Iterated, Promise!Held
<1> QED
  BY <1>1, <1>2, <1>3 DEF Promise!Begin, Assigned

LEMMA RegisterMaps ==
    ASSUME IndInv, RegisterVolume PROVE Unseen \/ Promise!Create \/ Promise!End
<1>1. phase = "register" /\ Remaining = {} /\ next <= Len(kernel.accesses)
  BY DEF RegisterVolume, Remaining
<1>2. ASSUME NEW g, NEW grid, Register(next, g, grid)
      PROVE  /\ UNCHANGED <<kernel, iterator, createMissing, treeExecutionLevel, before>>
             /\ Remaining' = {}
  BY <1>1, <1>2 DEF Register, executable, Remaining
<1>3. CASE UNCHANGED grids /\ Register(next, Min(Matches(next)), grids[Min(Matches(next))])
  BY <1>1, <1>2, <1>3 DEF Unseen
<1>4. CASE /\ grids' = Append(grids, NewGrid(next))
           /\ Register(next, Len(grids) + 1, NewGrid(next))
  <2> DEFINE new == NewGrid(next)
  <2>1. next \in Access /\ grids \in Seq(GridType) /\ kernel \in Kernels
    BY <1>1, KernelType DEF IndInv, Shape
  <2>2. new \in GridType /\ \A v \in Voxel : new.level[v] = -1
    BY <2>1, NewGridType
  <2>3. treeExecutionLevel \in Nat
    BY ParameterAssumption DEF IndInv, Shape
  <2> HIDE DEF new
  <2>4. /\ Len(grids') = Len(grids) + 1 /\ grids'[Len(grids')] = new
        /\ SubSeq(grids', 1, Len(grids)) = grids
    BY <1>4, <2>1, <2>2 DEF new
  <2> QED
    BY <1>1, <1>2, <1>4, <2>2, <2>3, <2>4 DEF Promise!Create, Promise!Held, GridType
<1>5. CASE Leave
  BY <1>1, <1>5, LeaveMaps
<1> QED
  BY <1>3, <1>4, <1>5 DEF RegisterVolume

\* A written voxel has the value that the grids as they were give it.
LEMMA RunVoxelMaps ==
    ASSUME IndInv, AllDistinct, NEW v \in Voxel, RunVoxel(v),
           kernel.accesses[WriteIndex].writes
    PROVE  Promise!Assign(CurrentGrid, v)
<1> DEFINE i == WriteIndex
           loaded == [j \in Access |-> getvoxel(j, v)]
           old(j) == LET grid == before[readGrids[j].grid] IN grid.value[grid.origin[grid.map[v]]]
           olds == [j \in Access |-> old(j)]
<1>1. /\ phase = "run" /\ next <= Len(writeableGrids)
      /\ v \in IterVoxels(grids[CurrentGrid]) \ visited
      /\ UNCHANGED <<kernel, iterator, createMissing, treeExecutionLevel, before>>
  BY DEF RunVoxel, executable
<1>2. i \in Access /\ readGrids[i].grid = CurrentGrid
  BY <1>1, Current
<1>3. /\ \A j \in Access : Promise!Matched(before, j) = readGrids[j].grid
      /\ Promise!Matched(before, i) = CurrentGrid
  BY <1>1, <1>2, BeforeIs
<1>4. loaded \in [Access -> Val]
  BY <1>1, ComputesValue
<1>5. olds \in [Access -> Val]
  <2>1. \A j \in Access : before[readGrids[j].grid] \in GridType
    BY <1>1, BeforeIs DEF IndInv, Shape
  <2> QED
    BY <2>1 DEF GridType
<1>6. \A j \in Access : j \in kernel.deps[i] => loaded[j] = olds[j]
  BY <1>1, ReadsBefore
<1>7. Promise!Computed(before, i, v) = kernel.compute[i][olds]
  BY <1>3 DEF Promise!Computed, Promise!Access, Access
<1>8. kernel.compute[i][loaded] = kernel.compute[i][olds]
  <2> HIDE DEF i, loaded, olds
  <2>1. kernel \in Kernels /\ kernel.accesses[i].writes
    BY DEF IndInv, Shape, i
  <2> QED
    BY <1>2, <1>4, <1>5, <1>6, <2>1, DependenciesDecide
<1>9. grids' = [grids EXCEPT ![CurrentGrid].value[v] = kernel.compute[i][loaded]]
  BY RunVoxelRuns DEF RunsVoxel
<1>10. <<CurrentGrid, v>> \in Remaining /\ Remaining' = Remaining \ {<<CurrentGrid, v>>}
  BY VisitsOne
<1> HIDE DEF i, loaded, olds
<1>11. i \in Promise!Access
  BY <1>2 DEF Promise!Access, Access
<1> QED
  BY <1>1, <1>3, <1>7, <1>8, <1>9, <1>10, <1>11 DEF Promise!Assign

LEMMA StepMaps ==
    ASSUME IndInv, IndInv', AllDistinct, AllDistinct', [Next]_vars
    PROVE  Promise!Next \/ UNCHANGED Promise!vars
<1>1. CASE Configure
  <2>1. Remaining = {} /\ Remaining' = {}
    BY <1>1 DEF Configure, MoreCalls, Remaining
  <2>2. treeExecutionLevel' \in Nat
    BY <1>1, ParameterAssumption DEF Configure
  <2>3. Promise!Configure
    BY <1>1, <2>1, <2>2 DEF Configure, Promise!Configure
  <2> QED
    BY <2>3 DEF Promise!Next
<1>2. CASE Execute
  <2>1. Remaining = {} /\ Remaining' = {}
    BY <1>2 DEF Execute, MoreCalls, Remaining
  <2> QED
    BY <1>2, <2>1, UnseenStutters DEF Execute, executable, Unseen
<1>3. CASE \E g \in DOMAIN grids : ExecuteSingle(g)
  <2>1. PICK g \in DOMAIN grids : ExecuteSingle(g)
    BY <1>3
  <2>2. CASE Leave
    <3>1. Remaining = {}
      BY <2>1 DEF ExecuteSingle, MoreCalls, Remaining
    <3> QED
      BY <2>2, <3>1, LeaveMaps DEF Promise!Next
  <2>3. CASE /\ phase' = "run" /\ next' = 1 /\ before' = grids
             /\ UNCHANGED <<executable, grids, visited>>
    <3>1. phase # "run" /\ visited' = {}
      BY <2>1, <2>3 DEF ExecuteSingle, MoreCalls, IndInv, Idle
    <3>2. Promise!Begin
      BY <2>3, <3>1, BeginMaps DEF executable
    <3> QED
      BY <3>2 DEF Promise!Next
  <2> QED
    BY <2>1, <2>2, <2>3 DEF ExecuteSingle
<1>4. CASE RegisterVolume
  BY <1>4, RegisterMaps, UnseenStutters DEF Promise!Next
<1>5. CASE BeginRun
  <2>1. phase # "run" /\ visited' = {}
    BY <1>5 DEF BeginRun, IndInv, Registering
  <2>2. Promise!Begin
    BY <1>5, <2>1, BeginMaps DEF BeginRun, executable
  <2> QED
    BY <2>2 DEF Promise!Next
<1>6. CASE NextGrid
  BY <1>6, NextGridLeavesNothing, UnseenStutters DEF NextGrid, executable, Unseen
<1>7. CASE Finish
  <2>1. Remaining = {}
    <3>1. Pending = {}
      BY <1>7 DEF Finish, Pending, IndInv, Shape
    <3> QED
      BY <3>1, RemainingIs
  <2> QED
    BY <1>7, <2>1, LeaveMaps DEF Finish, Promise!Next
<1>8. CASE \E v \in Voxel : RunVoxel(v)
  <2>1. PICK v \in Voxel : RunVoxel(v)
    BY <1>8
  <2>2. phase = "run" /\ next <= Len(writeableGrids)
    BY <2>1 DEF RunVoxel
  <2>3. CASE kernel.accesses[WriteIndex].writes
    <3>1. Promise!Assign(CurrentGrid, v)
      BY <2>1, <2>3, RunVoxelMaps
    <3>2. CurrentGrid \in DOMAIN grids /\ v \in DOMAIN grids[CurrentGrid].value
      <4>1. CurrentGrid \in DOMAIN grids /\ grids[CurrentGrid] \in GridType
        BY <2>2, Current DEF IndInv, Shape
      <4> QED
        BY <4>1 DEF GridType
    <3> QED
      BY <3>1, <3>2 DEF Promise!Next
  <2>4. CASE ~ kernel.accesses[WriteIndex].writes
    <3>1. Unseen
      BY <2>1, <2>4, VisitsOne DEF RunVoxel, executable, Unseen
    <3> QED
      BY <3>1, UnseenStutters
  <2> QED
    BY <2>3, <2>4
<1>9. CASE Rest \/ UNCHANGED vars
  <2>1. UNCHANGED <<kernel, iterator, treeExecutionLevel, grids, phase, next, readGrids,
                    writeableGrids, visited, before>>
    BY <1>9 DEF Rest, vars, executable
  <2>2. Pending' = Pending
    BY <2>1 DEF Pending, Access
  <2>3. \A k : Left(k)' = Left(k)
    BY <2>1 DEF Left, IterVoxels, Held
  <2>4. \A t : t \in Remaining' <=> t \in Remaining
    <3>1. /\ phase # "run" => Remaining' = {}
          /\ phase = "run" =>
              \A t : t \in Remaining' <=> \E k \in Pending' : t \in {writeableGrids[k]} \X Left(k)'
      BY <2>1 DEF Remaining, Pending, Left
    <3> QED
      BY <2>2, <2>3, <3>1, RemainingIs
  <2>5. Remaining' = Remaining
    BY <2>4
  <2> QED
    BY <2>1, <2>5, UnseenStutters DEF Unseen
<1> QED
  BY <1>1, <1>2, <1>3, <1>4, <1>5, <1>6, <1>7, <1>8, <1>9 DEF Next, Step

\* VolumeExecutable::execute, on lists without two grids of a name and type, computes
\* every value from the grids as they were when the kernel began.
THEOREM VolumeExecutionImplementsVolumeKernels ==
    ASSUME DistinctLists PROVE Spec => ImplementsVolumeKernels
<1>1. Init => AllDistinct /\ Promise!Init
  BY DistinctLists DEF DistinctLists, AllDistinct, Init, Promise!Init, Remaining
<1>2. IndInv /\ IndInv' /\ AllDistinct /\ AllDistinct' /\ [Next]_vars => [Promise!Next]_(Promise!vars)
  BY StepMaps
<1>3. IndInv /\ AllDistinct /\ [Next]_vars => AllDistinct'
  BY DistinctStep
<1> QED
  BY <1>1, <1>2, <1>3, GridsSound, PTL DEF Spec, ImplementsVolumeKernels, Promise!Spec
=============================================================================
