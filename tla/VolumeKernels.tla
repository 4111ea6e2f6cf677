---------------------------- MODULE VolumeKernels ---------------------------
(***************************************************************************)
(* What VolumeExecutable::execute promises of a list of grids: every value *)
(* the kernel assigns is computed from the values all grids had before the *)
(* execution began, in whatever order grids and voxels are visited; only   *)
(* the iterated values of assigned grids change, and no grid's topology:   *)
(* a tile that is iterated over is still a tile, of another value.         *)
(*                                                                         *)
(* A grid is a record: its name and type, its transform as the map from    *)
(* world positions to its voxels; for each voxel the level of the node     *)
(* that holds its value (0 for a leaf, -1 for the background) and the      *)
(* origin of the tile it lies in, itself in a leaf; the values and the     *)
(* active state of voxels and tiles, at their origins.  A kernel is a      *)
(* record:                                                                 *)
(* accesses, the registry's list of [name, type, writes], and compute, for *)
(* each access the value it has when the kernel ends, as a function of the *)
(* values of all accesses when it begins.                                  *)
(***************************************************************************)
EXTENDS Integers, FiniteSetsExt, Sequences

VARIABLES kernel,   \* the kernel executed
          iterator, \* "ON", "OFF" or "ALL"
          level,    \* the level of the values it runs over
          grids,    \* the list of grids
          before,   \* the list as the execution found it
          todo      \* the voxels <<g, v>> still to be assigned

vars == <<kernel, iterator, level, grids, before, todo>>

Access == DOMAIN kernel.accesses

\* The grid an access names: the first of that name and type.
Matches(gs, i) ==
    {g \in DOMAIN gs : gs[g].name = kernel.accesses[i].name /\ gs[g].type = kernel.accesses[i].type}
Matched(gs, i) == Min(Matches(gs, i))

Held(grid) ==
    {v \in DOMAIN grid.level : grid.level[v] = level /\ grid.origin[v] = v}

Iterated(grid) ==
    CASE iterator = "ON"  -> Held(grid) \cap grid.active
      [] iterator = "OFF" -> Held(grid) \ grid.active
      [] iterator = "ALL" -> Held(grid)

\* The value access i has when the kernel has run at a world position.
Computed(gs, i, pos) ==
    kernel.compute[i][[j \in Access |-> LET grid == gs[Matched(gs, j)] IN grid.value[grid.origin[grid.map[pos]]]]]

Init == before = <<>> /\ todo = {}

\* A missing grid is created without a node, at the end of the list.
Create ==
    /\ todo = {}
    /\ Len(grids') = Len(grids) + 1
    /\ SubSeq(grids', 1, Len(grids)) = grids
    /\ Held(grids'[Len(grids')]) = {}
    /\ UNCHANGED <<kernel, iterator, level, before, todo>>

\* On all grids of the list, or on a single one.
Begin ==
    /\ todo = {}
    /\ before' = grids
    /\ todo' = UNION {{Matched(grids, i)} \X Iterated(grids[Matched(grids, i)]) :
                        i \in {i \in Access : kernel.accesses[i].writes}}
    /\ UNCHANGED <<kernel, iterator, level, grids>>

Assign(g, v) ==
    /\ <<g, v>> \in todo
    /\ todo' = todo \ {<<g, v>>}
    /\ \E i \in Access :
        /\ Matched(before, i) = g
        /\ grids' = [grids EXCEPT ![g].value[v] = Computed(before, i, v)]
    /\ UNCHANGED <<kernel, iterator, level, before>>

End == todo = {} /\ before' = <<>> /\ UNCHANGED <<kernel, iterator, level, grids, todo>>

Configure ==
    /\ todo = {}
    /\ iterator' \in {"ON", "OFF", "ALL"} /\ level' \in Nat
    /\ UNCHANGED <<kernel, grids, before, todo>>

Next ==
    \/ Create \/ Begin \/ End \/ Configure
    \/ \E g \in DOMAIN grids : \E v \in DOMAIN grids[g].value : Assign(g, v)

Spec == Init /\ [][Next]_vars
=============================================================================
