--------------------------- MODULE PointExecution ---------------------------
(***************************************************************************)
(* PointExecutable::execute (compiler/PointExecutable.cc) on one grid: the *)
(* serial passes over the grid and the two parallel passes over its        *)
(* leaves, with the kernel that codegen/PointComputeGenerator.cc generates *)
(* and the group and string functions it calls (PointFunctions.cc).        *)
(*                                                                         *)
(* The kernel is any kernel: it may edit any group in Editable, in any     *)
(* order and at most MaxEdits times per leaf, and ends with any string and *)
(* any position, if its registry says that it writes them.  The grid has   *)
(* one string attribute, "s".  Points keep their leaf and index when       *)
(* movePoints sorts them into leaves by position.                          *)
(***************************************************************************)
EXTENDS PointLeafLocalData, Integers, FiniteSetsExt

CONSTANTS
    PointCount,     \* the number of points of every leaf, a sequence
    Coord, Origin,  \* world positions, and where the initial points are
    NoGroup,        \* the empty group setting: every point is executed
    Editable,       \* the groups kernels edit
    Registries,     \* the attribute registries of the executables tried
    GridGroups,     \* the groups of the initial grids: a set of maps, group -> points
    GridAttrs,      \* the attributes of the initial grids: name -> type
    TempNames,      \* the names uniqueName tries: __P, __P1, __P2, ...
    MayLeave,       \* whether kernels take points out of the execution group
    MaxReturns,     \* bound: executions that return
    MaxThrows,      \* bound: executions that throw
    MaxEdits,       \* bound: group edits of one leaf in one execution
    IndexWidth      \* the width of point_index, 64 bits in a build

Leaf == 1 .. Len(PointCount)
Point == UNION {{l} \X Points(PointCount[l]) : l \in Leaf}

ASSUME PointCountAssumption == PointCount \in Seq(Nat)
ASSUME IndexWidthAssumption ==
    2^IndexWidth \in Nat /\ \A l \in Leaf : PointCount[l] < 2^IndexWidth
ASSUME GridGroupsAssumption ==
    \A map \in GridGroups : DOMAIN map \subseteq Group /\ \A g \in DOMAIN map : map[g] \subseteq Point
ASSUME EditableAssumption == Editable \subseteq Group /\ NoGroup \notin Group
ASSUME BoundsAssumption == MaxReturns \in Nat /\ MaxThrows \in Nat /\ MaxEdits \in Nat
ASSUME RegistriesAssumption ==
    Registries \subseteq Seq([name : STRING, type : STRING, writes : BOOLEAN])

\* The names are distinct, and more than the user's attributes, those of a
\* registry and one for every throw can take; uniqueName itself never runs out.
ASSUME TempNamesAssumption ==
    /\ TempNames \in Seq(STRING)
    /\ \A i, j \in DOMAIN TempNames : TempNames[i] = TempNames[j] => i = j
    /\ \A i \in DOMAIN TempNames : TempNames[i] # "P"
    /\ \A map \in GridAttrs, reg \in Registries :
        Cardinality({i \in DOMAIN TempNames :
            TempNames[i] \in DOMAIN map \cup {reg[k].name : k \in DOMAIN reg}}) + MaxThrows
        < Len(TempNames)

VARIABLES
    registry, settings,                  \* the executable
    attrs, gridGroups, metadata,         \* the grid: its descriptor,
    member, string, position,            \*   and its points
    phase, next, positionAttribute,      \* execute(): its pass and its locals
    groups, newStrings,
    leafData, temp, pc, index, edits,    \* the parallel passes, per leaf
    returned, threw,                     \* executions so far, by how they ended
    given                                \* history: the attributes the grid came with

executable == <<registry, settings>>
points     == <<member, string, position>>
grid       == <<attrs, gridGroups, metadata, points>>
merged     == <<groups, newStrings>>
leafs      == <<leafData, temp, pc, index, edits>>
locals     == <<next, positionAttribute, merged, leafs>>
history    == <<returned, threw, given>>
vars       == <<executable, grid, phase, locals, history>>

Settings == [group : Group \cup {NoGroup}, createMissing : BOOLEAN, threaded : BOOLEAN]

EmptyString == ""
ASSUME ValueAssumption == EmptyString \in Str /\ Origin \in Coord /\ "s" \in StrArray
RegNames == {registry[i].name : i \in DOMAIN registry}
Accesses(name, type) ==
    {i \in DOMAIN registry : registry[i].name = name /\ registry[i].type = type}
Writes(name, type) == \E i \in Accesses(name, type) : registry[i].writes
UsingPosition == Accesses("P", "vec3f") # {}
UsingGroup == settings.group # NoGroup

\* The points of a leaf that the group filter lets through.
Selected(l) == {p \in Points(PointCount[l]) : UsingGroup => <<l, p>> \in member[settings.group]}

NoLeafData == [l \in Leaf |-> NewLeafData(PointCount[l])]
All(x) == [l \in Leaf |-> x]

Init ==
    /\ registry \in Registries
    /\ settings = [group |-> NoGroup, createMissing |-> TRUE, threaded |-> TRUE]
    /\ attrs \in GridAttrs
    /\ \E map \in GridGroups :
        /\ gridGroups = DOMAIN map
        /\ member = [g \in Group |-> IF g \in DOMAIN map THEN map[g] ELSE {}]
    /\ metadata = {EmptyString}
    /\ string = [q \in Point |-> EmptyString]
    /\ position = [q \in Point |-> Origin]
    /\ phase = "idle" /\ next = 1 /\ positionAttribute = "P"
    /\ groups = {} /\ newStrings = FALSE
    /\ leafData = NoLeafData /\ temp = All(EmptyMap)
    /\ pc = All("wait") /\ index = All(0) /\ edits = All(0)
    /\ returned = 0 /\ threw = 0 /\ given = attrs

-----------------------------------------------------------------------------
(* Between executions.                                                     *)

MoreCalls == phase = "idle" /\ returned < MaxReturns /\ threw < MaxThrows

\* setGroupExecution, setCreateMissing, setGrainSize (0 disables threading).
Configure ==
    /\ MoreCalls
    /\ settings' \in Settings
    /\ UNCHANGED <<registry, grid, phase, locals, history>>

\* execute() of a grid that has a leaf; with none it returns at once.
Execute ==
    /\ MoreCalls
    /\ Leaf # {}
    /\ phase' = "attributes"
    /\ UNCHANGED <<executable, grid, locals, history>>

\* The locals of execute() end with it, by return or by exception.
Leave ==
    /\ phase' = "idle" /\ next' = 1 /\ positionAttribute' = "P"
    /\ groups' = {} /\ newStrings' = FALSE
    /\ leafData' = NoLeafData /\ temp' = All(EmptyMap)
    /\ pc' = All("wait") /\ index' = All(0) /\ edits' = All(0)
    /\ UNCHANGED <<executable, gridGroups, metadata, given>>

Throw == Leave /\ threw' = threw + 1 /\ UNCHANGED <<attrs, points, returned>>

-----------------------------------------------------------------------------
(* Serial passes before the kernel.                                        *)

\* appendMissingAttributes, one attribute of the registry at a time.
AppendAttribute ==
    /\ phase = "attributes" /\ settings.createMissing /\ next <= Len(registry)
    /\ LET r == registry[next] IN
        \/ /\ r.name \in DOMAIN attrs /\ attrs[r.name] # r.type
           /\ Throw
        \/ /\ r.name \in DOMAIN attrs => attrs[r.name] = r.type
           /\ attrs' = Put(attrs, r.name, r.type)
           /\ next' = next + 1
           /\ UNCHANGED <<executable, gridGroups, metadata, points, phase,
                          positionAttribute, merged, leafs, history>>

\* checkAttributesExist: the names, not their types.
MissingAttribute ==
    /\ phase = "attributes" /\ ~ settings.createMissing
    /\ ~ RegNames \subseteq DOMAIN attrs
    /\ Throw

\* Fault: a name that a vec3f has is taken for that of a temporary left behind.
uniqueNameReusing ==
    TempNames[Min({i \in DOMAIN TempNames :
        TempNames[i] \in DOMAIN attrs => attrs[TempNames[i]] = "vec3f"})]

\* Descriptor::uniqueName: the first of __P, __P1, __P2, ... not in use.
uniqueName == TempNames[Min({i \in DOMAIN TempNames : TempNames[i] \notin DOMAIN attrs})]

\* The temporary world position attribute, if P is accessed.
AppendTemp ==
    /\ phase = "attributes"
    /\ IF settings.createMissing THEN next = Len(registry) + 1 ELSE RegNames \subseteq DOMAIN attrs
    /\ phase' = "lookup"
    /\ positionAttribute' = IF UsingPosition THEN uniqueName ELSE "P"
    /\ attrs' = IF UsingPosition THEN Put(attrs, uniqueName, "vec3f") ELSE attrs
    /\ UNCHANGED <<executable, gridGroups, metadata, points, next, merged, leafs, history>>

\* The index of the execution group, and the address of the kernel, which is
\* always there: Compiler::compile throws when a function has no address.
HasGroup == UsingGroup => settings.group \in gridGroups

Lookup ==
    /\ phase = "lookup"
    /\ \/ ~ HasGroup /\ Throw
       \/ /\ HasGroup
          /\ phase' = "kernel"
          /\ UNCHANGED <<executable, grid, locals, history>>

-----------------------------------------------------------------------------
(* The kernel, over all leaves in parallel or one leaf after the other.    *)

InTurn(l) == settings.threaded \/ \A k \in 1 .. l - 1 : pc[k] = "done"

\* Fault: the loop goes on with the index it has tested.
FollowingSame(l) ==
    IF UsingGroup THEN {p \in Selected(l) : p > index[l]}
    ELSE IF index[l] < (PointCount[l] - 1) % 2^IndexWidth THEN {index[l]} ELSE {}

\* Fault: the range loop ends one point early.
FollowingButLast(l) ==
    IF UsingGroup THEN {p \in Selected(l) : p > index[l]}
    ELSE IF index[l] + 1 < (PointCount[l] - 1) % 2^IndexWidth THEN {index[l] + 1} ELSE {}

\* The points left after the current one.  The range kernel tests, after a
\* point, whether its index is less than the count minus one, unsigned; the
\* group iterator advances to the next member.
Following(l) ==
    IF UsingGroup THEN {p \in Selected(l) : p > index[l]}
    ELSE IF index[l] < (PointCount[l] - 1) % 2^IndexWidth THEN {index[l] + 1} ELSE {}

\* The handle of an attribute that has another type cannot be bound: only
\* checkAttributesExist lets such an attribute through.
HandleType(r) == attrs[IF r.name = "P" THEN positionAttribute ELSE r.name]
BindFails == \E i \in DOMAIN registry : HandleType(registry[i]) # registry[i].type

\* Fault: no test for an empty leaf.
StartSetUntested(l) == IF UsingGroup THEN Selected(l) ELSE {0}

\* The first points: all of them from 0 on, or those in the group; none for an
\* empty leaf, which the range kernel would overrun.
StartSet(l) == IF UsingGroup THEN Selected(l) ELSE IF PointCount[l] > 0 THEN {0} ELSE {}

OpenLeaf(l) ==
    /\ phase = "kernel" /\ pc[l] = "wait" /\ InTurn(l)
    /\ \/ BindFails /\ Throw
       \/ /\ ~ BindFails
          /\ leafData' = [leafData EXCEPT ![l] = NewLeafData(PointCount[l])]
          /\ temp' = IF UsingPosition
                     THEN [temp EXCEPT ![l] = [p \in Selected(l) |-> position[<<l, p>>]]]
                     ELSE temp
          /\ IF StartSet(l) = {}
             THEN pc' = [pc EXCEPT ![l] = "done"] /\ UNCHANGED index
             ELSE pc' = [pc EXCEPT ![l] = "run"] /\ index' = [index EXCEPT ![l] = Min(StartSet(l))]
          /\ UNCHANGED <<executable, grid, phase, next, positionAttribute, merged, edits, history>>

\* Fault: the groups new in this leaf are not looked up.
ingroupOfGrid(l, g) == g \in gridGroups /\ <<l, index[l]>> \in member[g]

\* ingroup of the current point; the vector of group handles has no data when
\* the grid has no group.
ingroup(l, g) ==
    IF gridGroups = {} THEN FALSE
    ELSE IF g \in gridGroups THEN <<l, index[l]>> \in member[g]
    ELSE hasGroup(leafData[l], g) /\ GetBit(leafData[l], g, index[l])

\* addtogroup and removefromgroup of the current point.
EditGroup(l, g, flag) ==
    /\ pc[l] = "run" /\ phase = "kernel" /\ edits[l] < MaxEdits
    /\ g = settings.group => flag \/ MayLeave
    /\ edits' = [edits EXCEPT ![l] = @ + 1]
    /\ \/ /\ g \in gridGroups
          /\ member' = [member EXCEPT ![g] =
                IF flag THEN @ \cup {<<l, index[l]>>} ELSE @ \ {<<l, index[l]>>}]
          /\ UNCHANGED leafData
       \/ /\ g \notin gridGroups
          /\ flag \/ hasGroup(leafData[l], g)
          /\ leafData' = [leafData EXCEPT ![l] = SetBit(getOrInsert(@, g), g, index[l], flag)]
          /\ UNCHANGED member
    /\ UNCHANGED <<executable, attrs, gridGroups, metadata, string, position, phase, next,
                   positionAttribute, merged, temp, pc, index, history>>

\* setattribstr of the current point, as a pair: the grid's strings and the
\* leaf's data after the call.
SetAttribStr(l, s) ==
    IF s \in metadata
    THEN <<[string EXCEPT ![<<l, index[l]>>] = s], removeNewStringData(leafData[l], "s", index[l])>>
    ELSE <<string, setNewStringData(leafData[l], "s", index[l], s)>>

\* The kernel of a point returns: the attributes it writes are stored, and the
\* loop goes on or the leaf is compacted and done.  A position attribute that
\* is only read is collapsed with the leaf.
ReturnPoint(l) ==
    /\ pc[l] = "run" /\ phase = "kernel"
    /\ \E set \in IF Writes("s", "string") THEN {SetAttribStr(l, s) : s \in Str} ELSE {<<string, leafData[l]>>} :
        /\ string' = set[1]
        /\ leafData' = [leafData EXCEPT ![l] = IF Following(l) = {} THEN compact(set[2]) ELSE set[2]]
    /\ \/ Writes("P", "vec3f") /\ \E x \in Coord : temp' = [temp EXCEPT ![l][index[l]] = x]
       \/ ~ Writes("P", "vec3f") /\ temp' = IF Following(l) = {} THEN [temp EXCEPT ![l] = EmptyMap] ELSE temp
    /\ IF Following(l) = {}
       THEN pc' = [pc EXCEPT ![l] = "done"] /\ UNCHANGED index
       ELSE index' = [index EXCEPT ![l] = Min(Following(l))] /\ UNCHANGED pc
    /\ UNCHANGED <<executable, attrs, gridGroups, metadata, member, position, phase, next,
                   positionAttribute, merged, edits, history>>

-----------------------------------------------------------------------------
(* After the kernel: new groups and strings, positions, temporaries.       *)

AllDone == \A l \in Leaf : pc[l] = "done"

\* Fault: each leaf overwrites whether there are new strings.
MergeLastFlag ==
    /\ phase = "kernel" /\ AllDone
    /\ groups' = UNION {getGroups(leafData[l]) : l \in Leaf}
    /\ metadata' = metadata \cup UNION {NewStringSet(leafData[l]) : l \in Leaf}
    /\ newStrings' = HasNewStrings(leafData[Len(PointCount)])
    /\ phase' = "append"
    /\ UNCHANGED <<executable, attrs, gridGroups, points, next, positionAttribute, leafs, history>>

\* The union of all new groups, and all new strings into the metadata.
Merge ==
    /\ phase = "kernel" /\ AllDone
    /\ groups' = UNION {getGroups(leafData[l]) : l \in Leaf}
    /\ metadata' = metadata \cup UNION {NewStringSet(leafData[l]) : l \in Leaf}
    /\ newStrings' = \E l \in Leaf : HasNewStrings(leafData[l])
    /\ phase' = "append"
    /\ UNCHANGED <<executable, attrs, gridGroups, points, next, positionAttribute, leafs, history>>

AppendGroups ==
    /\ phase = "append"
    /\ gridGroups' = gridGroups \cup groups
    /\ pc' = All("wait")
    /\ phase' = "copy"
    /\ UNCHANGED <<executable, attrs, metadata, points, next, positionAttribute, merged,
                   leafData, temp, index, edits, history>>

\* Fault: a uniform array covers one point too many.
CopiedGroupTooFar(l, g) ==
    IF IsUniform(leafData[l], g)
    THEN IF GetBit(leafData[l], g, 0) THEN {l} \X (0 .. PointCount[l]) ELSE {}
    ELSE {<<l, p>> : p \in {p \in Points(PointCount[l]) : GetBit(leafData[l], g, p)}}

\* The points of leaf l that a new group holds once copied: a uniform array is
\* copied as one value, that of point 0.
CopiedGroup(l, g) ==
    IF IsUniform(leafData[l], g)
    THEN IF GetBit(leafData[l], g, 0) THEN {l} \X Points(PointCount[l]) ELSE {}
    ELSE {<<l, p>> : p \in {p \in Points(PointCount[l]) : GetBit(leafData[l], g, p)}}

\* A string can be set only if the metadata holds it.
Resolvable(l) == NewStringSet(leafData[l]) \subseteq metadata

CopyLeaf(l) ==
    /\ phase = "copy" /\ pc[l] = "wait" /\ InTurn(l)
    /\ newStrings => Resolvable(l)
    /\ member' = [g \in Group |->
        IF g \in groups /\ hasGroup(leafData[l], g)
        THEN {q \in member[g] : q[1] # l} \cup CopiedGroup(l, g) ELSE member[g]]
    /\ string' = [q \in Point |->
        IF newStrings /\ q[1] = l THEN StringOf(leafData[l], "s", q[2], string[q]) ELSE string[q]]
    /\ pc' = [pc EXCEPT ![l] = "done"]
    /\ UNCHANGED <<executable, attrs, gridGroups, metadata, position, phase, next,
                   positionAttribute, merged, leafData, temp, index, edits, history>>

\* Fault: a temporary is sorted back only if there is no execution group.
MovePointsOfAll ==
    /\ phase = "copy" /\ AllDone
    /\ position' = [q \in Point |->
        IF Writes("P", "vec3f") /\ ~ UsingGroup THEN temp[q[1]][q[2]] ELSE position[q]]
    /\ phase' = "drop"
    /\ UNCHANGED <<executable, attrs, gridGroups, metadata, member, string, locals, history>>

\* movePoints: the points the filter lets through now take the position stored
\* in the temporary attribute, if the kernel writes P.
MovePoints ==
    /\ phase = "copy" /\ AllDone
    /\ position' = [q \in Point |->
        IF Writes("P", "vec3f") /\ q[2] \in Selected(q[1]) THEN temp[q[1]][q[2]] ELSE position[q]]
    /\ phase' = "drop"
    /\ UNCHANGED <<executable, attrs, gridGroups, metadata, member, string, locals, history>>

\* Fault: the temporary is dropped only if positions have moved.
DropTempIfWritten ==
    /\ phase = "drop"
    /\ attrs' = IF Writes("P", "vec3f")
                THEN [n \in DOMAIN attrs \ {positionAttribute} |-> attrs[n]] ELSE attrs
    /\ Leave
    /\ returned' = returned + 1
    /\ UNCHANGED <<points, threw>>

DropTemp ==
    /\ phase = "drop"
    /\ attrs' = IF UsingPosition
                THEN [n \in DOMAIN attrs \ {positionAttribute} |-> attrs[n]] ELSE attrs
    /\ Leave
    /\ returned' = returned + 1
    /\ UNCHANGED <<points, threw>>

-----------------------------------------------------------------------------
LeafStep(l) ==
    \/ OpenLeaf(l) \/ ReturnPoint(l) \/ CopyLeaf(l)
    \/ \E g \in Editable, flag \in BOOLEAN : EditGroup(l, g, flag)

Step ==
    \/ AppendAttribute \/ MissingAttribute \/ AppendTemp \/ Lookup
    \/ Merge \/ AppendGroups \/ MovePoints \/ DropTemp
    \/ \E l \in Leaf : LeafStep(l)

\* The bounds are reached: the caller makes no further call.
Rest == phase = "idle" /\ ~ MoreCalls /\ UNCHANGED vars

Next == Configure \/ Execute \/ Step \/ Rest

\* An execution that has begun is not left half way: the thread of the caller
\* and those of the pool keep running.
Spec == Init /\ [][Next]_vars /\ WF_vars(Step)

-----------------------------------------------------------------------------
(* Properties.                                                             *)

TypeOK ==
    /\ settings \in Settings
    /\ gridGroups \subseteq Group
    /\ metadata \subseteq Str
    /\ member \in [Group -> SUBSET Point]
    /\ string \in [Point -> Str]
    /\ position \in [Point -> Coord]
    /\ phase \in {"idle", "attributes", "lookup", "kernel", "append", "copy", "drop"}
    /\ next \in 1 .. Len(registry) + 1
    /\ positionAttribute \in {"P"} \cup {TempNames[i] : i \in DOMAIN TempNames}
    /\ groups \subseteq Group /\ newStrings \in BOOLEAN
    /\ pc \in [Leaf -> {"wait", "run", "done"}]
    /\ edits \in [Leaf -> 0 .. MaxEdits]
    /\ returned \in 0 .. MaxReturns /\ threw \in 0 .. MaxThrows

\* The generated loop never runs the kernel on a point that is not there, not
\* even on an empty leaf, where its unsigned bound wraps around.
KernelInBounds ==
    \A l \in Leaf : phase = "kernel" /\ pc[l] = "run" => index[l] \in Points(PointCount[l])

\* The membership and the strings a kernel would see, were it to look now.
Visible(g) ==
    {q \in Point : IF hasGroup(leafData[q[1]], g) THEN GetBit(leafData[q[1]], g, q[2])
                                                  ELSE q \in member[g]}
VisibleString(q) == StringOf(leafData[q[1]], "s", q[2], string[q])
VisiblePosition(q) ==
    IF Writes("P", "vec3f") /\ phase # "drop" /\ q[2] \in DOMAIN temp[q[1]]
    THEN temp[q[1]][q[2]] ELSE position[q]

\* ingroup() tells a kernel what the edits before it left, whether the group is
\* on the grid or new.
IngroupAgrees ==
    \A l \in Leaf : phase = "kernel" /\ pc[l] = "run" =>
        \A g \in Group : ingroup(l, g) <=> <<l, index[l]>> \in Visible(g)

\* Every new string of every leaf is in the metadata before any leaf is copied,
\* so that StringAttributeWriteHandle::set never throws half way through.
StringsResolvable ==
    phase = "copy" => \A l \in Leaf : NewStringSet(leafData[l]) # {} => newStrings /\ Resolvable(l)

\* The attributes that are not temporaries: those the grid came with, and those
\* of the registry.
Kept == DOMAIN given \cup RegNames

\* Between executions no more temporary position attributes are on the grid than
\* executions threw: one that returns drops its own.
TempsBalanced == phase = "idle" => Cardinality(DOMAIN attrs \ Kept) <= threw

\* No attribute that the grid came with, or that was appended for the registry, is
\* dropped or retyped, whatever its name and type: a vec3f called __P, which could
\* be taken for a temporary, no more than another.
UserAttrsKept ==
    [][\A n \in DOMAIN attrs \cap Kept : n \in DOMAIN attrs' /\ attrs'[n] = attrs[n]]_vars

Pending(l) ==
    IF pc[l] = "wait" THEN Selected(l)
    ELSE IF pc[l] = "run" THEN {index[l]} \cup {p \in Selected(l) : p > index[l]} ELSE {}

Kernels == INSTANCE PointKernels WITH
    groups   <- gridGroups \cup UNION {getGroups(leafData[l]) : l \in Leaf},
    member   <- [g \in Group |-> Visible(g)],
    string   <- [q \in Point |-> VisibleString(q)],
    position <- [q \in Point |-> VisiblePosition(q)],
    todo     <- IF phase = "kernel" THEN UNION {{l} \X Pending(l) : l \in Leaf} ELSE {},
    started  <- \/ phase \in {"append", "copy", "drop"}
                \/ phase = "kernel" /\ \E l \in Leaf : pc[l] # "wait"

\* The passes together run every selected point once, keep its edits, and
\* change nothing else; an execution that throws has changed no point.
ImplementsPointKernels == Kernels!Spec

\* The sort that follows the kernel leaves every point where its kernel put it.
MoveKeepsPositions ==
    [][phase = "copy" /\ phase' = "drop" =>
        \A q \in Point : VisiblePosition(q)' = VisiblePosition(q)]_vars

\* An execution ends, by return or by exception.
Termination == phase # "idle" ~> phase = "idle"
=============================================================================
