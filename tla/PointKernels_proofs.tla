------------------------- MODULE PointKernels_proofs -------------------------
(***************************************************************************)
(* PointExecution implements PointKernels: the passes of                   *)
(* PointExecutable::execute together run the kernel once over each point   *)
(* of the execution group and change no other point, if kernels leave      *)
(* their points in that group.                                             *)
(***************************************************************************)
EXTENDS PointExecution_proofs

-----------------------------------------------------------------------------
(* What the refinement needs besides the invariants of the passes.         *)

\* No leaf that is still to be opened has any data, none is opened if a handle
\* cannot be bound, and an execution that has begun has a leaf.
Unopened ==
    /\ phase \in Before \cup {"kernel"} => \A l \in Leaf : pc[l] = "wait" =>
            leafData[l] = NewLeafData(PointCount[l]) /\ temp[l] = EmptyMap
    /\ phase = "kernel" /\ BindFails => \A l \in Leaf : pc[l] = "wait"
    /\ phase # "idle" => Leaf # {}

\* The grid's groups and strings are what the leaf's data says.
Copied(l) ==
    /\ \A g \in getGroups(leafData[l]), p \in Points(PointCount[l]) :
            GetBit(leafData[l], g, p) <=> <<l, p>> \in member[g]
    /\ \A p \in Points(PointCount[l]) :
            StringOf(leafData[l], "s", p, string[<<l, p>>]) = string[<<l, p>>]

\* All leaves are run before they are merged, and copied before they are dropped.
Handed ==
    /\ phase \in {"append", "drop"} => AllDone
    /\ phase \in {"append", "copy"} => groups = UNION {getGroups(leafData[l]) : l \in Leaf}
    /\ phase = "drop" => \A l \in Leaf : getGroups(leafData[l]) \subseteq gridGroups
    /\ phase \in {"copy", "drop"} => \A l \in Leaf : pc[l] = "done" => Copied(l)

RefInv == IndInv /\ Covered /\ FilterKept /\ Values /\ Unopened /\ Handed

LEMMA InitHanded == Init => Unopened /\ Handed
<1> SUFFICES ASSUME Init PROVE Unopened /\ Handed
  OBVIOUS
<1>1. /\ phase = "idle" /\ leafData = NoLeafData /\ temp = [l \in Leaf |-> EmptyMap]
  BY DEF Init, All
<1> QED
  BY <1>1 DEF Unopened, Handed, NoLeafData

\* The end of an execution forgets its locals.
LEMMA LeaveHanded == ASSUME Leave PROVE Unopened' /\ Handed'
<1>1. phase' = "idle" /\ leafData' = NoLeafData /\ temp' = [l \in Leaf |-> EmptyMap]
  BY DEF Leave, All
<1> QED
  BY <1>1 DEF Unopened, Handed, NoLeafData

\* The steps between executions and the serial passes before the kernel.
LEMMA QuietHanded ==
    ASSUME RefInv, UNCHANGED <<leafData, temp, pc, string, position>>,
           phase \in Before, phase' \in Before \cup {"kernel"}, Leaf # {} \/ phase' = "idle"
    PROVE  Unopened' /\ Handed'
<1>1. \A l \in Leaf : pc[l] = "wait"
  BY DEF RefInv, IndInv, LoopSound
<1>2. Unopened'
  BY <1>1 DEF RefInv, Unopened
<1>3. Handed'
  BY DEF RefInv, Handed, Before
<1> QED
  BY <1>2, <1>3

\* The rest of the serial passes: nothing the leaves hold changes.
LEMMA IdleHanded == ASSUME RefInv, UNCHANGED vars PROVE Unopened' /\ Handed'
<1> USE DEF vars, executable, points, grid, merged, leafs, locals, history
<1>1. BindFails' = BindFails /\ AllDone' = AllDone /\ \A l \in Leaf : Copied(l)' = Copied(l)
  BY DEF BindFails, HandleType, AllDone, Copied, getGroups, GetBit, StringOf, HasNewString
<1> QED
  BY <1>1 DEF RefInv, Unopened, Handed, getGroups

-----------------------------------------------------------------------------
(* The parallel passes.                                                    *)

LEMMA OpenLeafHanded ==
    ASSUME RefInv, NEW l \in Leaf, OpenLeaf(l) PROVE Unopened' /\ Handed'
<1>1. CASE BindFails /\ Throw
  BY <1>1, LeaveHanded DEF Throw, RefInv
<1>2. CASE ~ BindFails
  <2>1. /\ phase = "kernel" /\ phase' = "kernel"
        /\ UNCHANGED <<registry, attrs, positionAttribute, string, position>>
        /\ leafData' = [leafData EXCEPT ![l] = NewLeafData(PointCount[l])]
        /\ temp' = IF UsingPosition
                   THEN [temp EXCEPT ![l] = [p \in Selected(l) |-> position[<<l, p>>]]] ELSE temp
        /\ pc' = [pc EXCEPT ![l] = "done"] \/ pc' = [pc EXCEPT ![l] = "run"]
    BY <1>2 DEF OpenLeaf, grid, points, executable
  <2>2. BindFails' = BindFails
    BY <2>1 DEF BindFails, HandleType
  <2>3. \A k \in Leaf : k # l => leafData'[k] = leafData[k] /\ temp'[k] = temp[k] /\ pc'[k] = pc[k]
    BY <2>1 DEF RefInv, IndInv, Shape, Covered
  <2>4. pc'[l] # "wait"
    BY <2>1 DEF RefInv, IndInv, Shape
  <2>5. Unopened'
    BY <1>2, <2>1, <2>2, <2>3, <2>4 DEF RefInv, Unopened
  <2>6. Handed'
    BY <2>1, <2>3 DEF RefInv, Handed
  <2> QED
    BY <2>5, <2>6
<1> QED
  BY <1>1, <1>2 DEF OpenLeaf

LEMMA EditGroupHanded ==
    ASSUME RefInv, NEW l \in Leaf, NEW g \in Editable, NEW flag \in BOOLEAN, EditGroup(l, g, flag)
    PROVE  Unopened' /\ Handed'
<1>1. /\ phase = "kernel" /\ phase' = "kernel" /\ pc[l] = "run"
      /\ UNCHANGED <<registry, attrs, positionAttribute, string, position, temp, pc>>
      /\ leafData' = leafData \/ \E e : leafData' = [leafData EXCEPT ![l] = e]
  BY DEF EditGroup, executable
<1>2. \A k \in Leaf : k # l => leafData'[k] = leafData[k]
  BY <1>1 DEF RefInv, IndInv, Shape
<1>3. BindFails' = BindFails
  BY <1>1 DEF BindFails, HandleType
<1> QED
  BY <1>1, <1>2, <1>3 DEF RefInv, Unopened, Handed

LEMMA ReturnPointHanded ==
    ASSUME RefInv, NEW l \in Leaf, ReturnPoint(l) PROVE Unopened' /\ Handed'
<1>1. /\ phase = "kernel" /\ phase' = "kernel" /\ pc[l] = "run"
      /\ UNCHANGED <<registry, attrs, positionAttribute, position>>
      /\ \E e : leafData' = [leafData EXCEPT ![l] = e]
      /\ \/ \E x \in Coord : temp' = [temp EXCEPT ![l][index[l]] = x]
         \/ temp' = [temp EXCEPT ![l] = EmptyMap] \/ temp' = temp
      /\ pc' = [pc EXCEPT ![l] = "done"] \/ pc' = pc
  <2>1. PICK set : leafData' = [leafData EXCEPT ![l] = IF Following(l) = {} THEN compact(set[2]) ELSE set[2]]
    BY DEF ReturnPoint
  <2>2. \E e : leafData' = [leafData EXCEPT ![l] = e]
    BY <2>1
  <2>3. /\ \/ \E x \in Coord : temp' = [temp EXCEPT ![l][index[l]] = x]
           \/ temp' = [temp EXCEPT ![l] = EmptyMap] \/ temp' = temp
        /\ pc' = [pc EXCEPT ![l] = "done"] \/ pc' = pc
    BY DEF ReturnPoint
  <2>4. /\ phase = "kernel" /\ phase' = "kernel" /\ pc[l] = "run"
        /\ UNCHANGED <<registry, attrs, positionAttribute, position>>
    BY DEF ReturnPoint, executable
  <2> QED
    BY <2>2, <2>3, <2>4
<1>2. \A k \in Leaf : k # l => leafData'[k] = leafData[k] /\ temp'[k] = temp[k] /\ pc'[k] = pc[k]
  BY <1>1 DEF RefInv, IndInv, Shape, Covered
<1>3. BindFails' = BindFails
  BY <1>1 DEF BindFails, HandleType
<1>4. pc'[l] # "wait"
  BY <1>1 DEF RefInv, IndInv, Shape
<1>5. Unopened'
  BY <1>1, <1>2, <1>3, <1>4 DEF RefInv, Unopened
<1>6. Handed'
  BY <1>1, <1>2 DEF RefInv, Handed
<1> QED
  BY <1>5, <1>6

\* Copying the arrays of a leaf gives each new group the points whose bit is on,
\* whether the array is uniform or not.
LEMMA CopyIsExact ==
    ASSUME NEW n, NEW d, SoundData(d, n), NEW g \in getGroups(d), NEW p \in Points(n), n \in Nat
    PROVE  GetBit(d, g, p) <=> (IF IsUniform(d, g) THEN GetBit(d, g, 0) ELSE GetBit(d, g, p))
<1>1. 0 \in Points(n) /\ n = d.count
  BY DEF SoundData, Points
<1>2. d.handles[g].array \in DOMAIN d.arrays /\ UniformFlags(d)
  BY DEF SoundData, IsLeafData, GroupsSound
<1> QED
  BY <1>1, <1>2 DEF IsUniform, GetBit, UniformFlags

LEMMA CopyLeafHanded ==
    ASSUME RefInv, NEW l \in Leaf, CopyLeaf(l) PROVE Unopened' /\ Handed'
<1>1. /\ phase = "copy" /\ phase' = "copy"
      /\ UNCHANGED <<gridGroups, groups, leafData, temp, position>>
      /\ pc' = [pc EXCEPT ![l] = "done"]
      /\ member' = [g \in Group |->
            IF g \in groups /\ hasGroup(leafData[l], g)
            THEN {q \in member[g] : q[1] # l} \cup CopiedGroup(l, g) ELSE member[g]]
      /\ string' = [q \in Point |->
            IF newStrings /\ q[1] = l THEN StringOf(leafData[l], "s", q[2], string[q]) ELSE string[q]]
  BY DEF CopyLeaf, merged
<1>2. Unopened'
  BY <1>1 DEF RefInv, Unopened, Before
<1>3. \A k \in Leaf : SoundData(leafData[k], PointCount[k]) /\ getGroups(leafData[k]) \subseteq Group
  BY DEF RefInv, IndInv, Shape
<1>4. \A k \in Leaf : \A p \in Points(PointCount[k]) : <<k, p>> \in Point
  BY DEF Point
<1>5. Copied(l)'
  <2>1. ASSUME NEW g \in getGroups(leafData[l]), NEW p \in Points(PointCount[l])
        PROVE  GetBit(leafData[l], g, p) <=> <<l, p>> \in member'[g]
    <3>1. g \in groups /\ g \in Group /\ hasGroup(leafData[l], g)
      BY <1>1, <1>3, <2>1 DEF RefInv, Handed, hasGroup, getGroups
    <3>2. <<l, p>> \in member'[g] <=> <<l, p>> \in CopiedGroup(l, g)
      BY <1>1, <3>1
    <3>3. <<l, p>> \in CopiedGroup(l, g) <=>
            (IF IsUniform(leafData[l], g) THEN GetBit(leafData[l], g, 0) ELSE GetBit(leafData[l], g, p))
      BY <2>1 DEF CopiedGroup
    <3> QED
      BY <1>3, <2>1, <3>2, <3>3, CopyIsExact, CountIsNat
  <2>2. ASSUME NEW p \in Points(PointCount[l])
        PROVE  StringOf(leafData[l], "s", p, string'[<<l, p>>]) = string'[<<l, p>>]
    <3>1. string'[<<l, p>>] =
            IF newStrings THEN StringOf(leafData[l], "s", p, string[<<l, p>>]) ELSE string[<<l, p>>]
      BY <1>1, <1>4
    <3>2. HasNewString(leafData[l], "s", p) => newStrings
      <4>1. HasNewString(leafData[l], "s", p) =>
                leafData[l].strings["s"][p] \in NewStringSet(leafData[l])
        BY DEF HasNewString, NewStringSet
      <4> QED
        BY <1>1, <4>1 DEF RefInv, IndInv, StringsSound
    <3> QED
      BY <3>1, <3>2 DEF StringOf
  <2> QED
    BY <1>1, <2>1, <2>2 DEF Copied
<1>6. ASSUME NEW k \in Leaf, k # l, Copied(k) PROVE Copied(k)'
  <2>1. \A g \in getGroups(leafData[k]), p \in Points(PointCount[k]) :
            <<k, p>> \in member'[g] <=> <<k, p>> \in member[g]
    <3> SUFFICES ASSUME NEW g \in Group, NEW p \in Points(PointCount[k])
                 PROVE  <<k, p>> \in member'[g] <=> <<k, p>> \in member[g]
      BY <1>3
    <3>1. <<k, p>> \notin CopiedGroup(l, g)
      BY <1>6 DEF CopiedGroup
    <3> QED
      BY <1>1, <1>6, <3>1
  <2>2. \A p \in Points(PointCount[k]) : string'[<<k, p>>] = string[<<k, p>>]
    BY <1>1, <1>4, <1>6
  <2> QED
    BY <1>1, <1>6, <2>1, <2>2 DEF Copied
<1>7. Handed'
  BY <1>1, <1>5, <1>6 DEF RefInv, IndInv, Shape, Handed
<1> QED
  BY <1>2, <1>7

-----------------------------------------------------------------------------
(* The serial passes after the kernel.                                     *)

LEMMA MergeHanded ==
    ASSUME RefInv, Merge \/ AppendGroups PROVE Unopened' /\ Handed'
<1>1. CASE Merge
  BY <1>1 DEF Merge, points, leafs, RefInv, Unopened, Handed, AllDone, Before
<1>2. CASE AppendGroups
  BY <1>2 DEF AppendGroups, points, merged, All, RefInv, Unopened, Handed, Before
<1> QED
  BY <1>1, <1>2

LEMMA MovePointsHanded == ASSUME RefInv, MovePoints PROVE Unopened' /\ Handed'
<1>1. /\ phase = "copy" /\ AllDone /\ phase' = "drop"
      /\ UNCHANGED <<gridGroups, groups, member, string, leafData, temp, pc>>
  BY DEF MovePoints, locals, leafs, merged
<1>2. \A l \in Leaf : Copied(l)' = Copied(l)
  BY <1>1 DEF Copied
<1> QED
  BY <1>1, <1>2 DEF RefInv, IndInv, GroupsApart, Unopened, Handed, AllDone, Before

LEMMA StepHanded == RefInv /\ [Next]_vars => Unopened' /\ Handed'
<1> SUFFICES ASSUME RefInv, [Next]_vars PROVE Unopened' /\ Handed'
  OBVIOUS
<1>0. phase # "idle" => Leaf # {}
  BY DEF RefInv, Unopened
<1> USE DEF grid, merged, leafs, locals, history, executable
<1>1. CASE Configure \/ Execute
  BY <1>1, QuietHanded DEF Configure, Execute, MoreCalls, Before, points
<1>2. CASE Rest \/ UNCHANGED vars
  BY <1>2, IdleHanded DEF Rest
<1>3. CASE Lookup
  BY <1>0, <1>3, QuietHanded, LeaveHanded DEF Lookup, Throw, Before, points
<1>4. CASE AppendAttribute
  BY <1>0, <1>4, QuietHanded, LeaveHanded DEF AppendAttribute, Throw, Before, points
<1>5. CASE MissingAttribute \/ DropTemp
  BY <1>0, <1>5, LeaveHanded DEF MissingAttribute, DropTemp, Throw
<1>6. CASE AppendTemp
  BY <1>0, <1>6, QuietHanded DEF AppendTemp, Before, points
<1>7. CASE Merge \/ AppendGroups \/ MovePoints
  BY <1>7, MergeHanded, MovePointsHanded
<1>8. CASE \E l \in Leaf : LeafStep(l)
  BY <1>8, OpenLeafHanded, EditGroupHanded, ReturnPointHanded, CopyLeafHanded DEF LeafStep
<1> QED
  BY <1>1, <1>2, <1>3, <1>4, <1>5, <1>6, <1>7, <1>8 DEF Next, Step

LEMMA RefInvHolds == ASSUME ~ MayLeave PROVE Spec => []RefInv
<1>1. Init => RefInv
  BY InitSound, FilterInit, ValuesInit, InitHanded DEF RefInv
<1>2. RefInv /\ [Next]_vars => RefInv'
  BY StepSound, FilterStep, ValuesStep, StepHanded DEF RefInv
<1> QED
  BY <1>1, <1>2, PTL DEF Spec

-----------------------------------------------------------------------------
(* What the promise sees of a state.                                       *)

GroupsSeen == gridGroups \cup UNION {getGroups(leafData[l]) : l \in Leaf}
MemberSeen == [g \in Group |-> Visible(g)]
StringSeen == [q \in Point |-> VisibleString(q)]
PositionSeen == [q \in Point |-> VisiblePosition(q)]
TodoSeen == IF phase = "kernel" THEN UNION {{l} \X Pending(l) : l \in Leaf} ELSE {}
StartedSeen == \/ phase \in {"append", "copy", "drop"}
               \/ phase = "kernel" /\ \E l \in Leaf : pc[l] # "wait"

seen == <<GroupsSeen, MemberSeen, StringSeen, PositionSeen, TodoSeen, StartedSeen>>

LEMMA Stutters == seen' = seen => UNCHANGED Kernels!vars
BY DEF seen, Kernels!vars, GroupsSeen, MemberSeen, StringSeen, PositionSeen, TodoSeen, StartedSeen

\* A point is the index of a point of a leaf.
LEMMA PointIs ==
    /\ \A l \in Leaf : \A p \in Points(PointCount[l]) : <<l, p>> \in Point
    /\ \A q \in Point : q[1] \in Leaf /\ q[2] \in Points(PointCount[q[1]]) /\ q = <<q[1], q[2]>>
BY DEF Point

\* The points that are pending in any leaf.
LEMMA TodoIs ==
    /\ phase # "kernel" => TodoSeen = {}
    /\ phase = "kernel" => \A l, p : <<l, p>> \in TodoSeen <=> l \in Leaf /\ p \in Pending(l)
BY DEF TodoSeen

\* When a leaf is opened, the points pending in it are those let through.
LEMMA OpenedPends ==
    ASSUME NEW l \in Leaf
    PROVE  IF StartSet(l) = {} THEN Selected(l) = {}
           ELSE LET m == Min(StartSet(l))
                IN  Selected(l) = {m} \cup {p \in Selected(l) : p > m}
<1>1. PointCount[l] \in Nat /\ Selected(l) \subseteq Nat /\ StartSet(l) \subseteq Selected(l)
  BY CountIsNat DEF Selected, StartSet, Points
<1>2. ASSUME NEW p \in Selected(l)
      PROVE  StartSet(l) # {} /\ p >= Min(StartSet(l))
  <2>1. CASE UsingGroup
    BY <1>1, <2>1, MinExists DEF StartSet
  <2>2. CASE ~ UsingGroup
    BY <1>1, <2>2, MinExists DEF StartSet, Selected, Points
  <2> QED
    BY <2>1, <2>2
<1>3. StartSet(l) # {} => Min(StartSet(l)) \in StartSet(l)
  BY <1>1, MinExists
<1>4. ASSUME StartSet(l) # {}, NEW p \in Selected(l)
      PROVE  p = Min(StartSet(l)) \/ p > Min(StartSet(l))
  BY <1>1, <1>2, <1>3, <1>4
<1> QED
  BY <1>1, <1>2, <1>3, <1>4

\* When the kernel of a point returns, that point and no other is done.
LEMMA ReturnedPends ==
    ASSUME NEW l \in Leaf, index[l] \in Points(PointCount[l])
    PROVE  LET rest == {p \in Selected(l) : p > index[l]}
           IN  IF Following(l) = {} THEN rest = {}
               ELSE LET m == Min(Following(l))
                    IN  rest = {m} \cup {p \in Selected(l) : p > m}
<1> DEFINE rest == {p \in Selected(l) : p > index[l]}
<1>1. /\ PointCount[l] \in Nat /\ Selected(l) \subseteq Nat /\ index[l] \in Nat
      /\ Following(l) \subseteq Points(PointCount[l]) /\ Following(l) \subseteq Nat
  BY CountIsNat, FollowingInBounds DEF Selected, Points
<1>2. Following(l) \subseteq rest
  BY <1>1 DEF Following, Selected
<1>3. ASSUME NEW p \in rest
      PROVE  Following(l) # {} /\ p >= Min(Following(l))
  <2>1. CASE UsingGroup
    BY <1>1, <2>1, MinExists DEF Following
  <2>2. CASE ~ UsingGroup
    <3> DEFINE m == 2^IndexWidth
    <3>1. m \in Nat /\ PointCount[l] < m
      BY IndexWidthAssumption
    <3>2. Following(l) = IF index[l] < (PointCount[l] - 1) % m THEN {index[l] + 1} ELSE {}
      BY <2>2 DEF Following
    <3> HIDE DEF m
    <3>3. p \in Nat /\ p > index[l] /\ p < PointCount[l]
      BY <1>1 DEF Selected, Points
    <3>4. PointCount[l] - 1 \in Nat /\ (PointCount[l] - 1) % m = PointCount[l] - 1
      BY <1>1, <3>1, <3>3
    <3>5. Following(l) = {index[l] + 1}
      BY <1>1, <3>2, <3>3, <3>4
    <3> QED
      BY <1>1, <3>3, <3>5, MinExists
  <2> QED
    BY <2>1, <2>2
<1>4. Following(l) # {} => Min(Following(l)) \in Following(l)
  BY <1>1, MinExists
<1>5. ASSUME Following(l) # {}
      PROVE  rest = {Min(Following(l))} \cup {p \in Selected(l) : p > Min(Following(l))}
  <2> DEFINE m == Min(Following(l))
  <2>1. m \in rest /\ m \in Nat
    BY <1>1, <1>2, <1>4, <1>5
  <2>2. \A p \in rest : p >= m
    BY <1>3
  <2> HIDE DEF m
  <2>3. \A p \in Selected(l) : p > index[l] <=> p = m \/ p > m
    BY <1>1, <2>1, <2>2
  <2> QED
    BY <2>1, <2>3 DEF m
<1> QED
  BY <1>3, <1>5

-----------------------------------------------------------------------------
(* The steps of the promise, from what it sees.                            *)

LEMMA InitMaps ==
    ASSUME GroupsSeen \subseteq Group, MemberSeen \in [Group -> SUBSET Point],
           StringSeen \in [Point -> Str], PositionSeen \in [Point -> Coord],
           TodoSeen = {}, StartedSeen = FALSE
    PROVE  Kernels!Init
BY DEF Kernels!Init, GroupsSeen, MemberSeen, StringSeen, PositionSeen, TodoSeen, StartedSeen

LEMMA BeginMaps ==
    ASSUME TodoSeen = {}, ~ StartedSeen,
           TodoSeen' = Point \/ \E g \in GroupsSeen : TodoSeen' = MemberSeen[g],
           UNCHANGED <<GroupsSeen, MemberSeen, StringSeen, PositionSeen, StartedSeen>>
    PROVE  Kernels!Begin
BY DEF Kernels!Begin, GroupsSeen, MemberSeen, StringSeen, PositionSeen, TodoSeen, StartedSeen

LEMMA OpenMaps ==
    ASSUME StartedSeen' = TRUE,
           UNCHANGED <<GroupsSeen, MemberSeen, StringSeen, PositionSeen, TodoSeen>>
    PROVE  Kernels!Open
BY DEF Kernels!Open, GroupsSeen, MemberSeen, StringSeen, PositionSeen, TodoSeen, StartedSeen

LEMMA AbortMaps ==
    ASSUME ~ StartedSeen, TodoSeen' = {},
           UNCHANGED <<GroupsSeen, MemberSeen, StringSeen, PositionSeen, StartedSeen>>
    PROVE  Kernels!Abort
BY DEF Kernels!Abort, GroupsSeen, MemberSeen, StringSeen, PositionSeen, TodoSeen, StartedSeen

LEMMA FinishMaps ==
    ASSUME TodoSeen = {}, StartedSeen' = FALSE,
           UNCHANGED <<GroupsSeen, MemberSeen, StringSeen, PositionSeen, TodoSeen>>
    PROVE  Kernels!Finish
BY DEF Kernels!Finish, GroupsSeen, MemberSeen, StringSeen, PositionSeen, TodoSeen, StartedSeen

LEMMA AddMaps ==
    ASSUME NEW q, NEW g, StartedSeen, q \in TodoSeen, GroupsSeen' = GroupsSeen \cup {g},
           MemberSeen' = [MemberSeen EXCEPT ![g] = @ \cup {q}],
           UNCHANGED <<StringSeen, PositionSeen, TodoSeen, StartedSeen>>
    PROVE  Kernels!Add(q, g)
BY DEF Kernels!Add, GroupsSeen, MemberSeen, StringSeen, PositionSeen, TodoSeen, StartedSeen

LEMMA RemoveMaps ==
    ASSUME NEW q, NEW g, StartedSeen, q \in TodoSeen,
           MemberSeen' = [MemberSeen EXCEPT ![g] = @ \ {q}],
           UNCHANGED <<GroupsSeen, StringSeen, PositionSeen, TodoSeen, StartedSeen>>
    PROVE  Kernels!Remove(q, g)
BY DEF Kernels!Remove, GroupsSeen, MemberSeen, StringSeen, PositionSeen, TodoSeen, StartedSeen

LEMMA ReturnMaps ==
    ASSUME NEW q, StartedSeen, q \in TodoSeen, TodoSeen' = TodoSeen \ {q},
           \E s \in Str : StringSeen' = [StringSeen EXCEPT ![q] = s],
           \E x \in Coord : PositionSeen' = [PositionSeen EXCEPT ![q] = x],
           UNCHANGED <<GroupsSeen, MemberSeen, StartedSeen>>
    PROVE  Kernels!Return(q)
BY DEF Kernels!Return, GroupsSeen, MemberSeen, StringSeen, PositionSeen, TodoSeen, StartedSeen

-----------------------------------------------------------------------------
(* The serial passes before the kernel, and the ends of executions.        *)

\* The promise sees the grid as it is.
SeesGrid ==
    /\ GroupsSeen = gridGroups /\ MemberSeen = member
    /\ StringSeen = string /\ PositionSeen = position

\* No leaf has data.
Untouched ==
    \A l \in Leaf : leafData[l] = NewLeafData(PointCount[l]) /\ temp[l] = EmptyMap

LEMMA UntouchedSees == Untouched /\ Shape /\ Values => SeesGrid
<1> SUFFICES ASSUME Untouched, Shape, Values PROVE SeesGrid
  OBVIOUS
<1>1. \A l \in Leaf : getGroups(leafData[l]) = {} /\ DOMAIN leafData[l].strings = {} /\ DOMAIN temp[l] = {}
  BY NewSound DEF Untouched, EmptyMap
<1>2. GroupsSeen = gridGroups
  BY <1>1 DEF GroupsSeen
<1>3. \A g \in Group : Visible(g) = member[g]
  BY <1>1, PointIs DEF Visible, hasGroup, getGroups, Shape
<1>4. \A q \in Point : VisibleString(q) = string[q] /\ VisiblePosition(q) = position[q]
  BY <1>1, PointIs DEF VisibleString, StringOf, HasNewString, VisiblePosition
<1> QED
  BY <1>2, <1>3, <1>4 DEF SeesGrid, MemberSeen, StringSeen, PositionSeen, Shape, Values

LEMMA UntouchedSeesNext == Untouched' /\ Shape' /\ Values' => SeesGrid'
BY UntouchedSees, PTL

\* What has been handed to the grid is seen in it.
LEMMA DroppedSees == ASSUME phase = "drop", RefInv PROVE SeesGrid
<1>1. /\ \A l \in Leaf : Copied(l) /\ getGroups(leafData[l]) \subseteq gridGroups
      /\ member \in [Group -> SUBSET Point] /\ string \in [Point -> Str] /\ position \in [Point -> Coord]
  BY DEF RefInv, IndInv, Shape, Values, Handed, AllDone
<1>2. GroupsSeen = gridGroups
  BY <1>1 DEF GroupsSeen
<1>3. \A g \in Group : Visible(g) = member[g]
  BY <1>1, PointIs DEF Visible, hasGroup, getGroups, Copied
<1>4. \A q \in Point : VisibleString(q) = string[q] /\ VisiblePosition(q) = position[q]
  BY <1>1, PointIs DEF VisibleString, Copied, VisiblePosition
<1> QED
  BY <1>1, <1>2, <1>3, <1>4 DEF SeesGrid, MemberSeen, StringSeen, PositionSeen

LEMMA InitRefines == Init => Kernels!Init
<1> SUFFICES ASSUME Init PROVE Kernels!Init
  OBVIOUS
<1>1. Shape /\ Values
  BY InitSound, ValuesInit DEF IndInv
<1>2. Untouched /\ phase = "idle"
  BY DEF Init, Untouched, NoLeafData, All
<1>3. TodoSeen = {} /\ StartedSeen = FALSE
  BY <1>2 DEF TodoSeen, StartedSeen
<1> QED
  BY <1>1, <1>2, <1>3, UntouchedSees, InitMaps DEF SeesGrid, Shape, Values

LEMMA QuietRefines ==
    ASSUME RefInv, RefInv', phase \in Before, phase' \in Before,
           UNCHANGED <<gridGroups, member, string, position>>
    PROVE  UNCHANGED Kernels!vars
<1>1. Untouched /\ Shape /\ Values
  BY DEF RefInv, IndInv, LoopSound, Unopened, Untouched
<1>2. Untouched' /\ Shape' /\ Values'
  BY DEF RefInv, IndInv, LoopSound, Unopened, Untouched
<1>3. TodoSeen = {} /\ TodoSeen' = {} /\ StartedSeen' = StartedSeen
  BY DEF TodoSeen, StartedSeen, Before
<1>4. SeesGrid /\ SeesGrid'
  BY <1>1, <1>2, UntouchedSees, UntouchedSeesNext
<1> QED
  BY <1>3, <1>4, Stutters DEF seen, SeesGrid

LEMMA LookupRefines ==
    ASSUME RefInv, RefInv', phase = "lookup", HasGroup, phase' = "kernel",
           UNCHANGED <<settings, gridGroups, member, string, position, leafData, temp, pc>>
    PROVE  Kernels!Begin
<1>1. Untouched /\ Shape /\ Values /\ \A l \in Leaf : pc[l] = "wait"
  BY DEF RefInv, IndInv, LoopSound, Unopened, Untouched, Before
<1>2. Untouched' /\ Shape' /\ Values'
  BY <1>1 DEF RefInv, IndInv, Untouched
<1>3. SeesGrid /\ SeesGrid'
  BY <1>1, <1>2, UntouchedSees, UntouchedSeesNext
<1>4. TodoSeen = {} /\ ~ StartedSeen /\ ~ StartedSeen'
  BY <1>1 DEF TodoSeen, StartedSeen
<1>5. TodoSeen' = UNION {{l} \X Selected(l) : l \in Leaf}
  <2>1. \A l \in Leaf : Pending(l)' = Selected(l)
    BY <1>1 DEF Pending, Selected, UsingGroup
  <2> QED
    BY <2>1 DEF TodoSeen
<1>6. CASE UsingGroup
  <2>1. settings.group \in gridGroups /\ member[settings.group] \subseteq Point
    BY <1>1, <1>6 DEF HasGroup, Shape
  <2>2. TodoSeen' = member[settings.group]
    <3>1. \A l \in Leaf : \A p : p \in Selected(l) <=> <<l, p>> \in member[settings.group]
      BY <1>6, <2>1, PointIs DEF Selected
    <3>2. \A q \in member[settings.group] : q[1] \in Leaf /\ q = <<q[1], q[2]>>
      BY <2>1, PointIs
    <3> QED
      BY <1>5, <3>1, <3>2
  <2>3. settings.group \in GroupsSeen /\ TodoSeen' = MemberSeen[settings.group]
    BY <1>3, <2>1, <2>2 DEF SeesGrid
  <2>4. UNCHANGED <<GroupsSeen, MemberSeen, StringSeen, PositionSeen, StartedSeen>>
    BY <1>3, <1>4 DEF SeesGrid, StartedSeen
  <2> QED
    BY <1>4, <2>3, <2>4, BeginMaps
<1>7. CASE ~ UsingGroup
  <2>1. \A l \in Leaf : Selected(l) = Points(PointCount[l])
    BY <1>7 DEF Selected
  <2>2. TodoSeen' = Point
    BY <1>5, <2>1 DEF Point
  <2>3. UNCHANGED <<GroupsSeen, MemberSeen, StringSeen, PositionSeen, StartedSeen>>
    BY <1>3, <1>4 DEF SeesGrid, StartedSeen
  <2> QED
    BY <1>4, <2>2, <2>3, BeginMaps
<1> QED
  BY <1>6, <1>7

\* A grid whose execution throws is as it was before.
LEMMA ThrowRefines ==
    ASSUME RefInv, RefInv', Throw, \A l \in Leaf : pc[l] = "wait", phase \in Before \cup {"kernel"}
    PROVE  Kernels!Abort
<1>1. Untouched /\ Shape /\ Values
  BY DEF RefInv, IndInv, Unopened, Untouched
<1>2. Untouched' /\ Shape' /\ Values'
  BY DEF RefInv, IndInv, Throw, Leave, Untouched, NoLeafData, All
<1>3. SeesGrid /\ SeesGrid'
  BY <1>1, <1>2, UntouchedSees, UntouchedSeesNext
<1>4. TodoSeen' = {} /\ ~ StartedSeen /\ ~ StartedSeen'
  BY DEF TodoSeen, StartedSeen, Throw, Leave, Before
<1>5. UNCHANGED <<gridGroups, member, string, position>>
  BY DEF Throw, Leave, points
<1>6. UNCHANGED <<GroupsSeen, MemberSeen, StringSeen, PositionSeen, StartedSeen>>
  BY <1>3, <1>4, <1>5 DEF SeesGrid, StartedSeen
<1> QED
  BY <1>4, <1>6, AbortMaps

LEMMA DropTempRefines == ASSUME RefInv, RefInv', DropTemp PROVE Kernels!Finish
<1>1. /\ phase = "drop" /\ phase' = "idle"
      /\ UNCHANGED <<gridGroups, member, string, position>>
  BY DEF DropTemp, Leave, points
<1>2. Untouched' /\ Shape' /\ Values'
  BY DEF RefInv, IndInv, DropTemp, Leave, Untouched, NoLeafData, All
<1>3. SeesGrid /\ SeesGrid'
  BY <1>1, <1>2, DroppedSees, UntouchedSeesNext
<1>4. TodoSeen = {} /\ TodoSeen' = {} /\ StartedSeen' = FALSE
  BY <1>1 DEF TodoSeen, StartedSeen
<1> QED
  BY <1>1, <1>3, <1>4, FinishMaps DEF SeesGrid

-----------------------------------------------------------------------------
(* The parallel pass of the kernel.                                        *)

\* The points pending change in leaf l alone.
LEMMA TodoChanges ==
    ASSUME phase = "kernel", phase' = "kernel", NEW l \in Leaf, NEW done,
           Pending(l)' = Pending(l) \ done,
           \A k \in Leaf : k # l => Pending(k)' = Pending(k)
    PROVE  TodoSeen' = TodoSeen \ ({l} \X done)
BY DEF TodoSeen

LEMMA OpenLeafRefines ==
    ASSUME RefInv, RefInv', NEW l \in Leaf, OpenLeaf(l) PROVE Kernels!Abort \/ Kernels!Open
<1>1. CASE BindFails /\ Throw
  <2>1. phase = "kernel" /\ \A k \in Leaf : pc[k] = "wait"
    BY <1>1 DEF OpenLeaf, RefInv, Unopened
  <2> QED
    BY <1>1, <2>1, ThrowRefines
<1>2. CASE ~ BindFails
  <2>1. /\ phase = "kernel" /\ phase' = "kernel" /\ pc[l] = "wait"
        /\ UNCHANGED <<registry, settings, gridGroups, member, string, position>>
        /\ leafData' = [leafData EXCEPT ![l] = NewLeafData(PointCount[l])]
        /\ temp' = IF UsingPosition
                   THEN [temp EXCEPT ![l] = [p \in Selected(l) |-> position[<<l, p>>]]] ELSE temp
        /\ \/ StartSet(l) = {} /\ pc' = [pc EXCEPT ![l] = "done"] /\ index' = index
           \/ /\ StartSet(l) # {}
              /\ pc' = [pc EXCEPT ![l] = "run"] /\ index' = [index EXCEPT ![l] = Min(StartSet(l))]
    BY <1>2 DEF OpenLeaf, grid, points, executable
  <2>2. /\ leafData[l] = NewLeafData(PointCount[l]) /\ temp[l] = EmptyMap
        /\ pc \in [Leaf -> {"wait", "run", "done"}] /\ index \in [Leaf -> Nat]
        /\ leafData = [k \in Leaf |-> leafData[k]] /\ temp = [k \in Leaf |-> temp[k]]
    BY <2>1 DEF RefInv, IndInv, Shape, Covered, FilterKept, Opened, Unopened
  <2>3. leafData' = leafData
    BY <2>1, <2>2
  <2>4. UNCHANGED <<GroupsSeen, MemberSeen, StringSeen>>
    BY <2>1, <2>3 DEF GroupsSeen, MemberSeen, Visible, StringSeen, VisibleString
  <2>5. PositionSeen' = PositionSeen
    <3> SUFFICES ASSUME NEW q \in Point PROVE VisiblePosition(q)' = VisiblePosition(q)
      BY DEF PositionSeen
    <3>1. q[1] \in Leaf /\ q = <<q[1], q[2]>>
      BY PointIs
    <3>2. CASE q[1] = l
      <4>1. VisiblePosition(q) = position[q]
        BY <2>2, <3>2 DEF VisiblePosition, EmptyMap
      <4>2. temp'[l] = EmptyMap \/ temp'[l] = [p \in Selected(l) |-> position[<<l, p>>]]
        BY <2>1, <2>2
      <4>3. q[2] \in DOMAIN temp'[l] => temp'[l][q[2]] = position[q]
        BY <3>1, <3>2, <4>2 DEF EmptyMap
      <4> QED
        BY <2>1, <3>2, <4>1, <4>3 DEF VisiblePosition
    <3>3. CASE q[1] # l
      <4>1. temp'[q[1]] = temp[q[1]]
        BY <2>1, <2>2, <3>1, <3>3
      <4>2. Writes("P", "vec3f")' = Writes("P", "vec3f")
        BY <2>1 DEF Writes, Accesses
      <4> QED
        BY <2>1, <4>1, <4>2 DEF VisiblePosition
    <3> QED
      BY <3>2, <3>3
  <2>6. TodoSeen' = TodoSeen
    <3>1. \A k \in Leaf : Selected(k)' = Selected(k)
      BY <2>1 DEF Selected, UsingGroup
    <3>2. \A k \in Leaf : k # l => pc'[k] = pc[k] /\ index'[k] = index[k]
      BY <2>1, <2>2
    <3>3. \A k \in Leaf : k # l => Pending(k)' = Pending(k)
      BY <3>1, <3>2 DEF Pending
    <3>4. Pending(l) = Selected(l)
      BY <2>1 DEF Pending
    <3>5. Pending(l)' = Selected(l)
      <4>1. CASE StartSet(l) = {}
        BY <2>1, <2>2, <4>1, OpenedPends DEF Pending
      <4>2. CASE StartSet(l) # {}
        <5>1. pc'[l] = "run" /\ index'[l] = Min(StartSet(l))
          BY <2>1, <2>2, <4>2
        <5>2. Pending(l)' = {Min(StartSet(l))} \cup {p \in Selected(l) : p > Min(StartSet(l))}
          BY <3>1, <5>1 DEF Pending
        <5> QED
          BY <4>2, <5>2, OpenedPends
      <4> QED
        BY <4>1, <4>2
    <3>6. \A k \in Leaf : Pending(k)' = Pending(k)
      BY <3>3, <3>4, <3>5
    <3> QED
      BY <2>1, <3>6 DEF TodoSeen
  <2>7. StartedSeen' = TRUE
    BY <2>1, <2>2 DEF StartedSeen
  <2> QED
    BY <2>4, <2>5, <2>6, <2>7, OpenMaps
<1> QED
  BY <1>1, <1>2 DEF OpenLeaf

\* The point a leaf is at is one of those to run.
LEMMA RunningIsPending ==
    ASSUME RefInv, phase = "kernel", NEW l \in Leaf, pc[l] = "run"
    PROVE  /\ index[l] \in Points(PointCount[l]) /\ <<l, index[l]>> \in Point
           /\ <<l, index[l]>> \in TodoSeen /\ StartedSeen
<1>1. index[l] \in Points(PointCount[l])
  BY DEF RefInv, IndInv, LoopSound, KernelInBounds
<1>2. index[l] \in Pending(l)
  BY DEF Pending
<1> QED
  BY <1>1, <1>2, PointIs, TodoIs DEF StartedSeen

\* An edit of one group for one point, as the promise sees it.
LEMMA EditSeen ==
    ASSUME NEW q \in Point, NEW g \in Group, NEW flag \in BOOLEAN,
           \A h \in Group : \A r \in Point :
              r \in Visible(h)' <=> (IF h = g /\ r = q THEN flag ELSE r \in Visible(h))
    PROVE  MemberSeen' = [MemberSeen EXCEPT ![g] = IF flag THEN @ \cup {q} ELSE @ \ {q}]
<1>1. \A h \in Group : Visible(h) \subseteq Point /\ Visible(h)' \subseteq Point
  BY DEF Visible
<1>2. \A h \in Group : Visible(h)' =
        IF h = g THEN IF flag THEN Visible(h) \cup {q} ELSE Visible(h) \ {q} ELSE Visible(h)
  BY <1>1
<1> QED
  BY <1>2 DEF MemberSeen

LEMMA EditGroupRefines ==
    ASSUME ~ MayLeave, RefInv, NEW l \in Leaf, NEW g \in Editable, NEW flag \in BOOLEAN,
           EditGroup(l, g, flag)
    PROVE  \E q \in Point : Kernels!Add(q, g) \/ Kernels!Remove(q, g)
<1> DEFINE q == <<l, index[l]>>
<1>1. /\ phase = "kernel" /\ phase' = "kernel" /\ pc[l] = "run" /\ g \in Group
      /\ UNCHANGED <<registry, settings, gridGroups, string, position, temp, pc, index>>
  BY EditableAssumption DEF EditGroup, executable
<1>2. q \in Point /\ index[l] \in Points(PointCount[l]) /\ q \in TodoSeen /\ StartedSeen
  BY <1>1, RunningIsPending
<1>3. TodoSeen' = TodoSeen /\ StartedSeen' = StartedSeen
  <2>1. \A k \in Leaf : Pending(k)' = Pending(k)
    BY <1>1, EditSelects DEF RefInv, Pending
  <2> QED
    BY <1>1, <2>1 DEF TodoSeen, StartedSeen
<1>4. PositionSeen' = PositionSeen
  <2>1. Writes("P", "vec3f")' = Writes("P", "vec3f")
    BY <1>1 DEF Writes, Accesses
  <2> QED
    BY <1>1, <2>1 DEF PositionSeen, VisiblePosition
<1>5. /\ \A k \in Leaf : SoundData(leafData[k], PointCount[k]) /\ getGroups(leafData[k]) \cap gridGroups = {}
      /\ leafData = [k \in Leaf |-> leafData[k]] /\ member \in [Group -> SUBSET Point]
      /\ \A h \in Group \ gridGroups : member[h] = {}
  BY <1>1 DEF RefInv, IndInv, Shape, GroupsApart
<1>6. CASE /\ g \in gridGroups /\ leafData' = leafData
           /\ member' = [member EXCEPT ![g] = IF flag THEN @ \cup {q} ELSE @ \ {q}]
  <2>1. GroupsSeen' = GroupsSeen /\ StringSeen' = StringSeen /\ g \in GroupsSeen
    BY <1>1, <1>6 DEF GroupsSeen, StringSeen, VisibleString
  <2>2. \A h \in Group : \A r \in Point :
            r \in Visible(h)' <=> (IF h = g /\ r = q THEN flag ELSE r \in Visible(h))
    <3> SUFFICES ASSUME NEW h \in Group, NEW r \in Point
                 PROVE  r \in Visible(h)' <=> (IF h = g /\ r = q THEN flag ELSE r \in Visible(h))
      OBVIOUS
    <3>1. r[1] \in Leaf
      BY PointIs
    <3>2. CASE h = g
      <4>1. ~ hasGroup(leafData[r[1]], g)
        BY <1>5, <1>6, <3>1 DEF hasGroup, getGroups
      <4> QED
        BY <1>1, <1>5, <1>6, <3>2, <4>1 DEF Visible
    <3>3. CASE h # g
      BY <1>5, <1>6, <3>3 DEF Visible
    <3> QED
      BY <3>2, <3>3
  <2>3. MemberSeen' = [MemberSeen EXCEPT ![g] = IF flag THEN @ \cup {q} ELSE @ \ {q}]
    BY <1>1, <1>2, <2>2, EditSeen
  <2> HIDE DEF q
  <2>4. CASE flag
    BY <1>2, <1>3, <1>4, <2>1, <2>3, <2>4, AddMaps
  <2>5. CASE ~ flag
    BY <1>2, <1>3, <1>4, <2>1, <2>3, <2>5, RemoveMaps
  <2> QED
    BY <2>4, <2>5
<1>7. CASE /\ g \notin gridGroups /\ member' = member
           /\ flag \/ hasGroup(leafData[l], g)
           /\ leafData' = [leafData EXCEPT ![l] = SetBit(getOrInsert(@, g), g, index[l], flag)]
  <2> DEFINE d == leafData[l]
             e == SetBit(getOrInsert(d, g), g, index[l], flag)
  <2>1. SoundData(d, PointCount[l])
    BY <1>5
  <2>2. getGroups(e) = getGroups(d) \cup {g} /\ e.strings = d.strings
    BY <1>1, <1>2, <2>1, EditKept
  <2>3. \A h \in getGroups(e), p \in Points(PointCount[l]) :
            GetBit(e, h, p) <=> (IF h = g /\ p = index[l] THEN flag
                                 ELSE h \in getGroups(d) /\ GetBit(d, h, p))
    BY <1>1, <1>2, <2>1, EditReads DEF SoundData
  <2>4. \A k \in Leaf : leafData'[k] = IF k = l THEN e ELSE leafData[k]
    BY <1>5, <1>7
  <2> HIDE DEF e
  <2>5. GroupsSeen' = GroupsSeen \cup {g}
    <3>1. \A k \in Leaf : getGroups(leafData'[k]) =
              IF k = l THEN getGroups(leafData[k]) \cup {g} ELSE getGroups(leafData[k])
      BY <2>2, <2>4
    <3>2. \A h : (\E k \in Leaf : h \in getGroups(leafData'[k])) <=>
                    (h = g \/ \E k \in Leaf : h \in getGroups(leafData[k]))
      BY <3>1
    <3>3. \A h : h \in GroupsSeen' <=> h \in gridGroups \/ \E k \in Leaf : h \in getGroups(leafData'[k])
      BY <1>1 DEF GroupsSeen, getGroups
    <3> QED
      BY <3>2, <3>3 DEF GroupsSeen
  <2>6. StringSeen' = StringSeen
    <3>1. \A k \in Leaf : leafData'[k].strings = leafData[k].strings
      BY <2>2, <2>4
    <3>2. \A r \in Point : VisibleString(r)' = VisibleString(r)
      BY <1>1, <3>1, PointIs DEF VisibleString, StringOf, HasNewString
    <3> QED
      BY <3>2 DEF StringSeen
  <2>7. \A h \in Group : \A r \in Point :
            r \in Visible(h)' <=> (IF h = g /\ r = q THEN flag ELSE r \in Visible(h))
    <3> SUFFICES ASSUME NEW h \in Group, NEW r \in Point
                 PROVE  r \in Visible(h)' <=> (IF h = g /\ r = q THEN flag ELSE r \in Visible(h))
      OBVIOUS
    <3>1. r[1] \in Leaf /\ r[2] \in Points(PointCount[r[1]]) /\ r = <<r[1], r[2]>>
      BY PointIs
    <3>2. r \in Visible(h)' <=> (IF h \in getGroups(leafData'[r[1]])
                                 THEN GetBit(leafData'[r[1]], h, r[2]) ELSE r \in member[h])
      BY <1>7 DEF Visible, hasGroup, getGroups
    <3>3. r \in Visible(h) <=> (IF h \in getGroups(leafData[r[1]])
                                THEN GetBit(leafData[r[1]], h, r[2]) ELSE r \in member[h])
      BY DEF Visible, hasGroup, getGroups
    <3>4. CASE r[1] # l
      BY <2>4, <3>1, <3>2, <3>3, <3>4
    <3>5. CASE r[1] = l
      <4>1. leafData'[r[1]] = e /\ leafData[r[1]] = d
        BY <2>4, <3>1, <3>5
      <4>2. r = q <=> r[2] = index[l]
        BY <3>1, <3>5
      <4>3. h = g => r \notin member[h]
        BY <1>1, <1>5, <1>7, Zenon
      <4>4. \A p \in Points(PointCount[l]) : h \in getGroups(e) =>
              (GetBit(e, h, p) <=> (IF h = g /\ p = index[l] THEN flag
                                    ELSE h \in getGroups(d) /\ GetBit(d, h, p)))
        BY <2>3
      <4>5. /\ r \in Visible(h)' <=> (IF h \in getGroups(e) THEN GetBit(e, h, r[2]) ELSE r \in member[h])
            /\ r \in Visible(h) <=> (IF h \in getGroups(d) THEN GetBit(d, h, r[2]) ELSE r \in member[h])
        BY <3>2, <3>3, <4>1
      <4>6. r[2] \in Points(PointCount[l])
        BY <3>1, <3>5
      <4> HIDE DEF d, q
      <4>7. CASE h \in getGroups(e)
        BY <2>2, <4>2, <4>3, <4>4, <4>5, <4>6, <4>7
      <4>8. CASE h \notin getGroups(e)
        BY <2>2, <4>5, <4>8
      <4> QED
        BY <4>7, <4>8
    <3> QED
      BY <3>4, <3>5
  <2>8. MemberSeen' = [MemberSeen EXCEPT ![g] = IF flag THEN @ \cup {q} ELSE @ \ {q}]
    BY <1>1, <1>2, <2>7, EditSeen
  <2>9. ~ flag => g \in GroupsSeen
    BY <1>7 DEF GroupsSeen, hasGroup, getGroups
  <2> HIDE DEF q
  <2>10. CASE flag
    BY <1>2, <1>3, <1>4, <2>5, <2>6, <2>8, <2>10, AddMaps
  <2>11. CASE ~ flag
    <3>1. GroupsSeen' = GroupsSeen
      BY <2>5, <2>9, <2>11
    <3> QED
      BY <1>2, <1>3, <1>4, <2>6, <2>8, <2>11, <3>1, RemoveMaps
  <2> QED
    BY <2>10, <2>11
<1> QED
  BY <1>6, <1>7 DEF EditGroup

\* What the strings of leaf l become when one of its points gets s.
StringsBecome(l, e, strings, s) ==
    /\ SoundData(e, PointCount[l]) /\ getGroups(e) = getGroups(leafData[l])
    /\ \A h \in getGroups(e), p \in Points(PointCount[l]) :
         GetBit(e, h, p) <=> GetBit(leafData[l], h, p)
    /\ \A r \in Point : r # <<l, index[l]>> => strings[r] = string[r]
    /\ \A p \in Points(PointCount[l]) :
         StringOf(e, "s", p, strings[<<l, p>>]) =
            IF p = index[l] THEN s ELSE StringOf(leafData[l], "s", p, string[<<l, p>>])

\* The string a kernel leaves in a point, in the grid or in the leaf's data, is
\* the one read from then on.
LEMMA StoredString ==
    ASSUME RefInv, NEW l \in Leaf, phase = "kernel", pc[l] = "run",
           NEW set \in IF Writes("s", "string") THEN {SetAttribStr(l, s) : s \in Str}
                       ELSE {<<string, leafData[l]>>}
    PROVE  \E s \in Str : StringsBecome(l, set[2], set[1], s)
<1> DEFINE d == leafData[l]
           q == <<l, index[l]>>
<1>1. q \in Point /\ index[l] \in Points(PointCount[l])
  BY RunningIsPending
<1>2. \A p \in Points(PointCount[l]) : <<l, p>> \in Point /\ (<<l, p>> = q <=> p = index[l])
  BY PointIs
<1>3. SoundData(d, PointCount[l]) /\ HasFields(d) /\ "s" \in StrArray
  BY ValueAssumption DEF RefInv, IndInv, Shape, SoundData, IsLeafData
<1>4. string \in [Point -> Str]
  BY DEF RefInv, Values
<1>5. CASE set = <<string, d>>
  <2>1. StringOf(d, "s", index[l], string[q]) \in Str
    BY <1>1, <1>3, <1>4 DEF SoundData, NewStringsOnly, StringOf, HasNewString
  <2>2. StringsBecome(l, d, string, StringOf(d, "s", index[l], string[q]))
    BY <1>3 DEF StringsBecome
  <2> QED
    BY <1>5, <2>1, <2>2
<1>6. ASSUME NEW s \in Str, set = SetAttribStr(l, s)
      PROVE  StringsBecome(l, set[2], set[1], s)
  <2>1. CASE s \in metadata
    <3> DEFINE e == removeNewStringData(d, "s", index[l])
    <3>1. set[1] = [string EXCEPT ![q] = s] /\ set[2] = e
      BY <1>6, <2>1 DEF SetAttribStr
    <3>2. SoundData(e, PointCount[l]) /\ getGroups(e) = getGroups(d)
      BY <1>1, <1>3, StringKept
    <3>3. /\ e.handles = d.handles /\ e.arrays = d.arrays
          /\ \A p, x : StringOf(e, "s", p, x) = IF p = index[l] THEN x ELSE StringOf(d, "s", p, x)
      BY <1>3, RemoveStringReads
    <3> HIDE DEF e
    <3>4. \A r \in Point : set[1][r] = IF r = q THEN s ELSE string[r]
      BY <1>1, <1>4, <3>1
    <3> QED
      BY <1>2, <3>1, <3>2, <3>3, <3>4 DEF StringsBecome, GetBit
  <2>2. CASE s \notin metadata
    <3> DEFINE e == setNewStringData(d, "s", index[l], s)
    <3>1. set[1] = string /\ set[2] = e
      BY <1>6, <2>2 DEF SetAttribStr
    <3>2. SoundData(e, PointCount[l]) /\ getGroups(e) = getGroups(d)
      BY <1>1, <1>3, StringKept
    <3>3. /\ e.handles = d.handles /\ e.arrays = d.arrays
          /\ \A p, x : StringOf(e, "s", p, x) = IF p = index[l] THEN s ELSE StringOf(d, "s", p, x)
      BY <1>3, SetStringReads
    <3> HIDE DEF e
    <3> QED
      BY <3>1, <3>2, <3>3 DEF StringsBecome, GetBit
  <2> QED
    BY <2>1, <2>2
<1> QED
  BY <1>5, <1>6

\* Compaction changes nothing that is read.
LEMMA CompactedStrings ==
    ASSUME NEW l \in Leaf, NEW e, NEW strings, NEW s, StringsBecome(l, e, strings, s)
    PROVE  StringsBecome(l, compact(e), strings, s)
<1>1. /\ SoundData(compact(e), PointCount[l]) /\ getGroups(compact(e)) = getGroups(e)
      /\ compact(e).strings = e.strings
      /\ \A h \in getGroups(e), p \in Points(PointCount[l]) :
            GetBit(compact(e), h, p) <=> GetBit(e, h, p)
  BY CompactKept, CompactSound, CompactReads DEF StringsBecome, SoundData
<1>2. \A p, x : StringOf(compact(e), "s", p, x) = StringOf(e, "s", p, x)
  BY <1>1 DEF StringOf, HasNewString
<1> QED
  BY <1>1, <1>2 DEF StringsBecome

LEMMA ReturnedData ==
    ASSUME RefInv, NEW l \in Leaf, ReturnPoint(l)
    PROVE  \E s \in Str : StringsBecome(l, leafData'[l], string', s)
<1>1. phase = "kernel" /\ pc[l] = "run"
  BY DEF ReturnPoint
<1>2. PICK set \in IF Writes("s", "string") THEN {SetAttribStr(l, s) : s \in Str}
                   ELSE {<<string, leafData[l]>>} :
          /\ string' = set[1]
          /\ leafData' = [leafData EXCEPT ![l] = IF Following(l) = {} THEN compact(set[2]) ELSE set[2]]
  BY DEF ReturnPoint
<1>3. PICK s \in Str : StringsBecome(l, set[2], set[1], s)
  BY <1>1, <1>2, StoredString
<1>4. leafData'[l] = IF Following(l) = {} THEN compact(set[2]) ELSE set[2]
  BY <1>2 DEF RefInv, IndInv, Shape
<1> QED
  BY <1>2, <1>3, <1>4, CompactedStrings

\* Of what leaves hold, only the string of the point changes.
LEMMA ReturnSeesData ==
    ASSUME RefInv, NEW l \in Leaf, ReturnPoint(l)
    PROVE  /\ GroupsSeen' = GroupsSeen /\ MemberSeen' = MemberSeen
           /\ \E s \in Str : StringSeen' = [StringSeen EXCEPT ![<<l, index[l]>>] = s]
<1>1. gridGroups' = gridGroups /\ member' = member
  BY DEF ReturnPoint
<1>2. \A k \in Leaf : k # l => leafData'[k] = leafData[k]
  BY DEF ReturnPoint, RefInv, IndInv, Shape
<1>3. PICK s \in Str : StringsBecome(l, leafData'[l], string', s)
  BY ReturnedData
<1>4. \A k \in Leaf : getGroups(leafData'[k]) = getGroups(leafData[k])
  BY <1>2, <1>3 DEF StringsBecome
<1>5. GroupsSeen' = GroupsSeen
  <2>1. \A h : h \in GroupsSeen' <=> h \in gridGroups \/ \E k \in Leaf : h \in getGroups(leafData'[k])
    BY <1>1 DEF GroupsSeen, getGroups
  <2> QED
    BY <1>4, <2>1 DEF GroupsSeen
<1>6. MemberSeen' = MemberSeen
  <2>1. ASSUME NEW h \in Group, NEW r \in Point
        PROVE  r \in Visible(h)' <=> r \in Visible(h)
    <3>1. r[1] \in Leaf /\ r[2] \in Points(PointCount[r[1]])
      BY PointIs
    <3>2. r \in Visible(h)' <=> (IF h \in getGroups(leafData'[r[1]])
                                 THEN GetBit(leafData'[r[1]], h, r[2]) ELSE r \in member[h])
      BY <1>1 DEF Visible, hasGroup, getGroups
    <3>3. r \in Visible(h) <=> (IF h \in getGroups(leafData[r[1]])
                                THEN GetBit(leafData[r[1]], h, r[2]) ELSE r \in member[h])
      BY DEF Visible, hasGroup, getGroups
    <3>4. CASE r[1] = l
      BY <1>3, <1>4, <3>1, <3>2, <3>3, <3>4 DEF StringsBecome
    <3>5. CASE r[1] # l
      BY <1>2, <3>1, <3>2, <3>3, <3>5
    <3> QED
      BY <3>4, <3>5
  <2>2. \A h \in Group : Visible(h)' = Visible(h)
    BY <2>1 DEF Visible
  <2> QED
    BY <2>2 DEF MemberSeen
<1>7. StringSeen' = [StringSeen EXCEPT ![<<l, index[l]>>] = s]
  <2>1. ASSUME NEW r \in Point
        PROVE  VisibleString(r)' = IF r = <<l, index[l]>> THEN s ELSE VisibleString(r)
    <3>1. r[1] \in Leaf /\ r[2] \in Points(PointCount[r[1]]) /\ r = <<r[1], r[2]>>
      BY PointIs
    <3>2. VisibleString(r)' = StringOf(leafData'[r[1]], "s", r[2], string'[r])
      BY DEF VisibleString
    <3>3. CASE r[1] = l
      <4>1. r = <<l, r[2]>> /\ (r = <<l, index[l]>> <=> r[2] = index[l])
        BY <3>1, <3>3
      <4> QED
        BY <1>3, <3>1, <3>2, <3>3, <4>1 DEF StringsBecome, VisibleString
    <3>4. CASE r[1] # l
      <4>1. r # <<l, index[l]>>
        BY <3>4
      <4>2. string'[r] = string[r]
        BY <1>3, <4>1 DEF StringsBecome
      <4> QED
        BY <1>2, <3>1, <3>2, <3>4, <4>1, <4>2 DEF VisibleString
    <3> QED
      BY <3>3, <3>4
  <2> QED
    BY <2>1 DEF StringSeen
<1> QED
  BY <1>3, <1>5, <1>6, <1>7

\* Of the positions, only that of the point changes, in the temporary attribute.
LEMMA ReturnSeesPosition ==
    ASSUME RefInv, NEW l \in Leaf, ReturnPoint(l)
    PROVE  \E x \in Coord : PositionSeen' = [PositionSeen EXCEPT ![<<l, index[l]>>] = x]
<1> DEFINE q == <<l, index[l]>>
<1>1. /\ phase = "kernel" /\ phase' = "kernel" /\ pc[l] = "run" /\ registry' = registry
      /\ position' = position
      /\ \/ Writes("P", "vec3f") /\ \E x \in Coord : temp' = [temp EXCEPT ![l][index[l]] = x]
         \/ ~ Writes("P", "vec3f")
  BY DEF ReturnPoint, executable
<1>2. q \in Point
  BY <1>1, RunningIsPending
<1>3. Writes("P", "vec3f")' = Writes("P", "vec3f")
  BY <1>1 DEF Writes, Accesses
<1>4. CASE Writes("P", "vec3f")
  <2>1. PICK x \in Coord : temp' = [temp EXCEPT ![l][index[l]] = x]
    BY <1>1, <1>4
  <2>2. temp = [k \in Leaf |-> temp[k]] /\ index[l] \in DOMAIN temp[l]
    BY <1>1, <1>4 DEF RefInv, Covered, FilterKept, Opened
  <2>3. temp[l] = [p \in DOMAIN temp[l] |-> temp[l][p]]
    BY DEF RefInv, Values
  <2>4. temp'[l] = [temp[l] EXCEPT ![index[l]] = x] /\ \A k \in Leaf : k # l => temp'[k] = temp[k]
    BY <2>1, <2>2
  <2>5. DOMAIN temp'[l] = DOMAIN temp[l] /\ \A p \in DOMAIN temp[l] :
            temp'[l][p] = IF p = index[l] THEN x ELSE temp[l][p]
    BY <2>3, <2>4
  <2>6. ASSUME NEW r \in Point
        PROVE  VisiblePosition(r)' = IF r = q THEN x ELSE VisiblePosition(r)
    <3>1. r[1] \in Leaf /\ r = <<r[1], r[2]>>
      BY PointIs
    <3>2. CASE r[1] = l
      <4>1. r = q <=> r[2] = index[l]
        BY <3>1, <3>2
      <4> HIDE DEF q
      <4> QED
        BY <1>1, <1>3, <1>4, <2>2, <2>5, <3>2, <4>1 DEF VisiblePosition
    <3>3. CASE r[1] # l
      <4>1. r # q
        BY <3>3
      <4> QED
        BY <1>1, <1>3, <1>4, <2>4, <3>1, <3>3, <4>1 DEF VisiblePosition
    <3> QED
      BY <3>2, <3>3
  <2> HIDE DEF q
  <2>7. PositionSeen' = [PositionSeen EXCEPT ![q] = x]
    BY <2>6 DEF PositionSeen
  <2> QED
    BY <2>7 DEF q
<1>5. CASE ~ Writes("P", "vec3f")
  <2>1. \A r \in Point : VisiblePosition(r) = position[r] /\ VisiblePosition(r)' = position[r]
    BY <1>1, <1>3, <1>5 DEF VisiblePosition
  <2>2. PositionSeen' = [PositionSeen EXCEPT ![q] = position[q]] /\ position[q] \in Coord
    BY <1>2, <2>1 DEF PositionSeen, RefInv, Values
  <2> QED
    BY <2>2
<1> QED
  BY <1>4, <1>5

\* The point is done, and no other.
LEMMA ReturnSeesTodo ==
    ASSUME RefInv, NEW l \in Leaf, ReturnPoint(l)
    PROVE  TodoSeen' = TodoSeen \ {<<l, index[l]>>} /\ StartedSeen' = StartedSeen
<1>1. /\ phase = "kernel" /\ phase' = "kernel" /\ pc[l] = "run" /\ settings' = settings
      /\ member' = member
      /\ \/ Following(l) = {} /\ pc' = [pc EXCEPT ![l] = "done"] /\ index' = index
         \/ Following(l) # {} /\ index' = [index EXCEPT ![l] = Min(Following(l))] /\ pc' = pc
  BY DEF ReturnPoint, executable
<1>2. /\ pc \in [Leaf -> {"wait", "run", "done"}] /\ index \in [Leaf -> Nat]
      /\ index[l] \in Points(PointCount[l])
  BY <1>1 DEF RefInv, IndInv, Shape, LoopSound, KernelInBounds
<1>3. \A k \in Leaf : Selected(k)' = Selected(k)
  BY <1>1 DEF Selected, UsingGroup
<1>4. \A k \in Leaf : k # l => Pending(k)' = Pending(k)
  <2>1. \A k \in Leaf : k # l => pc'[k] = pc[k] /\ index'[k] = index[k]
    BY <1>1, <1>2
  <2> QED
    BY <1>3, <2>1 DEF Pending
<1>5. Pending(l)' = Pending(l) \ {index[l]}
  <2> DEFINE rest == {p \in Selected(l) : p > index[l]}
  <2>1. Pending(l) = {index[l]} \cup rest
    BY <1>1 DEF Pending
  <2>2. index[l] \notin rest
    BY <1>2
  <2>3. Pending(l)' = rest
    <3>1. CASE Following(l) = {}
      <4>1. pc'[l] = "done"
        BY <1>1, <1>2, <3>1
      <4>2. rest = {}
        BY <1>2, <3>1, ReturnedPends
      <4> QED
        BY <4>1, <4>2 DEF Pending
    <3>2. CASE Following(l) # {}
      <4>1. pc'[l] = "run" /\ index'[l] = Min(Following(l))
        BY <1>1, <1>2, <3>2
      <4>2. Pending(l)' = {Min(Following(l))} \cup {p \in Selected(l) : p > Min(Following(l))}
        BY <1>3, <4>1 DEF Pending
      <4> QED
        BY <1>2, <3>2, <4>2, ReturnedPends
    <3> QED
      BY <3>1, <3>2
  <2> HIDE DEF rest
  <2> QED
    BY <2>1, <2>2, <2>3
<1>6. TodoSeen' = TodoSeen \ {<<l, index[l]>>}
  <2>1. TodoSeen' = TodoSeen \ ({l} \X {index[l]})
    BY <1>1, <1>4, <1>5, TodoChanges
  <2>2. {l} \X {index[l]} = {<<l, index[l]>>}
    OBVIOUS
  <2> QED
    BY <2>1, <2>2
<1>7. StartedSeen /\ StartedSeen'
  BY <1>1, <1>2 DEF StartedSeen
<1> QED
  BY <1>6, <1>7

LEMMA ReturnPointRefines ==
    ASSUME RefInv, NEW l \in Leaf, ReturnPoint(l) PROVE \E q \in Point : Kernels!Return(q)
<1> DEFINE q == <<l, index[l]>>
<1>1. phase = "kernel" /\ pc[l] = "run"
  BY DEF ReturnPoint
<1>2. q \in Point /\ q \in TodoSeen /\ StartedSeen
  BY <1>1, RunningIsPending
<1>3. /\ TodoSeen' = TodoSeen \ {q} /\ StartedSeen' = StartedSeen
      /\ GroupsSeen' = GroupsSeen /\ MemberSeen' = MemberSeen
      /\ \E s \in Str : StringSeen' = [StringSeen EXCEPT ![q] = s]
      /\ \E x \in Coord : PositionSeen' = [PositionSeen EXCEPT ![q] = x]
  BY ReturnSeesTodo, ReturnSeesData, ReturnSeesPosition
<1> HIDE DEF q
<1> QED
  BY <1>2, <1>3, ReturnMaps

-----------------------------------------------------------------------------
(* The passes after the kernel.                                            *)

\* Nothing is left to run and the execution goes on.
LEMMA RunIsOver ==
    /\ RefInv /\ phase = "kernel" /\ AllDone => TodoSeen = {} /\ StartedSeen = TRUE
    /\ phase \in {"append", "copy", "drop"} => TodoSeen = {} /\ StartedSeen = TRUE
<1>1. ASSUME RefInv, phase = "kernel", AllDone PROVE TodoSeen = {} /\ StartedSeen = TRUE
  <2>1. Leaf # {} /\ \A l \in Leaf : pc[l] = "done"
    BY <1>1 DEF RefInv, Unopened, AllDone
  <2>2. \A l \in Leaf : Pending(l) = {}
    BY <2>1 DEF Pending
  <2> QED
    BY <1>1, <2>1, <2>2 DEF TodoSeen, StartedSeen
<1> QED
  BY <1>1 DEF TodoSeen, StartedSeen

LEMMA MergeRefines == ASSUME RefInv, Merge \/ AppendGroups PROVE UNCHANGED Kernels!vars
<1>1. /\ UNCHANGED <<registry, member, string, position, leafData, temp>>
      /\ \/ phase = "kernel" /\ AllDone /\ phase' = "append" /\ gridGroups' = gridGroups
         \/ phase = "append" /\ phase' = "copy" /\ gridGroups' = gridGroups \cup groups
  BY DEF Merge, AppendGroups, points, leafs, merged, executable
<1>2. TodoSeen = {} /\ TodoSeen' = {} /\ StartedSeen = TRUE /\ StartedSeen' = TRUE
  <2>1. TodoSeen = {} /\ StartedSeen = TRUE
    BY <1>1, RunIsOver
  <2>2. TodoSeen' = {} /\ StartedSeen' = TRUE
    BY <1>1 DEF TodoSeen, StartedSeen
  <2> QED
    BY <2>1, <2>2
<1>3. GroupsSeen' = GroupsSeen
  BY <1>1 DEF RefInv, Handed, GroupsSeen
<1>4. MemberSeen' = MemberSeen /\ StringSeen' = StringSeen
  BY <1>1 DEF MemberSeen, StringSeen, Visible, VisibleString
<1>5. PositionSeen' = PositionSeen
  <2>1. Writes("P", "vec3f")' = Writes("P", "vec3f")
    BY <1>1 DEF Writes, Accesses
  <2> QED
    BY <1>1, <2>1 DEF PositionSeen, VisiblePosition
<1> QED
  BY <1>2, <1>3, <1>4, <1>5, Stutters DEF seen

\* Copying a leaf changes where its groups and strings are, not what they are.
LEMMA CopyLeafRefines ==
    ASSUME RefInv, NEW l \in Leaf, CopyLeaf(l) PROVE UNCHANGED Kernels!vars
<1>1. /\ phase = "copy" /\ phase' = "copy"
      /\ UNCHANGED <<registry, gridGroups, position, leafData, temp>>
      /\ member' = [g \in Group |->
            IF g \in groups /\ hasGroup(leafData[l], g)
            THEN {q \in member[g] : q[1] # l} \cup CopiedGroup(l, g) ELSE member[g]]
      /\ string' = [q \in Point |->
            IF newStrings /\ q[1] = l THEN StringOf(leafData[l], "s", q[2], string[q]) ELSE string[q]]
  BY DEF CopyLeaf, merged, executable
<1>2. TodoSeen' = TodoSeen /\ StartedSeen' = StartedSeen /\ GroupsSeen' = GroupsSeen
  BY <1>1 DEF TodoSeen, StartedSeen, GroupsSeen
<1>3. PositionSeen' = PositionSeen
  <2>1. Writes("P", "vec3f")' = Writes("P", "vec3f")
    BY <1>1 DEF Writes, Accesses
  <2> QED
    BY <1>1, <2>1 DEF PositionSeen, VisiblePosition
<1>4. MemberSeen' = MemberSeen
  <2>1. ASSUME NEW h \in Group, NEW r \in Point, ~ hasGroup(leafData[r[1]], h)
        PROVE  r \in member'[h] <=> r \in member[h]
    <3>1. r \notin CopiedGroup(l, h) \/ r[1] = l
      BY DEF CopiedGroup
    <3> QED
      BY <1>1, <2>1, <3>1
  <2>2. \A h \in Group : \A r \in Point : r \in Visible(h)' <=> r \in Visible(h)
    BY <1>1, <2>1 DEF Visible
  <2>3. \A h \in Group : Visible(h)' = Visible(h)
    BY <2>2 DEF Visible
  <2> QED
    BY <2>3 DEF MemberSeen
<1>5. StringSeen' = StringSeen
  <2>1. \A r \in Point : VisibleString(r)' = VisibleString(r)
    BY <1>1 DEF VisibleString, StringOf
  <2> QED
    BY <2>1 DEF StringSeen
<1> QED
  BY <1>2, <1>3, <1>4, <1>5, Stutters DEF seen

LEMMA MovePointsRefines == ASSUME RefInv, MovePoints PROVE UNCHANGED Kernels!vars
<1>1. /\ phase = "copy" /\ phase' = "drop"
      /\ UNCHANGED <<gridGroups, member, string, leafData>>
      /\ position' = [q \in Point |->
            IF Writes("P", "vec3f") /\ q[2] \in Selected(q[1]) THEN temp[q[1]][q[2]] ELSE position[q]]
  BY DEF MovePoints, locals, leafs, merged
<1>2. /\ TodoSeen' = TodoSeen /\ StartedSeen' = StartedSeen /\ GroupsSeen' = GroupsSeen
      /\ MemberSeen' = MemberSeen /\ StringSeen' = StringSeen
  BY <1>1 DEF TodoSeen, StartedSeen, GroupsSeen, MemberSeen, StringSeen, Visible, VisibleString
<1>3. PositionSeen' = PositionSeen
  <2>1. ASSUME NEW q \in Point PROVE VisiblePosition(q)' = VisiblePosition(q)
    <3>1. q[1] \in Leaf
      BY PointIs
    <3>2. VisiblePosition(q)' = position'[q]
      BY <1>1 DEF VisiblePosition
    <3>3. Writes("P", "vec3f") => DOMAIN temp[q[1]] = Selected(q[1])
      BY <1>1, <3>1 DEF RefInv, Covered, FilterKept, Opened
    <3> QED
      BY <1>1, <3>2, <3>3 DEF VisiblePosition
  <2> QED
    BY <2>1 DEF PositionSeen
<1> QED
  BY <1>2, <1>3, Stutters DEF seen

-----------------------------------------------------------------------------
(* The refinement.                                                         *)

LEMMA StepRefines ==
    ~ MayLeave /\ RefInv /\ RefInv' /\ [Next]_vars => [Kernels!Next]_(Kernels!vars)
<1> SUFFICES ASSUME ~ MayLeave, RefInv, RefInv', [Next]_vars
             PROVE  Kernels!Next \/ UNCHANGED Kernels!vars
  OBVIOUS
<1>0. phase \in Before => \A l \in Leaf : pc[l] = "wait"
  BY DEF RefInv, IndInv, LoopSound
<1>1. CASE Configure \/ Execute
  BY <1>1, QuietRefines DEF Configure, Execute, MoreCalls, Before, grid, points
<1>2. CASE Rest \/ UNCHANGED vars
  <2>1. UNCHANGED <<registry, settings, gridGroups, member, string, position, phase, leafData,
                    temp, pc, index>>
    BY <1>2 DEF Rest, vars, executable, grid, points, locals, leafs
  <2>2. UNCHANGED <<GroupsSeen, MemberSeen, StringSeen, StartedSeen>>
    BY <2>1 DEF GroupsSeen, MemberSeen, StringSeen, StartedSeen, Visible, VisibleString
  <2>3. Writes("P", "vec3f")' = Writes("P", "vec3f") /\ \A l \in Leaf : Selected(l)' = Selected(l)
    BY <2>1 DEF Writes, Accesses, Selected, UsingGroup
  <2>4. PositionSeen' = PositionSeen
    BY <2>1, <2>3 DEF PositionSeen, VisiblePosition
  <2>5. \A l \in Leaf : Pending(l)' = Pending(l)
    BY <2>1, <2>3 DEF Pending
  <2>6. TodoSeen' = TodoSeen
    BY <2>1, <2>5 DEF TodoSeen
  <2> QED
    BY <2>2, <2>4, <2>6, Stutters DEF seen
<1>3. CASE AppendAttribute
  <2>1. CASE Throw
    BY <1>0, <1>3, <2>1, ThrowRefines DEF AppendAttribute, Before, Kernels!Next
  <2>2. CASE UNCHANGED <<executable, gridGroups, metadata, points, phase>>
    BY <1>3, <2>2, QuietRefines DEF AppendAttribute, Before, points
  <2> QED
    BY <1>3, <2>1, <2>2 DEF AppendAttribute
<1>4. CASE MissingAttribute
  BY <1>0, <1>4, ThrowRefines DEF MissingAttribute, Before, Kernels!Next
<1>5. CASE AppendTemp
  BY <1>5, QuietRefines DEF AppendTemp, Before, points
<1>6. CASE Lookup
  <2>1. CASE Throw
    BY <1>0, <1>6, <2>1, ThrowRefines DEF Lookup, Before, Kernels!Next
  <2>2. CASE HasGroup /\ phase' = "kernel" /\ UNCHANGED <<executable, grid, locals, history>>
    BY <1>6, <2>2, LookupRefines DEF Lookup, executable, grid, points, locals, leafs, Kernels!Next
  <2> QED
    BY <1>6, <2>1, <2>2 DEF Lookup
<1>7. CASE Merge \/ AppendGroups \/ MovePoints
  BY <1>7, MergeRefines, MovePointsRefines
<1>8. CASE DropTemp
  BY <1>8, DropTempRefines DEF Kernels!Next
<1>9. ASSUME NEW l \in Leaf, LeafStep(l) PROVE Kernels!Next \/ UNCHANGED Kernels!vars
  <2>1. CASE OpenLeaf(l)
    BY <2>1, OpenLeafRefines DEF Kernels!Next
  <2>2. CASE ReturnPoint(l)
    BY <2>2, ReturnPointRefines DEF Kernels!Next
  <2>3. CASE CopyLeaf(l)
    BY <2>3, CopyLeafRefines
  <2>4. ASSUME NEW g \in Editable, NEW flag \in BOOLEAN, EditGroup(l, g, flag) PROVE Kernels!Next
    BY <2>4, EditGroupRefines, EditableAssumption DEF Kernels!Next
  <2> QED
    BY <1>9, <2>1, <2>2, <2>3, <2>4 DEF LeafStep
<1> QED
  BY <1>1, <1>2, <1>3, <1>4, <1>5, <1>6, <1>7, <1>8, <1>9 DEF Next, Step

\* PointExecutable::execute runs its kernel once over each point of the execution
\* group, keeps what each run leaves and changes nothing else, and has changed no
\* point if it throws: for any grid, and any kernel that leaves its points in
\* that group.
THEOREM PointExecutionImplementsPointKernels ==
    ASSUME ~ MayLeave PROVE Spec => ImplementsPointKernels
<1>1. RefInv /\ RefInv' /\ [Next]_vars => [Kernels!Next]_(Kernels!vars)
  BY StepRefines
<1> QED
  BY <1>1, InitRefines, RefInvHolds, PTL DEF Spec, ImplementsPointKernels, Kernels!Spec
=============================================================================
