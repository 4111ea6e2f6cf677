------------------------ MODULE PointExecution_proofs -----------------------
(***************************************************************************)
(* The passes of PointExecutable::execute, for any number of leaves and    *)
(* points, any grids, registries and kernels, threaded or not.             *)
(***************************************************************************)
EXTENDS PointExecution, PointLeafLocalData_proofs, FiniteSetTheorems, WellFoundedInduction, TLAPS

-----------------------------------------------------------------------------
(* Leaf data of n points, through the calls a kernel makes.                *)

SoundData(d, n) ==
    IsLeafData(d) /\ GroupsSound(d) /\ NewStringsOnly(d, {}) /\ d.count = n

LEMMA NewKept ==
    ASSUME NEW n PROVE SoundData(NewLeafData(n), n) /\ getGroups(NewLeafData(n)) = {}
BY NewSound DEF SoundData

\* An edit adds its group to those of the leaf, and no other.
LEMMA EditKept ==
    ASSUME NEW n, NEW d, SoundData(d, n), NEW g \in Group, NEW p \in Points(n), NEW flag \in BOOLEAN
    PROVE  LET e == SetBit(getOrInsert(d, g), g, p, flag)
           IN  /\ SoundData(e, n) /\ getGroups(e) = getGroups(d) \cup {g}
               /\ e.strings = d.strings
<1> DEFINE c == getOrInsert(d, g)
           e == SetBit(c, g, p, flag)
<1>1. /\ IsLeafData(c) /\ GroupsSound(c) /\ hasGroup(c, g)
      /\ c.count = d.count /\ c.strings = d.strings
  BY GetOrInsertSound DEF SoundData
<1>2. p \in Points(d.count) /\ d.count = n
  BY DEF SoundData
<1>3. getGroups(e) = getGroups(d) \cup {g}
  BY <1>2, EditReads DEF SoundData
<1> HIDE DEF c
<1>4. IsLeafData(e) /\ GroupsSound(e) /\ e.count = c.count /\ e.strings = c.strings
  BY <1>1, <1>2, SetBitSound
<1> HIDE DEF e
<1> QED
  BY <1>1, <1>2, <1>3, <1>4 DEF SoundData, NewStringsOnly, c, e

\* Strings and compaction leave the groups alone.
LEMMA StringKept ==
    ASSUME NEW n, NEW d, SoundData(d, n), NEW a \in StrArray, NEW p \in Points(n), NEW s \in Str
    PROVE  /\ SoundData(setNewStringData(d, a, p, s), n)
           /\ getGroups(setNewStringData(d, a, p, s)) = getGroups(d)
           /\ SoundData(removeNewStringData(d, a, p), n)
           /\ getGroups(removeNewStringData(d, a, p)) = getGroups(d)
<1>1. IsLeafData(d) /\ GroupsSound(d) /\ NewStringsOnly(d, {}) /\ HasFields(d)
  BY DEF SoundData, IsLeafData
<1>2. d.count = n /\ p \in Points(d.count) /\ s \in Str \ {}
  BY DEF SoundData
<1>3. SoundData(setNewStringData(d, a, p, s), n)
  BY <1>1, <1>2, SetStringSound DEF SoundData
<1>4. SoundData(removeNewStringData(d, a, p), n)
  BY <1>1, <1>2, RemoveStringSound DEF SoundData
<1> QED
  BY <1>1, <1>3, <1>4, SetStringReads, RemoveStringReads DEF getGroups

LEMMA CompactKept ==
    ASSUME NEW n, NEW d, SoundData(d, n)
    PROVE  SoundData(compact(d), n) /\ getGroups(compact(d)) = getGroups(d)
<1>1. IsLeafData(d) /\ GroupsSound(d)
  BY DEF SoundData
<1>2. /\ IsLeafData(compact(d)) /\ GroupsSound(compact(d))
      /\ compact(d).count = d.count /\ compact(d).strings = d.strings
  BY <1>1, CompactSound
<1>3. getGroups(compact(d)) = getGroups(d)
  BY <1>1, CompactReads
<1> QED
  BY <1>2, <1>3 DEF SoundData, NewStringsOnly

-----------------------------------------------------------------------------
(* The loop over the points of a leaf.                                     *)

\* A set of indices that is not empty has a least one.
LEMMA MinExists ==
    ASSUME NEW S \in SUBSET Nat, S # {} PROVE Min(S) \in S /\ \A y \in S : Min(S) <= y
<1> DEFINE less == OpToRel(<, Nat)
<1>1. PICK x \in S : \A y \in S : ~ <<y, x>> \in less
  <2> HIDE DEF less
  <2>1. IsWellFoundedOn(less, Nat)
    BY NatLessThanWellFounded DEF less
  <2> QED
    BY <2>1, WFMin
<1>2. \A y \in S : ~ (y < x)
  BY <1>1, Zenon DEF OpToRel
<1>3. \A y \in S : x <= y
  BY <1>2
<1> QED
  BY <1>3 DEF Min

LEMMA CountIsNat == ASSUME NEW l \in Leaf PROVE PointCount[l] \in Nat
BY PointCountAssumption DEF Leaf

\* The first and the following points are points of the leaf: 0 of an empty leaf
\* is not, and the unsigned bound of the loop is the last index of any other.
LEMMA StartInBounds ==
    ASSUME NEW l \in Leaf PROVE StartSet(l) \subseteq Points(PointCount[l])
BY CountIsNat DEF StartSet, Selected, Points

LEMMA FollowingInBounds ==
    ASSUME NEW l \in Leaf, index[l] \in Points(PointCount[l])
    PROVE  Following(l) \subseteq Points(PointCount[l])
<1> DEFINE m == 2^IndexWidth
<1>1. m \in Nat /\ PointCount[l] \in Nat /\ PointCount[l] < m
  BY CountIsNat, IndexWidthAssumption
<1>2. CASE UsingGroup
  BY <1>2 DEF Following, Selected
<1>3. CASE ~ UsingGroup
  <2>1. Following(l) = IF index[l] < (PointCount[l] - 1) % m THEN {index[l] + 1} ELSE {}
    BY <1>3 DEF Following
  <2> HIDE DEF m
  <2>2. PointCount[l] - 1 \in Nat /\ (PointCount[l] - 1) % m = PointCount[l] - 1
    BY <1>1 DEF Points
  <2> QED
    BY <1>1, <2>1, <2>2 DEF Points
<1> QED
  BY <1>2, <1>3

-----------------------------------------------------------------------------
(* The inductive invariant.                                                *)

Before == {"idle", "attributes", "lookup"}

\* The types of what the passes hand on.
Shape ==
    /\ phase \in Before \cup {"kernel", "append", "copy", "drop"}
    /\ pc \in [Leaf -> {"wait", "run", "done"}]
    /\ index \in [Leaf -> Nat]
    /\ member \in [Group -> SUBSET Point]
    /\ gridGroups \subseteq Group
    /\ leafData = [l \in Leaf |-> leafData[l]]
    /\ \A l \in Leaf : SoundData(leafData[l], PointCount[l]) /\ getGroups(leafData[l]) \subseteq Group

\* No leaf runs before the kernel is looked up, and none runs out of its points.
LoopSound ==
    /\ phase \in Before => \A l \in Leaf : pc[l] = "wait"
    /\ KernelInBounds

\* A leaf keeps only groups the grid does not have, until they are appended to
\* it, and a group the grid does not have holds no point.
GroupsApart ==
    /\ phase \in Before \cup {"kernel"} =>
            \A l \in Leaf : getGroups(leafData[l]) \cap gridGroups = {}
    /\ phase = "append" => groups \subseteq Group /\ groups \cap gridGroups = {}
    /\ phase = "copy" => groups \subseteq gridGroups
    /\ \A g \in Group \ gridGroups : member[g] = {}

\* What the leaves have collected is in the metadata once they are merged.
StringsSound ==
    phase \in {"append", "copy"} => \A l \in Leaf :
        Resolvable(l) /\ (NewStringSet(leafData[l]) # {} => newStrings)

IndInv == Shape /\ LoopSound /\ GroupsApart /\ StringsSound

LEMMA InitSound == Init => IndInv
<1> SUFFICES ASSUME Init PROVE IndInv
  OBVIOUS
<1>1. PICK map \in GridGroups :
          /\ gridGroups = DOMAIN map
          /\ member = [g \in Group |-> IF g \in DOMAIN map THEN map[g] ELSE {}]
  BY DEF Init
<1>2. /\ phase = "idle" /\ pc = [l \in Leaf |-> "wait"] /\ index = [l \in Leaf |-> 0]
      /\ leafData = NoLeafData
  BY DEF Init, All
<1>3. \A l \in Leaf : SoundData(leafData[l], PointCount[l]) /\ getGroups(leafData[l]) = {}
  BY <1>2, NewKept DEF NoLeafData
<1>4. Shape
  BY <1>1, <1>2, <1>3, GridGroupsAssumption DEF Shape, Before, NoLeafData
<1>5. LoopSound /\ GroupsApart /\ StringsSound
  BY <1>1, <1>2, <1>3 DEF LoopSound, KernelInBounds, GroupsApart, StringsSound
<1> QED
  BY <1>4, <1>5 DEF IndInv

\* An execution that ends, by return or by exception, is as if it never began.
LEMMA LeaveSound == ASSUME IndInv, Leave, member' = member PROVE IndInv'
<1>1. /\ phase' = "idle" /\ pc' = [l \in Leaf |-> "wait"] /\ index' = [l \in Leaf |-> 0]
      /\ leafData' = NoLeafData /\ gridGroups' = gridGroups
  BY DEF Leave, All
<1>2. \A l \in Leaf : SoundData(leafData'[l], PointCount[l]) /\ getGroups(leafData'[l]) = {}
  BY <1>1, NewKept DEF NoLeafData
<1>3. Shape'
  BY <1>1, <1>2 DEF IndInv, Shape, Before, NoLeafData
<1>4. LoopSound' /\ GroupsApart' /\ StringsSound'
  BY <1>1, <1>2 DEF IndInv, LoopSound, KernelInBounds, GroupsApart, StringsSound
<1> QED
  BY <1>3, <1>4 DEF IndInv

\* The serial passes that only change attributes, positions or the caller's settings.
LEMMA QuietSound ==
    ASSUME IndInv,
           UNCHANGED <<member, gridGroups, metadata, groups, newStrings, leafData, pc, index>>,
           \/ phase' = phase
           \/ phase \in Before /\ phase' \in Before \cup {"kernel"}
           \/ phase = "copy" /\ phase' = "drop"
    PROVE  IndInv'
<1>1. Shape'
  BY DEF IndInv, Shape, Before, getGroups
<1>2. LoopSound'
  BY DEF IndInv, LoopSound, KernelInBounds, Before
<1>3. GroupsApart'
  BY DEF IndInv, GroupsApart, Before, getGroups
<1>4. StringsSound'
  BY DEF IndInv, StringsSound, Before, Resolvable
<1> QED
  BY <1>1, <1>2, <1>3, <1>4 DEF IndInv

-----------------------------------------------------------------------------
(* The parallel passes.                                                    *)

LEMMA OpenLeafSound == ASSUME IndInv, NEW l \in Leaf, OpenLeaf(l) PROVE IndInv'
<1>1. CASE BindFails /\ Throw
  BY <1>1, LeaveSound DEF Throw, points
<1>2. CASE ~ BindFails
  <2>1. /\ phase = "kernel" /\ phase' = "kernel"
        /\ leafData' = [leafData EXCEPT ![l] = NewLeafData(PointCount[l])]
        /\ UNCHANGED <<gridGroups, member>>
        /\ \/ StartSet(l) = {} /\ pc' = [pc EXCEPT ![l] = "done"] /\ index' = index
           \/ /\ StartSet(l) # {}
              /\ pc' = [pc EXCEPT ![l] = "run"] /\ index' = [index EXCEPT ![l] = Min(StartSet(l))]
    BY <1>2 DEF OpenLeaf, grid, points
  <2>2. \A k \in Leaf : leafData'[k] = IF k = l THEN NewLeafData(PointCount[l]) ELSE leafData[k]
    BY <2>1 DEF IndInv, Shape
  <2>3. \A k \in Leaf : /\ SoundData(leafData'[k], PointCount[k])
                        /\ getGroups(leafData'[k]) = IF k = l THEN {} ELSE getGroups(leafData[k])
    BY <2>2, NewKept DEF IndInv, Shape
  <2>4. StartSet(l) # {} => Min(StartSet(l)) \in Points(PointCount[l]) /\ Min(StartSet(l)) \in Nat
    BY StartInBounds, MinExists, CountIsNat DEF Points
  <2>5. Shape'
    BY <2>1, <2>3, <2>4 DEF IndInv, Shape
  <2>6. LoopSound'
    BY <2>1, <2>4 DEF IndInv, Shape, LoopSound, KernelInBounds, Before
  <2>7. GroupsApart' /\ StringsSound'
    BY <2>1, <2>3 DEF IndInv, GroupsApart, StringsSound, Before
  <2> QED
    BY <2>5, <2>6, <2>7 DEF IndInv
<1> QED
  BY <1>1, <1>2 DEF OpenLeaf

LEMMA EditGroupSound ==
    ASSUME IndInv, NEW l \in Leaf, NEW g \in Editable, NEW flag \in BOOLEAN, EditGroup(l, g, flag)
    PROVE  IndInv'
<1>1. /\ phase = "kernel" /\ phase' = "kernel" /\ pc[l] = "run"
      /\ UNCHANGED <<gridGroups, pc, index>> /\ g \in Group
  BY EditableAssumption DEF EditGroup
<1>2. LoopSound'
  BY <1>1 DEF IndInv, LoopSound, KernelInBounds, Before
<1>3. CASE /\ g \in gridGroups /\ leafData' = leafData
           /\ member' = [member EXCEPT ![g] =
                IF flag THEN @ \cup {<<l, index[l]>>} ELSE @ \ {<<l, index[l]>>}]
  <2>1. <<l, index[l]>> \in Point
    BY <1>1 DEF IndInv, LoopSound, KernelInBounds, Point
  <2>2. Shape'
    BY <1>1, <1>3, <2>1 DEF IndInv, Shape
  <2>3. GroupsApart' /\ StringsSound'
    BY <1>1, <1>3 DEF IndInv, Shape, GroupsApart, StringsSound, Before
  <2> QED
    BY <1>2, <2>2, <2>3 DEF IndInv
<1>4. CASE /\ g \notin gridGroups /\ member' = member
           /\ leafData' = [leafData EXCEPT ![l] = SetBit(getOrInsert(@, g), g, index[l], flag)]
  <2> DEFINE e == SetBit(getOrInsert(leafData[l], g), g, index[l], flag)
  <2>1. SoundData(e, PointCount[l]) /\ getGroups(e) = getGroups(leafData[l]) \cup {g}
    BY <1>1, EditKept DEF IndInv, Shape, LoopSound, KernelInBounds
  <2>2. \A k \in Leaf : leafData'[k] = IF k = l THEN e ELSE leafData[k]
    BY <1>4 DEF IndInv, Shape
  <2> HIDE DEF e
  <2>3. \A k \in Leaf : /\ SoundData(leafData'[k], PointCount[k])
                        /\ getGroups(leafData'[k]) =
                             IF k = l THEN getGroups(leafData[k]) \cup {g} ELSE getGroups(leafData[k])
    BY <2>1, <2>2 DEF IndInv, Shape
  <2>4. leafData' = [k \in Leaf |-> leafData'[k]]
    BY <1>4 DEF IndInv, Shape
  <2>5. Shape'
    BY <1>1, <1>4, <2>3, <2>4 DEF IndInv, Shape
  <2>6. GroupsApart' /\ StringsSound'
    BY <1>1, <1>4, <2>3 DEF IndInv, Shape, GroupsApart, StringsSound, Before
  <2> QED
    BY <1>2, <2>5, <2>6 DEF IndInv
<1> QED
  BY <1>3, <1>4 DEF EditGroup

LEMMA ReturnPointSound == ASSUME IndInv, NEW l \in Leaf, ReturnPoint(l) PROVE IndInv'
<1>1. /\ phase = "kernel" /\ phase' = "kernel" /\ pc[l] = "run"
      /\ UNCHANGED <<gridGroups, member>>
      /\ \/ Following(l) = {} /\ pc' = [pc EXCEPT ![l] = "done"] /\ index' = index
         \/ Following(l) # {} /\ index' = [index EXCEPT ![l] = Min(Following(l))] /\ pc' = pc
  BY DEF ReturnPoint
<1>2. PICK set \in IF Writes("s", "string") THEN {SetAttribStr(l, s) : s \in Str}
                   ELSE {<<string, leafData[l]>>} :
          leafData' = [leafData EXCEPT ![l] = IF Following(l) = {} THEN compact(set[2]) ELSE set[2]]
  BY DEF ReturnPoint
<1>3. SoundData(set[2], PointCount[l]) /\ getGroups(set[2]) = getGroups(leafData[l])
  <2>1. SoundData(leafData[l], PointCount[l])
    BY DEF IndInv, Shape
  <2>2. CASE set = <<string, leafData[l]>>
    BY <2>1, <2>2
  <2>3. ASSUME NEW s \in Str, set = SetAttribStr(l, s)
        PROVE  SoundData(set[2], PointCount[l]) /\ getGroups(set[2]) = getGroups(leafData[l])
    <3>1. \/ set[2] = removeNewStringData(leafData[l], "s", index[l])
          \/ set[2] = setNewStringData(leafData[l], "s", index[l], s)
      BY <2>3 DEF SetAttribStr
    <3> QED
      BY <1>1, <2>1, <3>1, StringKept, ValueAssumption DEF IndInv, LoopSound, KernelInBounds
  <2> QED
    BY <2>2, <2>3
<1> DEFINE e == IF Following(l) = {} THEN compact(set[2]) ELSE set[2]
<1>4. SoundData(e, PointCount[l]) /\ getGroups(e) = getGroups(leafData[l])
  BY <1>3, CompactKept
<1>5. /\ \A k \in Leaf : leafData'[k] = IF k = l THEN e ELSE leafData[k]
      /\ leafData' = [k \in Leaf |-> leafData'[k]]
  BY <1>2 DEF IndInv, Shape
<1> HIDE DEF e
<1>6. \A k \in Leaf : SoundData(leafData'[k], PointCount[k]) /\ getGroups(leafData'[k]) = getGroups(leafData[k])
  BY <1>4, <1>5 DEF IndInv, Shape
<1>7. Following(l) # {} => Min(Following(l)) \in Points(PointCount[l]) /\ Min(Following(l)) \in Nat
  <2>1. Following(l) \subseteq Points(PointCount[l])
    BY <1>1, FollowingInBounds DEF IndInv, LoopSound, KernelInBounds
  <2>2. Points(PointCount[l]) \subseteq Nat
    BY CountIsNat DEF Points
  <2> QED
    BY <2>1, <2>2, MinExists
<1>8. Shape'
  BY <1>1, <1>5, <1>6, <1>7 DEF IndInv, Shape
<1>9. LoopSound'
  BY <1>1, <1>7 DEF IndInv, Shape, LoopSound, KernelInBounds, Before
<1>10. GroupsApart' /\ StringsSound'
  BY <1>1, <1>6 DEF IndInv, GroupsApart, StringsSound, Before
<1> QED
  BY <1>8, <1>9, <1>10 DEF IndInv

LEMMA CopyLeafSound == ASSUME IndInv, NEW l \in Leaf, CopyLeaf(l) PROVE IndInv'
<1>1. /\ phase = "copy" /\ phase' = "copy"
      /\ UNCHANGED <<gridGroups, metadata, groups, newStrings, leafData, index>>
      /\ pc' = [pc EXCEPT ![l] = "done"]
      /\ member' = [g \in Group |->
            IF g \in groups /\ hasGroup(leafData[l], g)
            THEN {q \in member[g] : q[1] # l} \cup CopiedGroup(l, g) ELSE member[g]]
  BY DEF CopyLeaf, merged
<1>2. \A g : CopiedGroup(l, g) \subseteq Point
  BY DEF CopiedGroup, Point
<1>3. member' \in [Group -> SUBSET Point]
  BY <1>1, <1>2 DEF IndInv, Shape
<1>4. Shape'
  BY <1>1, <1>3 DEF IndInv, Shape
<1>5. LoopSound' /\ StringsSound'
  BY <1>1 DEF IndInv, LoopSound, KernelInBounds, Before, StringsSound, Resolvable
<1>6. GroupsApart'
  BY <1>1 DEF IndInv, GroupsApart, Before
<1> QED
  BY <1>4, <1>5, <1>6 DEF IndInv

-----------------------------------------------------------------------------
(* The serial passes between them.                                         *)

LEMMA MergeSound == ASSUME IndInv, Merge PROVE IndInv'
<1>1. /\ phase = "kernel" /\ phase' = "append"
      /\ UNCHANGED <<gridGroups, member, leafData, pc, index>>
      /\ groups' = UNION {getGroups(leafData[l]) : l \in Leaf}
      /\ metadata' = metadata \cup UNION {NewStringSet(leafData[l]) : l \in Leaf}
      /\ newStrings' = \E l \in Leaf : HasNewStrings(leafData[l])
  BY DEF Merge, points, leafs
<1>2. Shape' /\ LoopSound'
  BY <1>1 DEF IndInv, Shape, LoopSound, KernelInBounds, Before
<1>3. GroupsApart'
  BY <1>1 DEF IndInv, Shape, GroupsApart, Before
<1>4. ASSUME NEW l \in Leaf
      PROVE  /\ NewStringSet(leafData[l]) \subseteq metadata'
             /\ NewStringSet(leafData[l]) # {} => HasNewStrings(leafData[l])
  BY <1>1 DEF NewStringSet, HasNewStrings
<1>5. StringsSound'
  BY <1>1, <1>4 DEF StringsSound, Resolvable
<1> QED
  BY <1>2, <1>3, <1>5 DEF IndInv

LEMMA AppendGroupsSound == ASSUME IndInv, AppendGroups PROVE IndInv'
<1>1. /\ phase = "append" /\ phase' = "copy"
      /\ UNCHANGED <<metadata, member, groups, newStrings, leafData, index>>
      /\ gridGroups' = gridGroups \cup groups
      /\ pc' = [l \in Leaf |-> "wait"]
  BY DEF AppendGroups, points, merged, All
<1>2. Shape' /\ LoopSound'
  BY <1>1 DEF IndInv, Shape, LoopSound, KernelInBounds, GroupsApart, Before
<1>3. GroupsApart' /\ StringsSound'
  BY <1>1 DEF IndInv, GroupsApart, StringsSound, Resolvable, Before
<1> QED
  BY <1>2, <1>3 DEF IndInv

LEMMA StepSound == IndInv /\ [Next]_vars => IndInv'
<1> SUFFICES ASSUME IndInv, [Next]_vars PROVE IndInv'
  OBVIOUS
<1> USE DEF grid, points, merged, leafs, locals, history, executable
<1>1. CASE Configure \/ Execute \/ Lookup \/ Rest \/ UNCHANGED vars
  BY <1>1, QuietSound, LeaveSound DEF Configure, Execute, Lookup, Rest, MoreCalls, Throw, Before, vars
<1>2. CASE AppendAttribute
  BY <1>2, QuietSound, LeaveSound DEF AppendAttribute, Throw
<1>3. CASE MissingAttribute \/ DropTemp
  BY <1>3, LeaveSound DEF MissingAttribute, DropTemp, Throw
<1>4. CASE AppendTemp
  BY <1>4, QuietSound DEF AppendTemp, Before
<1>5. CASE MovePoints
  BY <1>5, QuietSound DEF MovePoints
<1>6. CASE Merge \/ AppendGroups
  BY <1>6, MergeSound, AppendGroupsSound
<1>7. CASE \E l \in Leaf : LeafStep(l)
  BY <1>7, OpenLeafSound, EditGroupSound, ReturnPointSound, CopyLeafSound DEF LeafStep
<1> QED
  BY <1>1, <1>2, <1>3, <1>4, <1>5, <1>6, <1>7 DEF Next, Step

\* Loops, groups and strings are sound through all passes of any executions.
THEOREM PassesSound == Spec => []IndInv
BY InitSound, StepSound, PTL DEF Spec

-----------------------------------------------------------------------------
(* What the kernel and the copies rely on.                                 *)

\* No kernel runs on an index that is no point of its leaf.
THEOREM KernelStaysInBounds == Spec => []KernelInBounds
<1>1. IndInv => KernelInBounds
  BY DEF IndInv, LoopSound
<1> QED
  BY <1>1, PassesSound, PTL

\* No copy of a leaf meets a string the metadata lacks.
THEOREM StringsAreResolvable == Spec => []StringsResolvable
<1>1. IndInv => StringsResolvable
  BY DEF IndInv, StringsSound, StringsResolvable
<1> QED
  BY <1>1, PassesSound, PTL

\* A grid that has a group keeps having one, so that the kernel's vector of
\* handles, without which no group is looked up, has data.
HasGroups == gridGroups # {}

LEMMA GroupsAreKept == HasGroups /\ [Next]_vars => HasGroups'
<1> SUFFICES ASSUME [Next]_vars, gridGroups # {} PROVE gridGroups' # {}
  BY DEF HasGroups
<1> USE DEF grid
<1>1. CASE Configure \/ Execute \/ Lookup \/ Rest \/ UNCHANGED vars
  BY <1>1 DEF Configure, Execute, Lookup, Rest, Throw, Leave, vars
<1>2. CASE AppendAttribute \/ MissingAttribute \/ AppendTemp
  BY <1>2 DEF AppendAttribute, MissingAttribute, AppendTemp, Throw, Leave
<1>3. CASE Merge \/ AppendGroups \/ MovePoints \/ DropTemp
  BY <1>3 DEF Merge, AppendGroups, MovePoints, DropTemp, Leave
<1>4. ASSUME NEW l \in Leaf, LeafStep(l) PROVE gridGroups' # {}
  BY <1>4 DEF LeafStep, OpenLeaf, ReturnPoint, CopyLeaf, EditGroup, Throw, Leave
<1> QED
  BY <1>1, <1>2, <1>3, <1>4 DEF Next, Step

\* On a grid that has a group, ingroup tells what the edits before it left,
\* whether they went to the grid or to the leaf.
THEOREM IngroupSeesEdits ==
    ASSUME \A map \in GridGroups : DOMAIN map # {} PROVE Spec => []IngroupAgrees
<1>1. Init => HasGroups
  BY DEF Init, HasGroups
<1>2. IndInv /\ HasGroups => IngroupAgrees
  <2> SUFFICES ASSUME IndInv, gridGroups # {}, NEW l \in Leaf, phase = "kernel", pc[l] = "run",
                      NEW g \in Group
               PROVE  ingroup(l, g) <=> <<l, index[l]>> \in Visible(g)
    BY DEF IngroupAgrees, HasGroups
  <2> DEFINE q == <<l, index[l]>>
  <2>1. q \in Point
    BY DEF IndInv, LoopSound, KernelInBounds, Point
  <2>2. q \in Visible(g) <=> IF hasGroup(leafData[l], g) THEN GetBit(leafData[l], g, index[l])
                             ELSE q \in member[g]
    BY <2>1 DEF Visible
  <2>3. hasGroup(leafData[l], g) => g \notin gridGroups
    BY DEF IndInv, GroupsApart, hasGroup, getGroups
  <2>4. g \notin gridGroups => q \notin member[g]
    BY DEF IndInv, GroupsApart
  <2> QED
    BY <2>2, <2>3, <2>4 DEF ingroup
<1> QED
  BY <1>1, <1>2, GroupsAreKept, PassesSound, PTL DEF Spec

-----------------------------------------------------------------------------
(* The temporary position attribute and the execution group.               *)

\* Leaf l has been opened by the execution under way.
Opened(l) == phase \in {"append", "copy"} \/ (phase = "kernel" /\ pc[l] # "wait")

\* The execution group is on the grid, and an opened leaf has a temporary
\* position for the point it runs and for every point still to be moved.
Covered ==
    /\ settings \in Settings
    /\ temp = [l \in Leaf |-> temp[l]]
    /\ phase \in {"kernel", "append", "copy"} /\ UsingGroup => settings.group \in gridGroups
    /\ phase \in {"append", "copy"} /\ UsingGroup => settings.group \notin groups
    /\ Writes("P", "vec3f") => \A l \in Leaf :
        /\ Opened(l) => Selected(l) \subseteq DOMAIN temp[l]
        /\ phase = "kernel" /\ pc[l] = "run" => index[l] \in DOMAIN temp[l]

\* If kernels leave their points in the execution group, the filter lets the same
\* points through when they are moved as when their leaf was opened.
FilterKept ==
    /\ phase = "kernel" => \A l \in Leaf : pc[l] = "run" => index[l] \in Selected(l)
    /\ Writes("P", "vec3f") => \A l \in Leaf : Opened(l) => DOMAIN temp[l] \subseteq Selected(l)

LEMMA FilterInit == Init => Covered /\ FilterKept
BY DEF Init, Covered, FilterKept, Settings, Opened, All

LEMMA FilterLeave == ASSUME Covered, Leave PROVE Covered' /\ FilterKept'
BY DEF Covered, FilterKept, Opened, Leave, All, executable

LEMMA FilterOpen ==
    ASSUME IndInv, Covered, NEW l \in Leaf, OpenLeaf(l) PROVE Covered' /\ (FilterKept => FilterKept')
<1>1. CASE BindFails /\ Throw
  BY <1>1, FilterLeave DEF Throw
<1>2. CASE ~ BindFails
  <2>1. /\ phase = "kernel" /\ phase' = "kernel"
        /\ UNCHANGED <<registry, settings, gridGroups, member>>
        /\ temp' = IF UsingPosition
                   THEN [temp EXCEPT ![l] = [p \in Selected(l) |-> position[<<l, p>>]]] ELSE temp
        /\ \/ StartSet(l) = {} /\ pc' = [pc EXCEPT ![l] = "done"] /\ index' = index
           \/ /\ StartSet(l) # {}
              /\ pc' = [pc EXCEPT ![l] = "run"] /\ index' = [index EXCEPT ![l] = Min(StartSet(l))]
    BY <1>2 DEF OpenLeaf, grid, points, executable
  <2>2. \A k \in Leaf : Selected(k)' = Selected(k)
    BY <2>1 DEF Selected, UsingGroup
  <2>3. StartSet(l) # {} => Min(StartSet(l)) \in Selected(l)
    <3>1. StartSet(l) \subseteq Selected(l) /\ StartSet(l) \subseteq Nat
      BY CountIsNat DEF StartSet, Selected, Points
    <3> QED
      BY <3>1, MinExists
  <2>4. Writes("P", "vec3f") => UsingPosition
    BY DEF Writes, UsingPosition
  <2>5. Writes("P", "vec3f")' = Writes("P", "vec3f") /\ UsingGroup' = UsingGroup
    BY <2>1 DEF Writes, Accesses, UsingGroup
  <2>6. pc'[l] = "run" => index'[l] \in Selected(l)
    BY <2>1, <2>3 DEF IndInv, Shape
  <2>7. \A k \in Leaf : k # l => pc'[k] = pc[k] /\ index'[k] = index[k] /\ temp'[k] = temp[k]
    BY <2>1 DEF IndInv, Shape, Covered
  <2>8. temp' = [k \in Leaf |-> temp'[k]] /\ (Writes("P", "vec3f") => DOMAIN temp'[l] = Selected(l))
    BY <2>1, <2>4 DEF Covered
  <2>9. Covered'
    BY <2>1, <2>2, <2>5, <2>6, <2>7, <2>8 DEF Covered, Opened
  <2>10. FilterKept => FilterKept'
    BY <2>1, <2>2, <2>5, <2>6, <2>7, <2>8 DEF FilterKept, Opened
  <2> QED
    BY <2>9, <2>10
<1> QED
  BY <1>1, <1>2 DEF OpenLeaf

\* An edit lets no other point through than that of the kernel, and the same
\* points if the kernel leaves its point in the execution group.
LEMMA EditSelects ==
    ASSUME IndInv, Covered, NEW l \in Leaf, NEW g \in Editable, NEW flag \in BOOLEAN,
           EditGroup(l, g, flag)
    PROVE  /\ \A k \in Leaf : k # l => Selected(k)' = Selected(k)
           /\ Selected(l)' \subseteq Selected(l) \cup {index[l]}
           /\ ~ MayLeave /\ FilterKept => Selected(l)' = Selected(l)
<1>1. /\ phase = "kernel" /\ pc[l] = "run" /\ settings' = settings
      /\ g = settings.group => flag \/ MayLeave
      /\ \/ member' = member
         \/ member' = [member EXCEPT ![g] =
                IF flag THEN @ \cup {<<l, index[l]>>} ELSE @ \ {<<l, index[l]>>}]
  BY DEF EditGroup, executable
<1>2. CASE ~ UsingGroup
  BY <1>1, <1>2 DEF Selected, UsingGroup
<1>3. CASE UsingGroup
  <2>1. settings.group \in Group /\ member \in [Group -> SUBSET Point]
    BY <1>1, <1>3 DEF IndInv, Shape, Covered
  <2>2. \A q : q # <<l, index[l]>> => (q \in member'[settings.group] <=> q \in member[settings.group])
    BY <1>1, <2>1
  <2>3. \A k \in Leaf : k # l => Selected(k)' = Selected(k)
    BY <1>1, <1>3, <2>2 DEF Selected, UsingGroup
  <2>4. Selected(l)' \subseteq Selected(l) \cup {index[l]}
    BY <1>1, <1>3, <2>2 DEF Selected, UsingGroup
  <2>5. ASSUME ~ MayLeave, FilterKept PROVE Selected(l)' = Selected(l)
    <3>1. <<l, index[l]>> \in member[settings.group]
      BY <1>1, <1>3, <2>5 DEF FilterKept, Selected
    <3>2. <<l, index[l]>> \in member'[settings.group]
      BY <1>1, <2>1, <2>5, <3>1
    <3> QED
      BY <1>1, <1>3, <2>2, <3>1, <3>2 DEF Selected, UsingGroup
  <2> QED
    BY <2>3, <2>4, <2>5
<1> QED
  BY <1>2, <1>3

LEMMA FilterEdit ==
    ASSUME IndInv, Covered, NEW l \in Leaf, NEW g \in Editable, NEW flag \in BOOLEAN,
           EditGroup(l, g, flag)
    PROVE  Covered' /\ (~ MayLeave /\ FilterKept => FilterKept')
<1>1. /\ phase = "kernel" /\ phase' = "kernel" /\ pc[l] = "run"
      /\ UNCHANGED <<registry, settings, gridGroups, pc, index, temp>>
  BY DEF EditGroup, executable
<1>2. Writes("P", "vec3f")' = Writes("P", "vec3f") /\ UsingGroup' = UsingGroup
  BY <1>1 DEF Writes, Accesses, UsingGroup
<1>3. Covered'
  BY <1>1, <1>2, EditSelects DEF Covered, Opened
<1>4. ASSUME ~ MayLeave, FilterKept PROVE FilterKept'
  <2>1. \A k \in Leaf : Selected(k)' = Selected(k)
    BY <1>4, EditSelects
  <2> QED
    BY <1>1, <1>2, <1>4, <2>1 DEF FilterKept, Opened
<1> QED
  BY <1>3, <1>4

LEMMA FilterReturn ==
    ASSUME IndInv, Covered, NEW l \in Leaf, ReturnPoint(l)
    PROVE  Covered' /\ (FilterKept => FilterKept')
<1>1. /\ phase = "kernel" /\ phase' = "kernel" /\ pc[l] = "run"
      /\ UNCHANGED <<registry, settings, gridGroups, member>>
      /\ \/ Writes("P", "vec3f") /\ \E x \in Coord : temp' = [temp EXCEPT ![l][index[l]] = x]
         \/ ~ Writes("P", "vec3f") /\ temp' = IF Following(l) = {} THEN [temp EXCEPT ![l] = EmptyMap] ELSE temp
      /\ \/ Following(l) = {} /\ pc' = [pc EXCEPT ![l] = "done"] /\ index' = index
         \/ Following(l) # {} /\ index' = [index EXCEPT ![l] = Min(Following(l))] /\ pc' = pc
  BY DEF ReturnPoint, executable
<1>2. \A k \in Leaf : Selected(k)' = Selected(k)
  BY <1>1 DEF Selected, UsingGroup
<1>3. Writes("P", "vec3f")' = Writes("P", "vec3f") /\ UsingGroup' = UsingGroup
  BY <1>1 DEF Writes, Accesses, UsingGroup
<1>4. Following(l) # {} => Min(Following(l)) \in Selected(l)
  <2>1. Following(l) \subseteq Selected(l)
    <3>1. Following(l) \subseteq Points(PointCount[l])
      BY <1>1, FollowingInBounds DEF IndInv, LoopSound, KernelInBounds
    <3> QED
      BY <3>1 DEF Following, Selected
  <2>2. Selected(l) \subseteq Nat
    BY CountIsNat DEF Selected, Points
  <2> QED
    BY <2>1, <2>2, MinExists
<1>5. \A k \in Leaf : /\ k # l => pc'[k] = pc[k] /\ index'[k] = index[k]
                      /\ pc'[k] # "wait" => pc[k] # "wait"
                      /\ pc'[l] = "run" => index'[l] \in Selected(l)
  BY <1>1, <1>4 DEF IndInv, Shape
<1>6. /\ temp' = [k \in Leaf |-> temp'[k]]
      /\ Writes("P", "vec3f") => \A k \in Leaf : DOMAIN temp'[k] = DOMAIN temp[k]
  BY <1>1 DEF Covered
<1>7. Writes("P", "vec3f") /\ pc'[l] = "run" => index'[l] \in DOMAIN temp[l]
  BY <1>1, <1>5 DEF Covered, Opened
<1>8. Covered'
  BY <1>1, <1>2, <1>3, <1>5, <1>6, <1>7 DEF Covered, Opened
<1>9. FilterKept => FilterKept'
  BY <1>1, <1>2, <1>3, <1>5, <1>6 DEF FilterKept, Opened
<1> QED
  BY <1>8, <1>9

LEMMA FilterCopy ==
    ASSUME IndInv, Covered, NEW l \in Leaf, CopyLeaf(l) PROVE Covered' /\ (FilterKept => FilterKept')
<1>1. /\ phase = "copy" /\ phase' = "copy"
      /\ UNCHANGED <<registry, settings, gridGroups, groups, temp>>
      /\ member' = [g \in Group |->
            IF g \in groups /\ hasGroup(leafData[l], g)
            THEN {q \in member[g] : q[1] # l} \cup CopiedGroup(l, g) ELSE member[g]]
  BY DEF CopyLeaf, merged, executable
<1>2. UsingGroup => member'[settings.group] = member[settings.group]
  BY <1>1 DEF IndInv, Shape, Covered
<1>3. \A k \in Leaf : Selected(k)' = Selected(k)
  BY <1>1, <1>2 DEF Selected, UsingGroup
<1>4. Writes("P", "vec3f")' = Writes("P", "vec3f") /\ UsingGroup' = UsingGroup
  BY <1>1 DEF Writes, Accesses, UsingGroup
<1> QED
  BY <1>1, <1>3, <1>4 DEF Covered, FilterKept, Opened

LEMMA FilterMerge ==
    ASSUME IndInv, Covered, Merge \/ AppendGroups PROVE Covered' /\ (FilterKept => FilterKept')
<1>1. /\ UNCHANGED <<registry, settings, member, temp>>
      /\ \/ /\ phase = "kernel" /\ AllDone /\ phase' = "append"
            /\ groups' = UNION {getGroups(leafData[l]) : l \in Leaf}
            /\ gridGroups' = gridGroups
         \/ /\ phase = "append" /\ phase' = "copy"
            /\ groups' = groups /\ gridGroups' = gridGroups \cup groups
  BY DEF Merge, AppendGroups, points, leafs, merged, executable
<1>2. \A k \in Leaf : Selected(k)' = Selected(k)
  BY <1>1 DEF Selected, UsingGroup
<1>3. Writes("P", "vec3f")' = Writes("P", "vec3f") /\ UsingGroup' = UsingGroup
  BY <1>1 DEF Writes, Accesses, UsingGroup
<1>4. phase = "kernel" => gridGroups \cap UNION {getGroups(leafData[l]) : l \in Leaf} = {}
  BY DEF IndInv, GroupsApart
<1>5. phase' \in {"append", "copy"} /\ \A l \in Leaf : Opened(l)
  BY <1>1 DEF Opened, AllDone
<1>6. Covered'
  BY <1>1, <1>2, <1>3, <1>4, <1>5 DEF Covered
<1>7. FilterKept => FilterKept'
  BY <1>1, <1>2, <1>3, <1>5 DEF FilterKept
<1> QED
  BY <1>6, <1>7

LEMMA FilterSerial ==
    ASSUME IndInv, Covered,
           UNCHANGED <<registry, gridGroups, member, groups, temp, pc, index>>,
           settings' \in Settings,
           \/ settings' = settings /\ phase' = phase
           \/ phase' \in Before \cup {"drop"}
           \/ settings' = settings /\ HasGroup /\ phase = "lookup" /\ phase' = "kernel"
    PROVE  Covered' /\ (FilterKept => FilterKept')
<1>1. CASE phase' \in Before \cup {"drop"}
  BY <1>1 DEF Covered, FilterKept, Opened, Before
<1>2. CASE settings' = settings
  <2>1. \A k \in Leaf : Selected(k)' = Selected(k)
    BY <1>2 DEF Selected, UsingGroup
  <2>2. Writes("P", "vec3f")' = Writes("P", "vec3f") /\ UsingGroup' = UsingGroup
    BY <1>2 DEF Writes, Accesses, UsingGroup
  <2>3. CASE phase' = phase
    BY <1>2, <2>1, <2>2, <2>3 DEF Covered, FilterKept, Opened
  <2>4. CASE HasGroup /\ phase = "lookup" /\ phase' = "kernel"
    BY <1>2, <2>2, <2>4 DEF Covered, FilterKept, Opened, HasGroup, IndInv, LoopSound, Before
  <2> QED
    BY <1>1, <2>3, <2>4
<1> QED
  BY <1>1, <1>2

LEMMA FilterStep ==
    IndInv /\ Covered /\ [Next]_vars => Covered' /\ (~ MayLeave /\ FilterKept => FilterKept')
<1> SUFFICES ASSUME IndInv, Covered, [Next]_vars
             PROVE  Covered' /\ (~ MayLeave /\ FilterKept => FilterKept')
  OBVIOUS
<1>0. settings \in Settings
  BY DEF Covered
<1> USE DEF grid, points, merged, leafs, locals, history, executable
<1>1. CASE Configure \/ Execute
  BY <1>0, <1>1, FilterSerial DEF Configure, Execute, MoreCalls, Before
<1>2. CASE Rest \/ UNCHANGED vars
  BY <1>0, <1>2, FilterSerial DEF Rest, vars
<1>3. CASE Lookup
  BY <1>0, <1>3, FilterSerial, FilterLeave DEF Lookup, Throw
<1>4. CASE AppendAttribute
  BY <1>0, <1>4, FilterSerial, FilterLeave DEF AppendAttribute, Throw
<1>5. CASE MissingAttribute \/ DropTemp
  BY <1>5, FilterLeave DEF MissingAttribute, DropTemp, Throw
<1>6. CASE AppendTemp
  BY <1>0, <1>6, FilterSerial DEF AppendTemp, Before
<1>7. CASE MovePoints
  BY <1>0, <1>7, FilterSerial DEF MovePoints
<1>8. CASE Merge \/ AppendGroups
  BY <1>8, FilterMerge
<1>9. CASE \E l \in Leaf : LeafStep(l)
  BY <1>9, FilterOpen, FilterEdit, FilterReturn, FilterCopy DEF LeafStep
<1> QED
  BY <1>1, <1>2, <1>3, <1>4, <1>5, <1>6, <1>7, <1>8, <1>9 DEF Next, Step

LEMMA CoveredAlways == Spec => [](IndInv /\ Covered)
<1>1. Init => IndInv /\ Covered
  BY InitSound, FilterInit
<1>2. IndInv /\ Covered /\ [Next]_vars => IndInv' /\ Covered'
  BY StepSound, FilterStep
<1> QED
  BY <1>1, <1>2, PTL DEF Spec

\* If no kernel takes its point out of the execution group, every point ends
\* where its kernel put it, and no other moves.
THEOREM MovesKeepPositions ==
    ASSUME ~ MayLeave PROVE Spec => MoveKeepsPositions
<1>1. IndInv /\ Covered /\ FilterKept /\ [Next]_vars =>
        [phase = "copy" /\ phase' = "drop" =>
            \A q \in Point : VisiblePosition(q)' = VisiblePosition(q)]_vars
  <2> SUFFICES ASSUME IndInv, Covered, FilterKept, [Next]_vars, phase = "copy", phase' = "drop",
                      NEW q \in Point
               PROVE  VisiblePosition(q)' = VisiblePosition(q)
    OBVIOUS
  <2>1. MovePoints
    <3>1. ~ (Configure \/ Execute \/ Rest \/ Lookup \/ AppendAttribute \/ MissingAttribute
             \/ AppendTemp \/ Merge \/ AppendGroups \/ DropTemp)
      BY DEF Configure, Execute, Rest, Lookup, AppendAttribute, MissingAttribute, AppendTemp,
             Merge, AppendGroups, DropTemp, MoreCalls
    <3>2. ASSUME NEW l \in Leaf, LeafStep(l) PROVE FALSE
      BY <3>2 DEF LeafStep, OpenLeaf, ReturnPoint, CopyLeaf, EditGroup
    <3>3. vars' # vars
      BY DEF vars
    <3> QED
      BY <3>1, <3>2, <3>3 DEF Next, Step
  <2>2. position' = [p \in Point |->
            IF Writes("P", "vec3f") /\ p[2] \in Selected(p[1]) THEN temp[p[1]][p[2]] ELSE position[p]]
    BY <2>1 DEF MovePoints
  <2>3. VisiblePosition(q)' = position'[q]
    BY DEF VisiblePosition
  <2>4. q[1] \in Leaf
    BY DEF Point
  <2>5. Writes("P", "vec3f") => DOMAIN temp[q[1]] = Selected(q[1])
    BY <2>4 DEF Covered, FilterKept, Opened
  <2> QED
    BY <2>2, <2>3, <2>5 DEF VisiblePosition
<1>2. Init => FilterKept
  BY FilterInit
<1>3. IndInv /\ Covered /\ FilterKept /\ [Next]_vars => FilterKept'
  BY FilterStep
<1> QED
  BY <1>1, <1>2, <1>3, CoveredAlways, PTL DEF Spec, MoveKeepsPositions

-----------------------------------------------------------------------------
(* The attributes of the grid.                                             *)

\* The temporary attribute of the execution under way is on the grid.
Appended == phase \notin {"idle", "attributes"} /\ UsingPosition

\* All but the attributes to keep are temporaries of those left, and that of the
\* execution under way is one.
TempsFrom(left) ==
    /\ Cardinality(left) <= threw + (IF Appended THEN 1 ELSE 0)
    /\ \A n \in DOMAIN attrs \ Kept : \E i \in left : n = TempNames[i]
    /\ Appended => positionAttribute \in DOMAIN attrs \ Kept

\* What the grid came with is there, and what was appended for the registry so far;
\* no more temporaries are left than executions threw, but for the one under way.
AttrsSound ==
    /\ registry \in Registries /\ next \in 1 .. Len(registry) + 1
    /\ given \in GridAttrs /\ DOMAIN given \subseteq DOMAIN attrs
    /\ \A k \in 1 .. next - 1 : registry[k].name \in DOMAIN attrs
    /\ returned \in 0 .. MaxReturns /\ threw \in 0 .. MaxThrows
    /\ phase # "idle" => returned < MaxReturns /\ threw < MaxThrows
    /\ ~ Appended => positionAttribute = "P"
    /\ \E left \in SUBSET DOMAIN TempNames : TempsFrom(left)

LEMMA TempNamesAreFinite ==
    ASSUME NEW S \in SUBSET DOMAIN TempNames
    PROVE  IsFiniteSet(S) /\ Cardinality(S) \in Nat /\ S \subseteq Nat /\ Cardinality(DOMAIN TempNames) = Len(TempNames)
<1>1. DOMAIN TempNames = 1 .. Len(TempNames) /\ Len(TempNames) \in Nat
  BY TempNamesAssumption
<1>2. IsFiniteSet(DOMAIN TempNames) /\ Cardinality(DOMAIN TempNames) = Len(TempNames)
  BY <1>1, FS_Interval
<1> QED
  BY <1>1, <1>2, FS_Subset, FS_CardinalityType

\* uniqueName finds a name that no attribute has.
LEMMA UniqueNameExists ==
    ASSUME AttrsSound, phase = "attributes"
    PROVE  \E i \in DOMAIN TempNames : uniqueName = TempNames[i] /\ TempNames[i] \notin DOMAIN attrs
<1> DEFINE free == {i \in DOMAIN TempNames : TempNames[i] \notin DOMAIN attrs}
<1>1. PICK left \in SUBSET DOMAIN TempNames : TempsFrom(left)
  BY DEF AttrsSound
<1> DEFINE kept == {i \in DOMAIN TempNames :
                        TempNames[i] \in DOMAIN given \cup {registry[k].name : k \in DOMAIN registry}}
<1>2. Cardinality(kept) + MaxThrows < Len(TempNames)
  BY TempNamesAssumption DEF AttrsSound
<1>3. Cardinality(left) <= threw /\ threw \in Nat /\ MaxThrows \in Nat /\ threw < MaxThrows
  BY <1>1, BoundsAssumption DEF AttrsSound, TempsFrom, Appended
<1>4. ASSUME free = {} PROVE DOMAIN TempNames \subseteq kept \cup left
  <2> SUFFICES ASSUME NEW i \in DOMAIN TempNames, i \notin kept PROVE i \in left
    OBVIOUS
  <2>1. TempNames[i] \in DOMAIN attrs \ Kept
    BY <1>4 DEF Kept, RegNames
  <2> QED
    BY <1>1, <2>1, TempNamesAssumption DEF TempsFrom
<1>5. free # {}
  <2> SUFFICES ASSUME free = {} PROVE FALSE
    OBVIOUS
  <2>1. IsFiniteSet(kept) /\ IsFiniteSet(left) /\ Cardinality(kept) \in Nat /\ Cardinality(left) \in Nat
    BY TempNamesAreFinite
  <2>2. kept \cup left = DOMAIN TempNames
    BY <1>4
  <2>3. /\ Cardinality(kept \cap left) \in Nat
        /\ Cardinality(kept \cup left) = Cardinality(kept) + Cardinality(left) - Cardinality(kept \cap left)
    <3>1. kept \cap left \in SUBSET DOMAIN TempNames
      OBVIOUS
    <3> HIDE DEF kept
    <3> QED
      BY <2>1, <3>1, FS_Union, TempNamesAreFinite
  <2>4. Cardinality(DOMAIN TempNames) = Len(TempNames) /\ Len(TempNames) \in Nat
    BY TempNamesAreFinite, TempNamesAssumption
  <2> HIDE DEF kept, free
  <2> QED
    BY <1>2, <1>3, <2>1, <2>2, <2>3, <2>4
<1>6. Min(free) \in free
  BY <1>5, MinExists, TempNamesAreFinite
<1> QED
  BY <1>6 DEF uniqueName

LEMMA RegistryIsSeq ==
    ASSUME AttrsSound PROVE Len(registry) \in Nat /\ DOMAIN registry = 1 .. Len(registry)
BY RegistriesAssumption DEF AttrsSound

LEMMA AttrsInit == Init => AttrsSound
<1> SUFFICES ASSUME Init PROVE AttrsSound
  OBVIOUS
<1>1. /\ phase = "idle" /\ attrs \in GridAttrs /\ given = attrs /\ registry \in Registries
      /\ next = 1 /\ returned = 0 /\ threw = 0 /\ positionAttribute = "P"
  BY DEF Init
<1>2. TempsFrom({})
  BY <1>1, FS_EmptySet DEF TempsFrom, Appended, Kept
<1>3. next \in 1 .. Len(registry) + 1
  BY <1>1, RegistriesAssumption
<1> QED
  BY <1>1, <1>2, <1>3, BoundsAssumption DEF AttrsSound, Appended

\* An execution that throws leaves its temporary.
LEMMA AttrsThrow == ASSUME AttrsSound, phase # "idle", Throw PROVE AttrsSound'
<1>1. /\ phase' = "idle" /\ next' = 1 /\ positionAttribute' = "P" /\ threw' = threw + 1
      /\ UNCHANGED <<registry, attrs, given, returned>>
  BY DEF Throw, Leave, executable
<1>2. PICK left \in SUBSET DOMAIN TempNames : TempsFrom(left)
  BY DEF AttrsSound
<1>3. Cardinality(left) <= threw + 1
  BY <1>2, TempNamesAreFinite, BoundsAssumption DEF AttrsSound, TempsFrom
<1>4. ~ Appended'
  BY <1>1 DEF Appended
<1>5. TempsFrom(left)'
  BY <1>1, <1>2, <1>3, <1>4, TempNamesAreFinite DEF TempsFrom, Kept, RegNames
<1> QED
  BY <1>1, <1>4, <1>5, RegistryIsSeq, BoundsAssumption DEF AttrsSound

\* The steps that leave the attributes alone.
LEMMA AttrsQuiet ==
    ASSUME AttrsSound,
           UNCHANGED <<registry, attrs, given, next, positionAttribute, returned, threw>>,
           Appended' <=> Appended, phase # "idle" \/ phase' = "idle" \/ MoreCalls
    PROVE  AttrsSound'
<1>1. \A left : TempsFrom(left)' = TempsFrom(left)
  BY DEF TempsFrom, Kept, RegNames
<1> QED
  BY <1>1 DEF AttrsSound, MoreCalls

LEMMA AttrsAppend ==
    ASSUME AttrsSound, AppendAttribute, ~ Throw PROVE AttrsSound'
<1>0. PICK r : r = registry[next]
  OBVIOUS
<1>1. /\ phase = "attributes" /\ phase' = "attributes"
      /\ next <= Len(registry) /\ next' = next + 1
      /\ attrs' = Put(attrs, r.name, r.type)
      /\ UNCHANGED <<registry, given, positionAttribute, returned, threw>>
  BY <1>0 DEF AppendAttribute, executable, history
<1>2. PICK left \in SUBSET DOMAIN TempNames : TempsFrom(left)
  BY DEF AttrsSound
<1>3. next \in DOMAIN registry /\ next' \in 1 .. Len(registry) + 1 /\ next \in Nat
  BY <1>1, RegistryIsSeq DEF AttrsSound
<1>4. ~ Appended /\ ~ Appended'
  BY <1>1 DEF Appended
<1>5. DOMAIN attrs' = DOMAIN attrs \cup {r.name}
  BY <1>1 DEF Put
<1>6. r.name \in Kept /\ Kept' = Kept
  BY <1>0, <1>1, <1>3 DEF Kept, RegNames
<1>7. TempsFrom(left)'
  BY <1>1, <1>2, <1>4, <1>5, <1>6 DEF TempsFrom
<1>8. \A k \in 1 .. next' - 1 : registry[k].name \in DOMAIN attrs'
  <2> SUFFICES ASSUME NEW k \in 1 .. next' - 1 PROVE registry[k].name \in DOMAIN attrs'
    OBVIOUS
  <2>1. k = next \/ k \in 1 .. next - 1
    BY <1>1, <1>3
  <2> QED
    BY <1>0, <1>5, <2>1 DEF AttrsSound
<1> QED
  BY <1>1, <1>3, <1>4, <1>5, <1>7, <1>8 DEF AttrsSound

\* The name of the temporary is new: all attributes to keep are on the grid by then.
LEMMA AttrsTemp == ASSUME AttrsSound, AppendTemp PROVE AttrsSound'
<1>1. /\ phase = "attributes" /\ phase' = "lookup"
      /\ IF settings.createMissing THEN next = Len(registry) + 1 ELSE RegNames \subseteq DOMAIN attrs
      /\ positionAttribute' = IF UsingPosition THEN uniqueName ELSE "P"
      /\ attrs' = IF UsingPosition THEN Put(attrs, uniqueName, "vec3f") ELSE attrs
      /\ UNCHANGED <<registry, given, next, returned, threw>>
  BY DEF AppendTemp, executable, history
<1>2. PICK left \in SUBSET DOMAIN TempNames : TempsFrom(left)
  BY DEF AttrsSound
<1>3. PICK i \in DOMAIN TempNames : uniqueName = TempNames[i] /\ TempNames[i] \notin DOMAIN attrs
  BY <1>1, UniqueNameExists
<1>4. UsingPosition' = UsingPosition /\ ~ Appended /\ (Appended' <=> UsingPosition)
  BY <1>1 DEF UsingPosition, Accesses, Appended
<1>5. Kept' = Kept /\ Kept \subseteq DOMAIN attrs
  <2>1. RegNames \subseteq DOMAIN attrs
    <3>1. CASE settings.createMissing
      <4>1. \A k \in DOMAIN registry : k \in 1 .. next - 1
        BY <1>1, <3>1, RegistryIsSeq
      <4> QED
        BY <4>1 DEF RegNames, AttrsSound
    <3>2. CASE ~ settings.createMissing
      BY <1>1, <3>2
    <3> QED
      BY <3>1, <3>2
  <2> QED
    BY <1>1, <2>1 DEF Kept, RegNames, AttrsSound
<1>6. CASE ~ UsingPosition
  <2>1. TempsFrom(left)'
    BY <1>1, <1>2, <1>4, <1>5, <1>6 DEF TempsFrom
  <2> QED
    BY <1>1, <1>4, <1>6, <2>1 DEF AttrsSound
<1>7. CASE UsingPosition
  <2> DEFINE more == left \cup {i}
  <2>1. Cardinality(left) <= threw /\ Cardinality(left) \in Nat /\ threw \in Nat
    BY <1>2, <1>4, TempNamesAreFinite, BoundsAssumption DEF AttrsSound, TempsFrom
  <2>2. Cardinality(more) <= threw + 1
    <3>1. IsFiniteSet(left)
      BY TempNamesAreFinite
    <3>2. Cardinality(more) = IF i \in left THEN Cardinality(left) ELSE Cardinality(left) + 1
      BY <3>1, FS_AddElement
    <3> HIDE DEF more
    <3> QED
      BY <2>1, <3>2
  <2>3. DOMAIN attrs' = DOMAIN attrs \cup {TempNames[i]} /\ positionAttribute' = TempNames[i]
    BY <1>1, <1>3, <1>7 DEF Put
  <2>4. TempNames[i] \notin Kept
    BY <1>3, <1>5
  <2>5. \A n \in DOMAIN attrs' \ Kept' : \E j \in more : n = TempNames[j]
    BY <1>2, <1>5, <2>3 DEF TempsFrom
  <2>6. more \in SUBSET DOMAIN TempNames
    OBVIOUS
  <2> HIDE DEF more
  <2>7. TempsFrom(more)'
    BY <1>1, <1>4, <1>5, <1>7, <2>2, <2>3, <2>4, <2>5 DEF TempsFrom
  <2> QED
    BY <1>1, <1>4, <1>7, <2>3, <2>6, <2>7 DEF AttrsSound
<1> QED
  BY <1>6, <1>7

\* An execution that returns drops its own temporary and no other.
LEMMA AttrsDrop == ASSUME AttrsSound, DropTemp PROVE AttrsSound'
<1>1. /\ phase = "drop" /\ phase' = "idle" /\ next' = 1 /\ positionAttribute' = "P"
      /\ attrs' = IF UsingPosition
                  THEN [n \in DOMAIN attrs \ {positionAttribute} |-> attrs[n]] ELSE attrs
      /\ returned' = returned + 1 /\ UNCHANGED <<registry, given, threw>>
  BY DEF DropTemp, Leave, executable
<1>2. PICK left \in SUBSET DOMAIN TempNames : TempsFrom(left)
  BY DEF AttrsSound
<1>3. ~ Appended' /\ (Appended <=> UsingPosition)
  BY <1>1 DEF Appended
<1>4. /\ returned' \in 0 .. MaxReturns /\ threw' \in 0 .. MaxThrows
      /\ registry' \in Registries /\ next' \in 1 .. Len(registry') + 1
  BY <1>1, RegistryIsSeq, BoundsAssumption DEF AttrsSound
<1>5. Kept' = Kept
  BY <1>1 DEF Kept, RegNames
<1>6. CASE ~ UsingPosition
  <2>1. TempsFrom(left)'
    BY <1>1, <1>2, <1>3, <1>5, <1>6 DEF TempsFrom
  <2> QED
    BY <1>1, <1>3, <1>4, <1>6, <2>1 DEF AttrsSound
<1>7. CASE UsingPosition
  <2>1. positionAttribute \in DOMAIN attrs \ Kept
    BY <1>2, <1>3, <1>7 DEF TempsFrom
  <2>2. PICK i \in left : positionAttribute = TempNames[i]
    BY <1>2, <2>1 DEF TempsFrom
  <2> DEFINE fewer == left \ {i}
  <2>3. Cardinality(fewer) <= threw
    <3>1. IsFiniteSet(left) /\ Cardinality(left) \in Nat /\ Cardinality(left) <= threw + 1 /\ threw \in Nat
      BY <1>2, <1>3, <1>7, TempNamesAreFinite, BoundsAssumption DEF AttrsSound, TempsFrom
    <3>2. Cardinality(fewer) = Cardinality(left) - 1
      BY <2>2, <3>1, FS_RemoveElement
    <3> HIDE DEF fewer
    <3> QED
      BY <3>1, <3>2
  <2>4. DOMAIN attrs' = DOMAIN attrs \ {TempNames[i]}
    BY <1>1, <1>7, <2>2
  <2>5. \A n \in DOMAIN attrs' \ Kept' : \E j \in fewer : n = TempNames[j]
    BY <1>2, <1>5, <2>4 DEF TempsFrom
  <2>6. threw' + 0 = threw /\ fewer \in SUBSET DOMAIN TempNames
    BY <1>1, BoundsAssumption DEF AttrsSound
  <2>7. DOMAIN given \subseteq DOMAIN attrs'
    BY <2>1, <2>2, <2>4 DEF AttrsSound, Kept
  <2> HIDE DEF fewer
  <2>8. TempsFrom(fewer)'
    BY <1>3, <2>3, <2>5, <2>6 DEF TempsFrom
  <2> QED
    BY <1>1, <1>3, <1>4, <2>6, <2>7, <2>8 DEF AttrsSound
<1> QED
  BY <1>6, <1>7

LEMMA AttrsStep == AttrsSound /\ [Next]_vars => AttrsSound'
<1> SUFFICES ASSUME AttrsSound, [Next]_vars PROVE AttrsSound'
  OBVIOUS
<1>0. UNCHANGED registry => (UsingPosition' <=> UsingPosition)
  BY DEF UsingPosition, Accesses
<1> USE DEF grid, points, merged, leafs, locals, history, executable
<1>1. CASE Configure \/ Execute
  <2>1. MoreCalls /\ UNCHANGED <<registry, attrs, given, next, positionAttribute, returned, threw>>
    BY <1>1 DEF Configure, Execute
  <2>2. ~ Appended /\ ~ Appended'
    BY <1>1 DEF Configure, Execute, MoreCalls, Appended
  <2> QED
    BY <2>1, <2>2, AttrsQuiet
<1>2. CASE Rest \/ UNCHANGED vars
  <2>1. UNCHANGED <<registry, attrs, given, next, positionAttribute, returned, threw, phase>>
    BY <1>2 DEF Rest, vars
  <2> QED
    BY <1>0, <2>1, AttrsQuiet DEF Appended
<1>3. CASE AppendAttribute
  BY <1>3, AttrsAppend, AttrsThrow DEF AppendAttribute
<1>4. CASE MissingAttribute
  BY <1>4, AttrsThrow DEF MissingAttribute
<1>5. CASE AppendTemp \/ DropTemp
  BY <1>5, AttrsTemp, AttrsDrop
<1>6. CASE Lookup
  <2>1. CASE Throw
    BY <1>6, <2>1, AttrsThrow DEF Lookup
  <2>2. CASE phase' = "kernel" /\ UNCHANGED <<executable, grid, locals, history>>
    <3>1. phase = "lookup" /\ (Appended' <=> Appended)
      BY <1>0, <1>6, <2>2 DEF Lookup, Appended
    <3> QED
      BY <2>2, <3>1, AttrsQuiet
  <2> QED
    BY <1>6, <2>1, <2>2 DEF Lookup
<1>7. CASE Merge \/ AppendGroups \/ MovePoints
  BY <1>0, <1>7, AttrsQuiet DEF Merge, AppendGroups, MovePoints, Appended
<1>8. ASSUME NEW l \in Leaf, LeafStep(l) PROVE AttrsSound'
  <2>1. CASE OpenLeaf(l)
    <3>1. CASE Throw
      BY <2>1, <3>1, AttrsThrow DEF OpenLeaf
    <3>2. CASE ~ Throw
      BY <1>0, <2>1, <3>2, AttrsQuiet DEF OpenLeaf, Appended
    <3> QED
      BY <3>1, <3>2
  <2>2. CASE ReturnPoint(l) \/ CopyLeaf(l) \/ \E g \in Editable, flag \in BOOLEAN : EditGroup(l, g, flag)
    <3>1. /\ phase \in {"kernel", "copy"} /\ phase' = phase
          /\ UNCHANGED <<registry, attrs, given, next, positionAttribute, returned, threw>>
      BY <2>2 DEF ReturnPoint, CopyLeaf, EditGroup
    <3> QED
      BY <1>0, <3>1, AttrsQuiet DEF Appended
  <2> QED
    BY <1>8, <2>1, <2>2 DEF LeafStep
<1> QED
  BY <1>1, <1>2, <1>3, <1>4, <1>5, <1>6, <1>7, <1>8 DEF Next, Step

LEMMA AttrsAlways == Spec => []AttrsSound
BY AttrsInit, AttrsStep, PTL DEF Spec

\* No temporary of an execution that returned is left.
THEOREM TempsAreBalanced == Spec => []TempsBalanced
<1>1. AttrsSound => TempsBalanced
  <2> SUFFICES ASSUME AttrsSound, phase = "idle"
               PROVE  Cardinality(DOMAIN attrs \ Kept) <= threw
    BY DEF TempsBalanced
  <2>1. PICK left \in SUBSET DOMAIN TempNames : TempsFrom(left)
    BY DEF AttrsSound
  <2> DEFINE temps == {i \in left : TempNames[i] \in DOMAIN attrs \ Kept}
             name  == [i \in temps |-> TempNames[i]]
             extra == DOMAIN attrs \ Kept
  <2>2. Cardinality(left) <= threw /\ threw \in Nat
    BY <2>1, TempNamesAreFinite, BoundsAssumption DEF AttrsSound, TempsFrom, Appended
  <2>3. IsFiniteSet(left) /\ Cardinality(left) \in Nat
    BY TempNamesAreFinite
  <2>4. IsFiniteSet(temps) /\ Cardinality(temps) <= Cardinality(left) /\ Cardinality(temps) \in Nat
    <3>1. temps \in SUBSET left /\ temps \in SUBSET DOMAIN TempNames
      OBVIOUS
    <3> HIDE DEF temps
    <3> QED
      BY <2>3, <3>1, FS_Subset, TempNamesAreFinite
  <2>5. name \in Surjection(temps, extra)
    <3>1. \A n \in extra : \E i \in temps : name[i] = n
      BY <2>1 DEF TempsFrom
    <3>2. name \in [temps -> extra]
      OBVIOUS
    <3> HIDE DEF temps, name, extra
    <3> QED
      BY <3>1, <3>2 DEF Surjection
  <2>6. Cardinality(extra) <= Cardinality(temps) /\ Cardinality(extra) \in Nat
    <3> HIDE DEF temps, name, extra
    <3> QED
      BY <2>4, <2>5, FS_Surjection, FS_CardinalityType
  <2> HIDE DEF temps, name, extra
  <2>7. Cardinality(extra) <= threw
    BY <2>2, <2>3, <2>4, <2>6
  <2> QED
    BY <2>7 DEF extra
<1> QED
  BY <1>1, AttrsAlways, PTL

\* Whatever attributes the grid comes with and the registry names, none is dropped or
\* retyped: a temporary gets a name that is new, and what is dropped is a temporary.
THEOREM UserAttrsAreKept == Spec => UserAttrsKept
<1>1. AttrsSound /\ [Next]_vars =>
        [\A n \in DOMAIN attrs \cap Kept : n \in DOMAIN attrs' /\ attrs'[n] = attrs[n]]_vars
  <2> SUFFICES ASSUME AttrsSound, [Next]_vars, NEW n \in DOMAIN attrs, n \in Kept
               PROVE  n \in DOMAIN attrs' /\ attrs'[n] = attrs[n]
    OBVIOUS
  <2> USE DEF grid, points, merged, leafs, locals, history, executable
  <2>1. CASE AppendAttribute
    <3>1. attrs' = attrs \/ \E r : /\ attrs' = Put(attrs, r.name, r.type)
                                   /\ r.name \in DOMAIN attrs => attrs[r.name] = r.type
      BY <2>1 DEF AppendAttribute, Throw
    <3> QED
      BY <3>1 DEF Put
  <2>2. CASE AppendTemp
    <3>1. \E i \in DOMAIN TempNames : uniqueName = TempNames[i] /\ TempNames[i] \notin DOMAIN attrs
      BY <2>2, UniqueNameExists DEF AppendTemp
    <3>2. attrs' = attrs \/ attrs' = Put(attrs, uniqueName, "vec3f")
      BY <2>2 DEF AppendTemp
    <3> QED
      BY <3>1, <3>2 DEF Put
  <2>3. CASE DropTemp
    <3>1. phase = "drop" /\ attrs' = IF UsingPosition
              THEN [m \in DOMAIN attrs \ {positionAttribute} |-> attrs[m]] ELSE attrs
      BY <2>3 DEF DropTemp
    <3>2. UsingPosition => positionAttribute \notin Kept
      BY <3>1 DEF AttrsSound, TempsFrom, Appended
    <3> QED
      BY <3>1, <3>2
  <2>4. CASE Configure \/ Execute \/ Lookup \/ MissingAttribute \/ Merge \/ AppendGroups
             \/ MovePoints \/ Rest \/ UNCHANGED vars
    BY <2>4 DEF Configure, Execute, Lookup, MissingAttribute, Merge, AppendGroups, MovePoints,
                Rest, Throw, vars
  <2>5. ASSUME NEW l \in Leaf, LeafStep(l) PROVE attrs' = attrs
    BY <2>5 DEF LeafStep, OpenLeaf, ReturnPoint, CopyLeaf, EditGroup, Throw
  <2> QED
    BY <2>1, <2>2, <2>3, <2>4, <2>5 DEF Next, Step
<1> QED
  BY <1>1, AttrsAlways, PTL DEF Spec, UserAttrsKept

-----------------------------------------------------------------------------
(* Types.                                                                  *)

\* Strings and positions are values of the attributes' types, those the leaves
\* hold included.
Values ==
    /\ string \in [Point -> Str]
    /\ position \in [Point -> Coord]
    /\ \A l \in Leaf : temp[l] \in [DOMAIN temp[l] -> Coord]
    /\ metadata \subseteq Str
    /\ groups \subseteq Group /\ newStrings \in BOOLEAN
    /\ edits \in [Leaf -> 0 .. MaxEdits]

LEMMA EmptyTemp == EmptyMap \in [DOMAIN EmptyMap -> Coord]
BY DEF EmptyMap

\* The strings a leaf holds.
LEMMA LeafStrings ==
    ASSUME IndInv, NEW l \in Leaf
    PROVE  /\ NewStringSet(leafData[l]) \subseteq Str
           /\ \A p, x : x \in Str => StringOf(leafData[l], "s", p, x) \in Str
<1> DEFINE strings == leafData[l].strings
<1>1. \A a \in DOMAIN strings : \A p \in DOMAIN strings[a] : strings[a][p] \in Str
  BY DEF IndInv, Shape, SoundData, NewStringsOnly
<1>2. NewStringSet(leafData[l]) \subseteq Str
  BY <1>1 DEF NewStringSet
<1>3. \A p, x : x \in Str => StringOf(leafData[l], "s", p, x) \in Str
  BY <1>1 DEF StringOf, HasNewString
<1> QED
  BY <1>2, <1>3

LEMMA ValuesInit == Init => Values
<1> SUFFICES ASSUME Init PROVE Values
  OBVIOUS
<1>1. /\ temp = [l \in Leaf |-> EmptyMap] /\ edits = [l \in Leaf |-> 0]
      /\ string = [q \in Point |-> EmptyString] /\ position = [q \in Point |-> Origin]
      /\ metadata = {EmptyString} /\ groups = {} /\ newStrings = FALSE
  BY DEF Init, All
<1>2. \A l \in Leaf : temp[l] \in [DOMAIN temp[l] -> Coord]
  BY <1>1, EmptyTemp
<1>3. edits \in [Leaf -> 0 .. MaxEdits] /\ 0 \in 0 .. MaxEdits
  BY <1>1, BoundsAssumption
<1> QED
  BY <1>1, <1>2, <1>3, ValueAssumption DEF Values

LEMMA ValuesLeave == ASSUME Values, Leave, UNCHANGED points PROVE Values'
<1>1. /\ temp' = [l \in Leaf |-> EmptyMap] /\ edits' = [l \in Leaf |-> 0]
      /\ groups' = {} /\ newStrings' = FALSE
      /\ UNCHANGED <<string, position, metadata>>
  BY DEF Leave, All, points
<1>2. \A l \in Leaf : temp'[l] \in [DOMAIN temp'[l] -> Coord]
  BY <1>1, EmptyTemp
<1>3. edits' \in [Leaf -> 0 .. MaxEdits]
  BY <1>1, BoundsAssumption
<1> QED
  BY <1>1, <1>2, <1>3 DEF Values

LEMMA ValuesOpen == ASSUME Covered, Values, NEW l \in Leaf, OpenLeaf(l) PROVE Values'
<1>1. CASE BindFails /\ Throw
  BY <1>1, ValuesLeave DEF Throw
<1>2. CASE ~ BindFails
  <2>1. /\ UNCHANGED <<string, position, metadata, groups, newStrings, edits>>
        /\ temp' = IF UsingPosition
                   THEN [temp EXCEPT ![l] = [p \in Selected(l) |-> position[<<l, p>>]]] ELSE temp
    BY <1>2 DEF OpenLeaf, grid, points, merged
  <2>2. \A p \in Selected(l) : <<l, p>> \in Point
    BY DEF Selected, Point
  <2>3. [p \in Selected(l) |-> position[<<l, p>>]] \in [Selected(l) -> Coord]
    BY <2>2 DEF Values
  <2>4. \A k \in Leaf : \/ temp'[k] = temp[k]
                        \/ temp'[k] = [p \in Selected(l) |-> position[<<l, p>>]]
    BY <2>1 DEF Covered
  <2>5. \A k \in Leaf : temp'[k] \in [DOMAIN temp'[k] -> Coord]
    BY <2>3, <2>4 DEF Values
  <2> QED
    BY <2>1, <2>5 DEF Values
<1> QED
  BY <1>1, <1>2 DEF OpenLeaf

LEMMA ValuesReturn ==
    ASSUME IndInv, Covered, Values, NEW l \in Leaf, ReturnPoint(l) PROVE Values'
<1>1. /\ phase = "kernel" /\ pc[l] = "run"
      /\ UNCHANGED <<position, metadata, groups, newStrings, edits>>
      /\ \/ \E x \in Coord : temp' = [temp EXCEPT ![l][index[l]] = x]
         \/ temp' = [temp EXCEPT ![l] = EmptyMap] \/ temp' = temp
  BY DEF ReturnPoint, merged
<1>2. \A k \in Leaf : \/ \E x \in Coord : temp'[k] = [temp[k] EXCEPT ![index[l]] = x]
                      \/ temp'[k] = EmptyMap \/ temp'[k] = temp[k]
  BY <1>1 DEF Covered
<1>3. \A k \in Leaf : temp'[k] \in [DOMAIN temp'[k] -> Coord]
  BY <1>2, EmptyTemp DEF Values
<1>4. string' = string \/ \E s \in Str : string' = [string EXCEPT ![<<l, index[l]>>] = s]
  <2>1. PICK set \in IF Writes("s", "string") THEN {SetAttribStr(l, s) : s \in Str}
                     ELSE {<<string, leafData[l]>>} : string' = set[1]
    BY DEF ReturnPoint
  <2> QED
    BY <2>1 DEF SetAttribStr
<1> QED
  BY <1>1, <1>3, <1>4 DEF Values

LEMMA ValuesCopy == ASSUME IndInv, Values, NEW l \in Leaf, CopyLeaf(l) PROVE Values'
<1>1. /\ UNCHANGED <<position, metadata, groups, newStrings, temp, edits>>
      /\ string' = [q \in Point |->
            IF newStrings /\ q[1] = l THEN StringOf(leafData[l], "s", q[2], string[q]) ELSE string[q]]
  BY DEF CopyLeaf, merged
<1>2. string' \in [Point -> Str]
  <2>1. \A q \in Point : StringOf(leafData[l], "s", q[2], string[q]) \in Str
    BY LeafStrings DEF Values
  <2> QED
    BY <1>1, <2>1 DEF Values
<1> QED
  BY <1>1, <1>2 DEF Values

LEMMA ValuesMerge == ASSUME IndInv, Values, Merge PROVE Values'
<1>1. /\ UNCHANGED <<string, position, temp, edits>>
      /\ groups' = UNION {getGroups(leafData[l]) : l \in Leaf}
      /\ metadata' = metadata \cup UNION {NewStringSet(leafData[l]) : l \in Leaf}
      /\ newStrings' \in BOOLEAN
  BY DEF Merge, points, leafs
<1>2. groups' \subseteq Group /\ metadata' \subseteq Str
  BY <1>1, LeafStrings DEF IndInv, Shape, Values
<1> QED
  BY <1>1, <1>2 DEF Values

LEMMA ValuesMove == ASSUME Covered, Values, MovePoints PROVE Values'
<1>1. /\ phase = "copy"
      /\ UNCHANGED <<string, metadata, groups, newStrings, temp, edits>>
      /\ position' = [q \in Point |->
            IF Writes("P", "vec3f") /\ q[2] \in Selected(q[1]) THEN temp[q[1]][q[2]] ELSE position[q]]
  BY DEF MovePoints, locals, leafs, merged
<1>2. ASSUME NEW q \in Point, Writes("P", "vec3f"), q[2] \in Selected(q[1])
      PROVE  temp[q[1]][q[2]] \in Coord
  <2>1. q[1] \in Leaf
    BY DEF Point
  <2>2. q[2] \in DOMAIN temp[q[1]]
    BY <1>1, <1>2, <2>1 DEF Covered, Opened
  <2> QED
    BY <2>1, <2>2 DEF Values
<1> QED
  BY <1>1, <1>2 DEF Values

LEMMA ValuesStep == IndInv /\ Covered /\ Values /\ [Next]_vars => Values'
<1> SUFFICES ASSUME IndInv, Covered, Values, [Next]_vars PROVE Values'
  OBVIOUS
<1>1. ASSUME UNCHANGED <<string, position, temp, metadata, groups, newStrings, edits>> PROVE Values'
  BY <1>1 DEF Values
<1> USE DEF grid, merged, leafs, locals, history, executable
<1>2. CASE Configure \/ Execute \/ AppendTemp \/ AppendGroups \/ Rest \/ UNCHANGED vars
  BY <1>1, <1>2 DEF Configure, Execute, AppendTemp, AppendGroups, Rest, vars, points
<1>3. CASE AppendAttribute \/ MissingAttribute \/ Lookup \/ DropTemp
  <2>1. CASE Leave /\ UNCHANGED points
    BY <2>1, ValuesLeave
  <2>2. CASE ~ (Leave /\ UNCHANGED points)
    BY <1>1, <1>3, <2>2 DEF AppendAttribute, MissingAttribute, Lookup, DropTemp, Throw, points
  <2> QED
    BY <2>1, <2>2
<1>4. CASE Merge \/ MovePoints
  BY <1>4, ValuesMerge, ValuesMove
<1>5. ASSUME NEW l \in Leaf, NEW g \in Editable, NEW flag \in BOOLEAN, EditGroup(l, g, flag)
      PROVE  Values'
  <2>1. /\ UNCHANGED <<string, position, temp, metadata, groups, newStrings>>
        /\ edits[l] < MaxEdits /\ edits' = [edits EXCEPT ![l] = @ + 1]
    BY <1>5 DEF EditGroup
  <2>2. edits' \in [Leaf -> 0 .. MaxEdits]
    BY <2>1, BoundsAssumption DEF Values
  <2> QED
    BY <2>1, <2>2 DEF Values
<1>6. CASE \E l \in Leaf : LeafStep(l)
  BY <1>5, <1>6, ValuesOpen, ValuesReturn, ValuesCopy DEF LeafStep
<1> QED
  BY <1>2, <1>3, <1>4, <1>6 DEF Next, Step

LEMMA ValuesAlways == Spec => []Values
BY ValuesInit, ValuesStep, CoveredAlways, PTL DEF Spec

\* Every variable keeps its type; among them next, which runs over the registry, and
\* the name of the temporary, which uniqueName has always found.
THEOREM TypesOK == Spec => []TypeOK
<1>1. IndInv /\ Covered /\ AttrsSound /\ Values => TypeOK
  <2> SUFFICES ASSUME IndInv, Covered, AttrsSound, Values PROVE TypeOK
    OBVIOUS
  <2>1. positionAttribute \in {"P"} \cup {TempNames[i] : i \in DOMAIN TempNames}
    BY DEF AttrsSound, TempsFrom
  <2> QED
    BY <2>1 DEF TypeOK, IndInv, Shape, Before, Covered, AttrsSound, Values
<1> QED
  BY <1>1, CoveredAlways, AttrsAlways, ValuesAlways, PTL
=============================================================================
