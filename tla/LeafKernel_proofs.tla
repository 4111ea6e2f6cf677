------------------------- MODULE LeafKernel_proofs --------------------------
(***************************************************************************)
(* The leaf data stays sound whatever a kernel does, and LeafKernel        *)
(* implements LeafEdits: whatever arrays, bits, handles and pending        *)
(* strings a leaf uses, a kernel reads back independent groups and plain   *)
(* strings.  For any groups, any number of bits per array, any points.     *)
(***************************************************************************)
EXTENDS LeafKernel, PointLeafLocalData_proofs

-----------------------------------------------------------------------------
(* The invariant.                                                          *)

\* The data of a leaf just opened is sound.
LEMMA InitSound == Init => IndInv
<1> SUFFICES ASSUME Init PROVE IndInv
  OBVIOUS
<1>1. data = NewLeafData(PointCount) /\ stored \in [StrArray -> [Point -> Known]]
  BY DEF Init
<1>2. /\ IsLeafData(data) /\ GroupsSound(data) /\ data.count = PointCount
      /\ NewStringsOnly(data, Known)
  BY <1>1, NewSound DEF NewStringsOnly
<1> QED
  BY <1>1, <1>2 DEF IndInv, TypeOK, PendingIsNew

\* The invariant after a step, from its parts as facts about the new data.
LEMMA NextIndInv ==
    ASSUME IsLeafData(data'), GroupsSound(data'), data'.count = PointCount,
           NewStringsOnly(data', Known),
           stored' \in [StrArray -> [Point -> Known]]
    PROVE  IndInv'
BY DEF IndInv, TypeOK, PendingIsNew, IsLeafData, HasFields, GroupsSound, NoSharedBit,
       NextBitFree, UniformFlags, BitsOwned, NewStringsOnly, getGroups

\* addtogroup and removefromgroup keep the leaf data sound.
LEMMA EditGroupSound ==
    ASSUME IndInv, NEW g \in Group, NEW p \in Point, NEW flag \in BOOLEAN, EditGroup(g, p, flag)
    PROVE  IndInv'
<1> DEFINE d == getOrInsert(data, g)
<1>1. /\ IsLeafData(d) /\ GroupsSound(d) /\ hasGroup(d, g)
      /\ Points(d.count) = Point /\ d.count = PointCount /\ d.strings = data.strings
  BY GetOrInsertSound DEF IndInv, TypeOK, Point
<1>2. data' = SetBit(d, g, p, flag) /\ stored' = stored
  BY DEF EditGroup
<1> HIDE DEF d
<1>3. /\ IsLeafData(data') /\ GroupsSound(data')
      /\ data'.count = PointCount /\ data'.strings = data.strings
  BY <1>1, <1>2, SetBitSound
<1>4. NewStringsOnly(data', Known)
  BY <1>3 DEF IndInv, PendingIsNew, NewStringsOnly
<1> QED
  BY <1>2, <1>3, <1>4, NextIndInv DEF IndInv, TypeOK

\* setattribstr keeps the leaf data sound, for a known string and a new one.
LEMMA SetAttribStrSound ==
    ASSUME IndInv, NEW a \in StrArray, NEW p \in Point, NEW s \in Str, SetAttribStr(a, p, s)
    PROVE  IndInv'
<1>1. /\ IsLeafData(data) /\ GroupsSound(data) /\ NewStringsOnly(data, Known)
      /\ data.count = PointCount /\ Points(data.count) = Point
  BY DEF IndInv, TypeOK, PendingIsNew, Point
<1>2. stored \in [StrArray -> [Point -> Known]]
  BY DEF IndInv, TypeOK
<1>3. CASE s \in Known
  <2>1. data' = removeNewStringData(data, a, p) /\ stored' = [stored EXCEPT ![a][p] = s]
    BY <1>3 DEF SetAttribStr
  <2>2. stored' \in [StrArray -> [Point -> Known]]
    BY <1>2, <1>3, <2>1
  <2>3. /\ IsLeafData(data') /\ GroupsSound(data') /\ NewStringsOnly(data', Known)
        /\ data'.count = PointCount
    BY <1>1, <2>1, RemoveStringSound
  <2> QED
    BY <2>2, <2>3, NextIndInv
<1>4. CASE s \notin Known
  <2>1. data' = setNewStringData(data, a, p, s) /\ stored' = stored
    BY <1>4 DEF SetAttribStr
  <2>2. s \in Str \ Known
    BY <1>4
  <2>3. /\ IsLeafData(data') /\ GroupsSound(data') /\ NewStringsOnly(data', Known)
        /\ data'.count = PointCount
    BY <1>1, <2>1, <2>2, SetStringSound
  <2> QED
    BY <1>2, <2>1, <2>3, NextIndInv
<1> QED
  BY <1>3, <1>4

\* The compaction at the end of a leaf keeps the leaf data sound.
LEMMA CompactStepSound ==
    ASSUME IndInv, Compact
    PROVE  IndInv'
<1>1. /\ IsLeafData(data) /\ GroupsSound(data) /\ NewStringsOnly(data, Known)
      /\ data.count = PointCount /\ Points(data.count) = Point
  BY DEF IndInv, TypeOK, PendingIsNew, Point
<1>2. data' = compact(data) /\ stored' = stored
  BY DEF Compact
<1>3. /\ IsLeafData(data') /\ GroupsSound(data')
      /\ data'.count = PointCount /\ data'.strings = data.strings
  BY <1>1, <1>2, CompactSound
<1>4. NewStringsOnly(data', Known)
  BY <1>1, <1>3 DEF NewStringsOnly
<1> QED
  BY <1>2, <1>3, <1>4, NextIndInv DEF IndInv, TypeOK

\* The leaf data of PointLeafLocalData.h stays sound through every sequence of
\* group edits, string edits and compactions a kernel can make.
THEOREM LeafDataSound == Spec => []IndInv
<1>1. Init => IndInv
  BY InitSound
<1>2. IndInv /\ [Next]_vars => IndInv'
  <2> SUFFICES ASSUME IndInv, [Next]_vars PROVE IndInv'
    OBVIOUS
  <2>1. CASE \E g \in Group, p \in Point, flag \in BOOLEAN : EditGroup(g, p, flag)
    BY <2>1, EditGroupSound
  <2>2. CASE \E a \in StrArray, p \in Point, s \in Str : SetAttribStr(a, p, s)
    BY <2>2, SetAttribStrSound
  <2>3. CASE Compact
    BY <2>3, CompactStepSound
  <2>4. CASE UNCHANGED vars
    BY <2>4, NextIndInv DEF vars, IndInv, TypeOK, PendingIsNew
  <2> QED
    BY <2>1, <2>2, <2>3, <2>4 DEF Next
<1> QED
  BY <1>1, <1>2, PTL DEF Spec

\* Every field keeps its type; in particular mOffset never exceeds the number of
\* bits of an array, and no handle refers to an array that does not exist.
THEOREM TypeCorrect == Spec => []TypeOK
<1>1. IndInv => TypeOK
  BY DEF IndInv
<1> QED
  BY <1>1, LeafDataSound, PTL

\* No sequence of getOrInsert calls makes two groups share a bit.
THEOREM GroupsDoNotAlias == Spec => []NoAliasing
<1>1. IndInv => NoAliasing
  BY DEF IndInv, GroupsSound, NoAliasing
<1> QED
  BY <1>1, LeafDataSound, PTL

\* insertNewStrings never hands the inserter a string the metadata holds, nor
\* reports new strings when no point has one.
THEOREM PendingStringsAreNew == Spec => []PendingIsNew
<1>1. IndInv => PendingIsNew
  BY DEF IndInv
<1> QED
  BY <1>1, LeafDataSound, PTL

\* The copy pass, which copies the value of point 0 when an array is uniform,
\* writes the membership of every point of every new group.
THEOREM CopyPassExact == Spec => []CopyIsExact
<1>1. IndInv => CopyIsExact
  <2> SUFFICES ASSUME IndInv, NEW g \in DOMAIN data.handles
               PROVE  CopyOut(g) = {p \in Point : GetBit(data, g, p)}
    BY DEF CopyIsExact
  <2>1. CASE IsUniform(data, g)
    <3>1. \A p, q \in Point : GetBit(data, g, p) <=> GetBit(data, g, q)
      BY <2>1 DEF IndInv, TypeOK, IsLeafData, getGroups, GroupsSound, UniformFlags, IsUniform, GetBit, Point
    <3>2. 0 \in Point
      BY PointCountAssumption DEF Point, Points
    <3> QED
      BY <2>1, <3>1, <3>2 DEF CopyOut
  <2>2. CASE ~ IsUniform(data, g)
    BY <2>2 DEF CopyOut
  <2> QED
    BY <2>1, <2>2
<1> QED
  BY <1>1, LeafDataSound, PTL

-----------------------------------------------------------------------------
(* The refinement.                                                         *)

CreatedNow == getGroups(data)
MemberNow == [g \in Group |-> Member(g)]
StringNow == [a \in StrArray |-> [p \in Point |-> StringOf(data, a, p, stored[a][p])]]

\* A leaf just opened has no group and no new string.
LEMMA InitMaps == Init => Edits!Init
<1> SUFFICES ASSUME Init PROVE Edits!Init
  OBVIOUS
<1>1. data = NewLeafData(PointCount) /\ stored \in [StrArray -> [Point -> Known]]
  BY DEF Init
<1>2. getGroups(data) = {} /\ DOMAIN data.strings = {}
  BY <1>1 DEF NewLeafData, EmptyMap, getGroups
<1>3. MemberNow = [g \in Group |-> {}]
  BY <1>2 DEF MemberNow, Member, hasGroup, getGroups
<1>4. StringNow \in [StrArray -> [Point -> Str]]
  <2>1. \A a \in StrArray, p \in Point : StringOf(data, a, p, stored[a][p]) = stored[a][p]
    BY <1>2 DEF StringOf, HasNewString
  <2> QED
    BY <1>1, <2>1, KnownAssumption DEF StringNow
<1> QED
  BY <1>2, <1>3, <1>4 DEF Edits!Init, MemberNow, StringNow

\* A group edit is an AddToGroup or a RemoveFromGroup.
LEMMA EditGroupMaps ==
    ASSUME IndInv, NEW g \in Group, NEW p \in Point, NEW flag \in BOOLEAN, EditGroup(g, p, flag)
    PROVE  IF flag THEN Edits!AddToGroup(g, p) ELSE Edits!RemoveFromGroup(g, p)
<1>1. IsLeafData(data) /\ GroupsSound(data) /\ Points(data.count) = Point
  BY DEF IndInv, TypeOK, Point
<1>2. /\ data' = SetBit(getOrInsert(data, g), g, p, flag) /\ stored' = stored
      /\ flag \/ g \in getGroups(data)
  BY DEF EditGroup, hasGroup, getGroups
<1>3. /\ getGroups(data') = getGroups(data) \cup {g}
      /\ \A h \in getGroups(data'), q \in Point :
            GetBit(data', h, q) <=> IF h = g /\ q = p THEN flag
                                    ELSE h \in getGroups(data) /\ GetBit(data, h, q)
  BY <1>1, <1>2, EditReads
<1>4. data'.strings = data.strings
  <2> DEFINE d == getOrInsert(data, g)
  <2>1. /\ IsLeafData(d) /\ GroupsSound(d) /\ hasGroup(d, g)
        /\ Points(d.count) = Point /\ d.strings = data.strings
    BY <1>1, GetOrInsertSound
  <2> HIDE DEF d
  <2>2. data' = SetBit(d, g, p, flag)
    BY <1>2 DEF d
  <2> QED
    BY <2>1, <2>2, SetBitSound
<1>5. MemberNow' = [MemberNow EXCEPT ![g] = IF flag THEN @ \cup {p} ELSE @ \ {p}]
  <2>1. \A h \in Group : Member(h)' = IF h = g THEN IF flag THEN Member(g) \cup {p} ELSE Member(g) \ {p}
                                      ELSE Member(h)
    BY <1>3 DEF Member, hasGroup, getGroups
  <2> QED
    BY <2>1 DEF MemberNow
<1>6. StringNow' = StringNow
  BY <1>2, <1>4 DEF StringNow, StringOf, HasNewString
<1>7. CreatedNow' = CreatedNow \cup {g}
  BY <1>3 DEF CreatedNow, getGroups
<1> QED
  BY <1>2, <1>5, <1>6, <1>7
     DEF Edits!AddToGroup, Edits!RemoveFromGroup, CreatedNow, MemberNow, StringNow

\* A string edit is a SetString, whether the string is stored or pending.
LEMMA SetAttribStrMaps ==
    ASSUME IndInv, NEW a \in StrArray, NEW p \in Point, NEW s \in Str, SetAttribStr(a, p, s)
    PROVE  Edits!SetString(a, p, s)
<1>1. HasFields(data) /\ stored \in [StrArray -> [Point -> Known]]
  BY DEF IndInv, TypeOK, IsLeafData
<1>2. /\ data'.handles = data.handles /\ data'.arrays = data.arrays
      /\ \A b \in StrArray, q \in Point :
            StringOf(data', b, q, stored'[b][q]) =
                IF b = a /\ q = p THEN s ELSE StringOf(data, b, q, stored[b][q])
  <2>1. CASE s \in Known
    <3>1. data' = removeNewStringData(data, a, p) /\ stored' = [stored EXCEPT ![a][p] = s]
      BY <2>1 DEF SetAttribStr
    <3>2. \A b \in StrArray, q \in Point :
            stored'[b][q] = IF b = a /\ q = p THEN s ELSE stored[b][q]
      BY <1>1, <3>1
    <3> QED
      <4> SUFFICES ASSUME NEW b \in StrArray, NEW q \in Point
                   PROVE  StringOf(data', b, q, stored'[b][q]) =
                            IF b = a /\ q = p THEN s ELSE StringOf(data, b, q, stored[b][q])
        BY <1>1, <3>1, RemoveStringReads
      <4>1. StringOf(data', b, q, stored'[b][q]) =
                IF b = a /\ q = p THEN stored'[b][q] ELSE StringOf(data, b, q, stored'[b][q])
        BY <1>1, <3>1, RemoveStringReads
      <4> QED
        BY <3>2, <4>1
  <2>2. CASE s \notin Known
    <3>1. data' = setNewStringData(data, a, p, s) /\ stored' = stored
      BY <2>2 DEF SetAttribStr
    <3> QED
      BY <1>1, <3>1, SetStringReads
  <2> QED
    BY <2>1, <2>2
<1>3. CreatedNow' = CreatedNow /\ MemberNow' = MemberNow
  BY <1>2 DEF CreatedNow, MemberNow, Member, hasGroup, getGroups, GetBit
<1>4. StringNow' = [StringNow EXCEPT ![a][p] = s]
  BY <1>2 DEF StringNow
<1> QED
  BY <1>3, <1>4 DEF Edits!SetString, CreatedNow, MemberNow, StringNow

\* Compaction is invisible.
LEMMA CompactMaps ==
    ASSUME IndInv, Compact
    PROVE  UNCHANGED Edits!vars
<1>1. /\ data' = compact(data) /\ stored' = stored
      /\ IsLeafData(data) /\ GroupsSound(data) /\ Points(data.count) = Point
  BY DEF IndInv, TypeOK, Compact, Point
<1>2. /\ getGroups(data') = getGroups(data)
      /\ \A h \in getGroups(data), q \in Point : GetBit(data', h, q) <=> GetBit(data, h, q)
  BY <1>1, CompactReads
<1>3. data'.strings = data.strings
  BY <1>1, CompactSound
<1>4. CreatedNow' = CreatedNow /\ MemberNow' = MemberNow
  BY <1>2 DEF CreatedNow, MemberNow, Member, hasGroup, getGroups
<1>5. StringNow' = StringNow
  BY <1>1, <1>3 DEF StringNow, StringOf, HasNewString
<1> QED
  BY <1>4, <1>5 DEF Edits!vars, CreatedNow, MemberNow, StringNow

\* Leaf data with group arrays, bits, uniform flags and pending strings behaves
\* as independent sets of points and plain string attributes.
THEOREM LeafKernelImplementsLeafEdits == Spec => ImplementsLeafEdits
<1>1. Init => Edits!Init
  BY InitMaps
<1>2. IndInv /\ [Next]_vars => [Edits!Next]_Edits!vars
  <2> SUFFICES ASSUME IndInv, [Next]_vars PROVE [Edits!Next]_Edits!vars
    OBVIOUS
  <2>1. ASSUME NEW g \in Group, NEW p \in Point, NEW flag \in BOOLEAN, EditGroup(g, p, flag)
        PROVE  Edits!Next
    BY <2>1, EditGroupMaps DEF Edits!Next
  <2>2. ASSUME NEW a \in StrArray, NEW p \in Point, NEW s \in Str, SetAttribStr(a, p, s)
        PROVE  Edits!Next
    BY <2>2, SetAttribStrMaps DEF Edits!Next
  <2>3. CASE Compact
    BY <2>3, CompactMaps
  <2>4. CASE UNCHANGED vars
    BY <2>4 DEF vars, Edits!vars, Member, hasGroup, getGroups, GetBit, StringOf, HasNewString
  <2> QED
    BY <2>1, <2>2, <2>3, <2>4 DEF Next
<1> QED
  BY <1>1, <1>2, LeafDataSound, PTL DEF Spec, ImplementsLeafEdits, Edits!Spec

\* Every call of an edit function does to the sets and strings exactly what its
\* arguments say, and the value it wrote is the value read next.
THEOREM EditsAreKept == Spec => EachEditKept
<1> DEFINE Kept ==
        /\ \A g \in Group, p \in Point, flag \in BOOLEAN :
            EditGroup(g, p, flag) =>
                IF flag THEN Edits!AddToGroup(g, p) ELSE Edits!RemoveFromGroup(g, p)
        /\ \A a \in StrArray, p \in Point, s \in Str :
            SetAttribStr(a, p, s) => Edits!SetString(a, p, s)
        /\ Compact => UNCHANGED Edits!vars
<1>1. IndInv => Kept
  <2> SUFFICES ASSUME IndInv PROVE Kept
    OBVIOUS
  <2>1. \A g \in Group, p \in Point, flag \in BOOLEAN :
            EditGroup(g, p, flag) =>
                IF flag THEN Edits!AddToGroup(g, p) ELSE Edits!RemoveFromGroup(g, p)
    BY EditGroupMaps
  <2>2. \A a \in StrArray, p \in Point, s \in Str : SetAttribStr(a, p, s) => Edits!SetString(a, p, s)
    BY SetAttribStrMaps
  <2>3. Compact => UNCHANGED Edits!vars
    BY CompactMaps
  <2> QED
    BY <2>1, <2>2, <2>3
<1> QED
  BY <1>1, LeafDataSound, PTL DEF EachEditKept
=============================================================================
