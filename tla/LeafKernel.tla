----------------------------- MODULE LeafKernel -----------------------------
(***************************************************************************)
(* One leaf while the compiled kernel runs over its points: the calls of   *)
(* editgroup and setattribute (codegen/PointFunctions.cc) on the leaf's    *)
(* PointLeafLocalData, and the compaction at the end of the leaf           *)
(* (PointExecuterOp).  None of Group exists on the grid, so every edit     *)
(* goes to the local data.  A leaf whose kernel runs has a point.          *)
(***************************************************************************)
EXTENDS PointLeafLocalData

CONSTANTS PointCount,  \* mPointCount of the leaf
          Known        \* the strings the grid's metadata holds (never changed by a kernel)

ASSUME PointCountAssumption == PointCount \in Nat \ {0}
ASSUME KnownAssumption == Known \subseteq Str

Point == Points(PointCount)

VARIABLES data,    \* the leaf's PointLeafLocalData
          stored   \* string attribute -> point -> the string its array holds

vars == <<data, stored>>

Init ==
    /\ data = NewLeafData(PointCount)
    /\ stored \in [StrArray -> [Point -> Known]]

\* addtogroup and removefromgroup of a group that is not on the grid.
EditGroup(g, p, flag) ==
    /\ flag \/ hasGroup(data, g)
    /\ data' = SetBit(getOrInsert(data, g), g, p, flag)
    /\ UNCHANGED stored

\* Fault: a stored string does not end the pending one.
SetAttribStrKeepsPending(a, p, s) ==
    \/ /\ s \in Known
       /\ stored' = [stored EXCEPT ![a][p] = s]
       /\ UNCHANGED data
    \/ /\ s \notin Known
       /\ data' = setNewStringData(data, a, p, s)
       /\ UNCHANGED stored

\* setattribstr: a string the metadata holds goes into the array, and what was
\* pending for the point is forgotten; any other string is pending.
SetAttribStr(a, p, s) ==
    \/ /\ s \in Known
       /\ stored' = [stored EXCEPT ![a][p] = s]
       /\ data' = removeNewStringData(data, a, p)
    \/ /\ s \notin Known
       /\ data' = setNewStringData(data, a, p, s)
       /\ UNCHANGED stored

Compact ==
    /\ data' = compact(data)
    /\ UNCHANGED stored

Next ==
    \/ \E g \in Group, p \in Point, flag \in BOOLEAN : EditGroup(g, p, flag)
    \/ \E a \in StrArray, p \in Point, s \in Str : SetAttribStr(a, p, s)
    \/ Compact

Spec == Init /\ [][Next]_vars

-----------------------------------------------------------------------------
\* The leaf data and the stored strings have their declared types.
TypeOK ==
    /\ IsLeafData(data) /\ data.count = PointCount
    /\ stored \in [StrArray -> [Point -> Known]]

\* Two groups never share a bit of an array, so editing one never changes
\* another (getOrInsert, including when an array fills up and a new one starts).
NoAliasing == NoSharedBit(data)

\* The pending strings are exactly those the metadata lacks, and no array is
\* left with an empty map: insertNewStrings reports new strings when, and only
\* when, some point has one.
PendingIsNew == NewStringsOnly(data, Known)

\* Why the leaf data stays sound, as an inductive invariant: no handle dangles,
\* none is shared, getOrInsert never hands out an occupied bit or one left on,
\* and no array has a uniform flag that is stale after a write to it.
IndInv == TypeOK /\ GroupsSound(data) /\ PendingIsNew

\* What the copy pass of PointExecutable::execute writes to the grid's new
\* group: one collapse to the value of point 0 if the local array is uniform,
\* else a copy point by point.
CopyOut(g) ==
    IF IsUniform(data, g)
    THEN IF GetBit(data, g, 0) THEN Point ELSE {}
    ELSE {p \in Point : GetBit(data, g, p)}

\* The copy pass writes the membership the kernel sees through ingroup, which
\* always reads the point's own bit.
CopyIsExact ==
    \A g \in DOMAIN data.handles : CopyOut(g) = {p \in Point : GetBit(data, g, p)}

-----------------------------------------------------------------------------
(* The leaf keeps the promise of LeafEdits.                                *)

Member(g) == IF hasGroup(data, g) THEN {p \in Point : GetBit(data, g, p)} ELSE {}

Edits == INSTANCE LeafEdits WITH
    created <- getGroups(data),
    member  <- [g \in Group |-> Member(g)],
    string  <- [a \in StrArray |-> [p \in Point |-> StringOf(data, a, p, stored[a][p])]]

\* Every sequence of edits, through as many group arrays as it takes and with
\* compactions anywhere, reads back as independent groups and plain strings.
ImplementsLeafEdits == Edits!Spec

\* Which step is which: a call edits exactly the group and point, or the string
\* and point, it names, and what it wrote is read back; no compaction shows.
EachEditKept ==
    [][ /\ \A g \in Group, p \in Point, flag \in BOOLEAN :
            EditGroup(g, p, flag) =>
                IF flag THEN Edits!AddToGroup(g, p) ELSE Edits!RemoveFromGroup(g, p)
        /\ \A a \in StrArray, p \in Point, s \in Str :
            SetAttribStr(a, p, s) => Edits!SetString(a, p, s)
        /\ Compact => UNCHANGED Edits!vars ]_vars
=============================================================================
