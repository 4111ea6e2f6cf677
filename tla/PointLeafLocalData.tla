------------------------- MODULE PointLeafLocalData -------------------------
(***************************************************************************)
(* The per-leaf scratch object of a point kernel,                          *)
(* codegen/PointLeafLocalData.h, as operators on a record value.           *)
(*                                                                         *)
(*   count    mPointCount: the points of the leaf are 0 .. count - 1       *)
(*   arrays   mArrays: the group arrays; an array keeps, for every point,  *)
(*            the set of its bits that are on, and whether it is stored    *)
(*            as one uniform value                                         *)
(*   offset   mOffset: the next free bit of the last array                 *)
(*   handles  mHandles: group name -> the array and the bit it occupies    *)
(*   strings  mStringMap: string array -> point index -> new string        *)
(*                                                                         *)
(* Each group array holds GroupBits groups, one bit each (groupBits() of   *)
(* the OpenVDB descriptor, 8 in a build).                                  *)
(***************************************************************************)
EXTENDS Naturals, Sequences

CONSTANTS Group, StrArray, Str, GroupBits

ASSUME GroupBitsAssumption == GroupBits \in Nat \ {0}

Bit == 0 .. GroupBits - 1
EmptyMap == [x \in {} |-> x]

\* The map f with the entry of x set to v.
Put(f, x, v) == [y \in DOMAIN f \cup {x} |-> IF y = x THEN v ELSE f[y]]

\* The indices of the points of a leaf that holds count points.
Points(count) == 0 .. count - 1

NewLeafData(count) ==
    [count |-> count, arrays |-> <<>>, offset |-> 0,
     handles |-> EmptyMap, strings |-> EmptyMap]

-----------------------------------------------------------------------------
(* Groups.                                                                 *)

\* A new GroupAttributeArray: every bit of every point off, stored uniform.
FreshArray(count) == [bits |-> [p \in Points(count) |-> {}], uniform |-> TRUE]

hasGroup(d, g) == g \in DOMAIN d.handles

\* Fault: an array takes one group too many.
InsertPastEnd(d, g) ==
    LET full   == d.arrays = <<>> \/ d.offset > GroupBits
        arrays == IF full THEN Append(d.arrays, FreshArray(d.count)) ELSE d.arrays
        offset == IF full THEN 0 ELSE d.offset
    IN  [d EXCEPT !.arrays  = arrays,
                  !.offset  = offset + 1,
                  !.handles = Put(@, g, [array |-> Len(arrays), bit |-> offset])]

\* Fault: the offset is not advanced after a new array.
InsertSameBit(d, g) ==
    LET full   == d.arrays = <<>> \/ d.offset = GroupBits
        arrays == IF full THEN Append(d.arrays, FreshArray(d.count)) ELSE d.arrays
        offset == IF full THEN 0 ELSE d.offset
    IN  [d EXCEPT !.arrays  = arrays,
                  !.offset  = IF full THEN 0 ELSE offset + 1,
                  !.handles = Put(@, g, [array |-> Len(arrays), bit |-> offset])]

\* A new handle takes the next bit of the last array, or bit 0 of a new array
\* when there is none yet or the last one is full.
Insert(d, g) ==
    LET full   == d.arrays = <<>> \/ d.offset = GroupBits
        arrays == IF full THEN Append(d.arrays, FreshArray(d.count)) ELSE d.arrays
        offset == IF full THEN 0 ELSE d.offset
    IN  [d EXCEPT !.arrays  = arrays,
                  !.offset  = offset + 1,
                  !.handles = Put(@, g, [array |-> Len(arrays), bit |-> offset])]

\* Fault: a group that has a handle gets another.
getOrInsertAgain(d, g) == Insert(d, g)

getOrInsert(d, g) == IF hasGroup(d, g) THEN d ELSE Insert(d, g)

getGroups(d) == DOMAIN d.handles

\* GroupHandle::get and GroupWriteHandle::set of the handle of group g.
GetBit(d, g, p) == d.handles[g].bit \in d.arrays[d.handles[g].array].bits[p]

\* Fault: a write leaves a uniform array uniform.
SetBitUnexpanded(d, g, p, flag) ==
    LET h    == d.handles[g]
        bits == d.arrays[h.array].bits
        set  == IF flag THEN bits[p] \cup {h.bit} ELSE bits[p] \ {h.bit}
    IN  [d EXCEPT !.arrays[h.array].bits = [bits EXCEPT ![p] = set]]

SetBit(d, g, p, flag) ==
    LET h    == d.handles[g]
        bits == d.arrays[h.array].bits
        set  == IF flag THEN bits[p] \cup {h.bit} ELSE bits[p] \ {h.bit}
    IN  [d EXCEPT !.arrays[h.array] = [bits |-> [bits EXCEPT ![p] = set], uniform |-> FALSE]]

IsUniform(d, g) == d.arrays[d.handles[g].array].uniform

\* An array whose points all hold the same bits becomes uniform again.
compact(d) ==
    [d EXCEPT !.arrays = [i \in DOMAIN @ |->
        [bits    |-> @[i].bits,
         uniform |-> \A p, q \in Points(d.count) : @[i].bits[p] = @[i].bits[q]]]]

-----------------------------------------------------------------------------
(* Strings.                                                                *)

HasNewString(d, a, p) == a \in DOMAIN d.strings /\ p \in DOMAIN d.strings[a]

setNewStringData(d, a, p, s) ==
    LET old == IF a \in DOMAIN d.strings THEN d.strings[a] ELSE EmptyMap
    IN  [d EXCEPT !.strings = Put(@, a, Put(old, p, s))]

\* Fault: an array whose last string is erased keeps an empty map.
removeStringOnly(d, a, p) ==
    IF ~ HasNewString(d, a, p) THEN d
    ELSE [d EXCEPT !.strings[a] = [q \in DOMAIN @ \ {p} |-> @[q]]]

\* Erasing the last string of an array erases the array's map as well.
removeNewStringData(d, a, p) ==
    IF ~ HasNewString(d, a, p) THEN d
    ELSE LET left == [q \in DOMAIN d.strings[a] \ {p} |-> d.strings[a][q]]
         IN  [d EXCEPT !.strings =
                IF DOMAIN left = {} THEN [b \in DOMAIN @ \ {a} |-> @[b]]
                ELSE [@ EXCEPT ![a] = left]]

\* The strings insertNewStrings gives to the inserter, and the flag it returns.
NewStringSet(d) == UNION {{d.strings[a][p] : p \in DOMAIN d.strings[a]} : a \in DOMAIN d.strings}
HasNewStrings(d) == DOMAIN d.strings # {}

\* getattribstr: the new string of a point if there is one, else the stored one.
StringOf(d, a, p, stored) == IF HasNewString(d, a, p) THEN d.strings[a][p] ELSE stored
-----------------------------------------------------------------------------
(* What makes leaf data sound, as predicates of a value, for they also hold  *)
(* between the two steps of an edit.                                        *)

GroupArray(count) == [bits : [Points(count) -> SUBSET Bit], uniform : BOOLEAN]
PointMap(count) == UNION {[D -> Str] : D \in SUBSET Points(count)}

HasFields(d) ==
    d \in [count : {d.count}, arrays : {d.arrays}, offset : 0 .. GroupBits,
           handles : {d.handles}, strings : {d.strings}]

\* Every field has the type its declaration gives it, mOffset included (it
\* counts up to GroupBits and no further), and every handle has an array.
IsLeafData(d) ==
    /\ HasFields(d)
    /\ d.arrays \in Seq(GroupArray(d.count))
    /\ getGroups(d) \subseteq Group
    /\ d.handles \in [getGroups(d) -> [array : DOMAIN d.arrays, bit : Bit]]
    /\ DOMAIN d.strings \subseteq StrArray
    /\ d.strings \in [DOMAIN d.strings -> PointMap(d.count)]

\* No two groups have the same bit of the same array.
NoSharedBit(d) == \A g, h \in getGroups(d) : d.handles[g] = d.handles[h] => g = h

\* The bit handed out next is free: the handles of the last array lie before it.
NextBitFree(d) ==
    \A g \in getGroups(d) :
        d.handles[g].array = Len(d.arrays) => d.handles[g].bit < d.offset

\* An array that claims to be uniform is: its points all hold the same bits.
UniformFlags(d) ==
    \A i \in DOMAIN d.arrays : d.arrays[i].uniform =>
        \A p, q \in Points(d.count) : d.arrays[i].bits[p] = d.arrays[i].bits[q]

\* A bit that is on belongs to a group, so a bit handed out is off everywhere.
BitsOwned(d) ==
    \A i \in DOMAIN d.arrays, p \in Points(d.count) : \A b \in d.arrays[i].bits[p] :
        \E g \in getGroups(d) : d.handles[g] = [array |-> i, bit |-> b]

GroupsSound(d) == NoSharedBit(d) /\ NextBitFree(d) /\ UniformFlags(d) /\ BitsOwned(d)

\* A pending string is one the metadata, which holds known, lacks, and no array
\* has an empty map.
NewStringsOnly(d, known) ==
    \A a \in DOMAIN d.strings :
        /\ DOMAIN d.strings[a] # {}
        /\ \A p \in DOMAIN d.strings[a] : d.strings[a][p] \in Str \ known
=============================================================================
