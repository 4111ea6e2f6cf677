---------------------- MODULE PointLeafLocalData_proofs ----------------------
(***************************************************************************)
(* What the operations of PointLeafLocalData return, for any groups, any   *)
(* number of bits per array, points and strings.                           *)
(***************************************************************************)
EXTENDS PointLeafLocalData, SequenceTheorems, TLAPS

-----------------------------------------------------------------------------
(* Groups.                                                                 *)

\* A new array has the type of an array, and all its points hold no bit.
LEMMA FreshArraySound ==
    ASSUME NEW n
    PROVE  /\ FreshArray(n) \in GroupArray(n)
           /\ \A p \in Points(n) : FreshArray(n).bits[p] = {}
BY DEF FreshArray, GroupArray, Points

\* The data of a leaf just opened is sound and empty.
LEMMA NewSound ==
    ASSUME NEW n
    PROVE  LET d == NewLeafData(n)
           IN  /\ IsLeafData(d) /\ GroupsSound(d) /\ NewStringsOnly(d, {})
               /\ d.count = n /\ getGroups(d) = {} /\ DOMAIN d.strings = {}
<1> DEFINE d == NewLeafData(n)
<1>1. /\ d.count = n /\ d.arrays = <<>> /\ d.offset = 0
      /\ d.handles = EmptyMap /\ d.strings = EmptyMap
  BY DEF NewLeafData
<1>2. HasFields(d)
  BY GroupBitsAssumption DEF HasFields, NewLeafData
<1> HIDE DEF d
<1>3. getGroups(d) = {} /\ DOMAIN d.strings = {}
  BY <1>1 DEF EmptyMap, getGroups
<1>4. IsLeafData(d)
  BY <1>1, <1>2, <1>3 DEF IsLeafData, EmptyMap
<1>5. GroupsSound(d) /\ NewStringsOnly(d, {})
  BY <1>1, <1>3 DEF GroupsSound, NoSharedBit, NextBitFree, UniformFlags, BitsOwned, NewStringsOnly
<1> QED
  BY <1>1, <1>3, <1>4, <1>5 DEF d

\* A new handle, and the bit it occupies, in the terms of the code.
LEMMA InsertFields ==
    ASSUME NEW d, IsLeafData(d), NEW g
    PROVE  LET e    == Insert(d, g)
               full == d.arrays = <<>> \/ d.offset = GroupBits
               at   == IF full THEN 0 ELSE d.offset
           IN  /\ HasFields(e)
               /\ e.count = d.count /\ e.strings = d.strings
               /\ e.arrays = IF full THEN Append(d.arrays, FreshArray(d.count)) ELSE d.arrays
               /\ e.offset = at + 1
               /\ e.handles = Put(d.handles, g, [array |-> Len(e.arrays), bit |-> at])
<1> DEFINE full     == d.arrays = <<>> \/ d.offset = GroupBits
           arrays   == IF full THEN Append(d.arrays, FreshArray(d.count)) ELSE d.arrays
           at       == IF full THEN 0 ELSE d.offset
           handles  == Put(d.handles, g, [array |-> Len(arrays), bit |-> at])
<1>1. d.offset \in 0 .. GroupBits
  BY DEF IsLeafData, HasFields
<1>2. Insert(d, g) = [d EXCEPT !.arrays = arrays, !.offset = at + 1, !.handles = handles]
  BY DEF Insert
<1>3. at + 1 \in 0 .. GroupBits
  BY <1>1, GroupBitsAssumption
<1> HIDE DEF full, arrays, at, handles
<1>4. /\ Insert(d, g) \in [count : {d.count}, arrays : {arrays}, offset : {at + 1},
                           handles : {handles}, strings : {d.strings}]
      /\ HasFields(Insert(d, g))
  BY <1>2, <1>3 DEF IsLeafData, HasFields
<1> QED
  BY <1>1, <1>4 DEF full, arrays, at, handles

\* The last array has no free bit, and the bit a new handle takes.
Full(d) == d.arrays = <<>> \/ d.offset = GroupBits
FreeBit(d) == IF Full(d) THEN 0 ELSE d.offset

\* The arrays and the handles of e are those of d and a new handle, of group g.
Inserted(d, e, g) ==
    /\ HasFields(e)
    /\ e.count = d.count /\ e.strings = d.strings
    /\ e.offset = FreeBit(d) + 1 /\ FreeBit(d) \in Bit
    /\ e.arrays \in Seq(GroupArray(d.count))
    /\ Len(e.arrays) = IF Full(d) THEN Len(d.arrays) + 1 ELSE Len(d.arrays)
    /\ DOMAIN e.arrays = 1 .. Len(e.arrays)
    /\ Len(e.arrays) \in DOMAIN e.arrays
    /\ \A i \in DOMAIN e.arrays : e.arrays[i] =
            IF i \in DOMAIN d.arrays THEN d.arrays[i] ELSE FreshArray(d.count)
    /\ \A i \in DOMAIN d.arrays : i \in DOMAIN e.arrays
    /\ e.handles = [h \in getGroups(e) |-> e.handles[h]]
    /\ getGroups(e) = getGroups(d) \cup {g}
    /\ e.handles[g] = [array |-> Len(e.arrays), bit |-> FreeBit(d)]
    /\ \A h \in getGroups(d) : h # g /\ e.handles[h] = d.handles[h]

\* Insert does what Inserted says, whichever array the new bit is in.
LEMMA InsertInserts ==
    ASSUME NEW d, IsLeafData(d), NEW g, ~ hasGroup(d, g)
    PROVE  Inserted(d, Insert(d, g), g)
<1> DEFINE e == Insert(d, g)
<1>1. /\ HasFields(e)
      /\ e.count = d.count /\ e.strings = d.strings
      /\ e.arrays = IF Full(d) THEN Append(d.arrays, FreshArray(d.count)) ELSE d.arrays
      /\ e.offset = FreeBit(d) + 1
      /\ e.handles = Put(d.handles, g, [array |-> Len(e.arrays), bit |-> FreeBit(d)])
  BY InsertFields DEF Full, FreeBit
<1>2. d.arrays \in Seq(GroupArray(d.count)) /\ Len(d.arrays) \in Nat /\ DOMAIN d.arrays = 1 .. Len(d.arrays)
  BY DEF IsLeafData
<1>3. /\ e.arrays \in Seq(GroupArray(d.count))
      /\ Len(e.arrays) = IF Full(d) THEN Len(d.arrays) + 1 ELSE Len(d.arrays)
      /\ DOMAIN e.arrays = 1 .. Len(e.arrays)
      /\ \A i \in DOMAIN e.arrays : e.arrays[i] =
            IF i \in DOMAIN d.arrays THEN d.arrays[i] ELSE FreshArray(d.count)
      /\ \A i \in DOMAIN d.arrays : i \in DOMAIN e.arrays
  <2> DEFINE fresh == FreshArray(d.count)
             A == GroupArray(d.count)
  <2>1. fresh \in A
    BY FreshArraySound
  <2>2. d.arrays \in Seq(A) /\ e.arrays = IF Full(d) THEN Append(d.arrays, fresh) ELSE d.arrays
    BY <1>1, <1>2
  <2> HIDE DEF e, fresh, A
  <2>3. /\ e.arrays \in Seq(A)
        /\ Len(e.arrays) = IF Full(d) THEN Len(d.arrays) + 1 ELSE Len(d.arrays)
        /\ DOMAIN e.arrays = 1 .. Len(e.arrays)
        /\ \A i \in DOMAIN e.arrays : e.arrays[i] = IF i \in DOMAIN d.arrays THEN d.arrays[i] ELSE fresh
        /\ \A i \in DOMAIN d.arrays : i \in DOMAIN e.arrays
    <3>1. CASE Full(d)
      BY <1>2, <2>1, <2>2, <3>1
    <3>2. CASE ~ Full(d)
      BY <1>2, <2>1, <2>2, <3>2
    <3> QED
      BY <3>1, <3>2
  <2> QED
    BY <2>3 DEF fresh, A
<1>4. Len(e.arrays) \in DOMAIN e.arrays
  BY <1>2, <1>3, EmptySeq DEF Full
<1>5. FreeBit(d) \in Bit
  BY GroupBitsAssumption DEF IsLeafData, HasFields, Bit, FreeBit, Full
<1>6. /\ getGroups(e) = getGroups(d) \cup {g}
      /\ e.handles[g] = [array |-> Len(e.arrays), bit |-> FreeBit(d)]
      /\ \A h \in getGroups(d) : h # g /\ e.handles[h] = d.handles[h]
  <2> HIDE DEF e
  <2>1. /\ DOMAIN e.handles = DOMAIN d.handles \cup {g}
        /\ e.handles[g] = [array |-> Len(e.arrays), bit |-> FreeBit(d)]
        /\ \A h \in DOMAIN d.handles \ {g} : e.handles[h] = d.handles[h]
    <3> DEFINE handle == [array |-> Len(e.arrays), bit |-> FreeBit(d)]
    <3>1. e.handles = Put(d.handles, g, handle)
      BY <1>1
    <3> HIDE DEF handle
    <3>2. /\ DOMAIN e.handles = DOMAIN d.handles \cup {g}
          /\ e.handles[g] = handle
          /\ \A h \in DOMAIN d.handles \ {g} : e.handles[h] = d.handles[h]
      BY <3>1 DEF Put
    <3> QED
      BY <3>2 DEF handle
  <2>2. getGroups(e) = DOMAIN e.handles /\ getGroups(d) = DOMAIN d.handles
    BY DEF getGroups
  <2>3. g \notin DOMAIN d.handles
    BY DEF hasGroup
  <2> QED
    BY <2>1, <2>2, <2>3
<1>7. e.handles = [h \in getGroups(e) |-> e.handles[h]]
  <2> HIDE DEF e
  <2> QED BY <1>1 DEF getGroups, Put
<1> QED
  <2> HIDE DEF e
  <2> QED BY <1>1, <1>3, <1>4, <1>5, <1>6, <1>7 DEF Inserted, e

\* getOrInsert gives a new group a bit no other group has.
LEMMA InsertSound ==
    ASSUME NEW d, IsLeafData(d), GroupsSound(d), NEW g \in Group, ~ hasGroup(d, g)
    PROVE  IsLeafData(Insert(d, g)) /\ GroupsSound(Insert(d, g))
<1> DEFINE e == Insert(d, g)
<1>1. Inserted(d, e, g)
  BY InsertInserts
<1> USE DEF Inserted
<1>2. d.arrays \in Seq(GroupArray(d.count)) /\ Len(d.arrays) \in Nat /\ DOMAIN d.arrays = 1 .. Len(d.arrays)
  BY DEF IsLeafData
<1>3. \A h \in getGroups(d) : d.handles[h] \in [array : DOMAIN d.arrays, bit : Bit]
  BY DEF IsLeafData
<1> HIDE DEF e
<1>4. IsLeafData(e)
  <2>1. getGroups(e) \subseteq Group
    BY <1>1 DEF IsLeafData
  <2>2. e.handles \in [getGroups(e) -> [array : DOMAIN e.arrays, bit : Bit]]
    <3>1. \A h \in getGroups(e) : e.handles[h] \in [array : DOMAIN e.arrays, bit : Bit]
      BY <1>1, <1>3
    <3> QED
      BY <1>1, <3>1
  <2> QED
    BY <1>1, <2>1, <2>2 DEF IsLeafData
<1>5. NextBitFree(e)
  <2> SUFFICES ASSUME NEW h \in getGroups(e), e.handles[h].array = Len(e.arrays)
               PROVE  e.handles[h].bit < e.offset
    BY DEF NextBitFree
  <2>1. CASE h = g
    BY <1>1, <2>1, GroupBitsAssumption DEF Bit
  <2>2. CASE h \in getGroups(d) /\ ~ Full(d)
    BY <1>1, <1>2, <1>3, <2>2, GroupBitsAssumption
       DEF GroupsSound, NextBitFree, IsLeafData, HasFields, Bit, Full, FreeBit
  <2>3. CASE h \in getGroups(d) /\ Full(d)
    BY <1>1, <1>2, <1>3, <2>3    \* the last array is new
  <2> QED
    BY <1>1, <2>1, <2>2, <2>3
<1>6. NoSharedBit(e)
  <2>1. ASSUME NEW h \in getGroups(d) PROVE e.handles[h] # e.handles[g]
    <3>1. CASE Full(d)
      BY <1>1, <1>2, <1>3, <2>1, <3>1
    <3>2. CASE ~ Full(d)
      <4>1. d.handles[h].array = Len(d.arrays) => d.handles[h].bit < d.offset
        BY <2>1 DEF GroupsSound, NextBitFree
      <4>2. d.handles[h].bit \in Nat /\ d.offset \in Nat
        BY <1>3, <2>1, GroupBitsAssumption DEF Bit, IsLeafData, HasFields
      <4>3. d.handles[h] # [array |-> Len(d.arrays), bit |-> d.offset]
        BY <4>1, <4>2
      <4> QED
        BY <1>1, <2>1, <3>2, <4>3 DEF FreeBit
    <3> QED
      BY <3>1, <3>2
  <2>2. NoSharedBit(d)
    BY DEF GroupsSound
  <2> QED
    BY <1>1, <2>1, <2>2 DEF NoSharedBit
<1>7. UniformFlags(e)
  <2> SUFFICES ASSUME NEW i \in DOMAIN e.arrays, e.arrays[i].uniform, NEW p \in Points(d.count), NEW q \in Points(d.count)
               PROVE  e.arrays[i].bits[p] = e.arrays[i].bits[q]
    BY <1>1 DEF UniformFlags
  <2>1. CASE i \in DOMAIN d.arrays
    BY <1>1, <2>1 DEF GroupsSound, UniformFlags
  <2>2. CASE i \notin DOMAIN d.arrays
    <3>1. e.arrays[i] = FreshArray(d.count)
      BY <1>1, <2>2
    <3>2. \A r \in Points(d.count) : e.arrays[i].bits[r] = {}
      BY <3>1, FreshArraySound
    <3> QED
      BY <3>2
  <2> QED
    BY <2>1, <2>2
<1>8. BitsOwned(e)
  <2> SUFFICES ASSUME NEW i \in DOMAIN e.arrays, NEW p \in Points(d.count), NEW b \in e.arrays[i].bits[p]
               PROVE  \E h \in getGroups(e) : e.handles[h] = [array |-> i, bit |-> b]
    BY <1>1 DEF BitsOwned
  <2>1. i \in DOMAIN d.arrays /\ b \in d.arrays[i].bits[p]
    BY <1>1, FreshArraySound
  <2>2. PICK h \in getGroups(d) : d.handles[h] = [array |-> i, bit |-> b]
    BY <2>1 DEF GroupsSound, BitsOwned
  <2> QED
    BY <1>1, <2>2
<1> QED
  BY <1>4, <1>5, <1>6, <1>7, <1>8 DEF GroupsSound, e

\* getOrInsert returns sound data in which the group has a handle, and leaves
\* the strings alone.
LEMMA GetOrInsertSound ==
    ASSUME NEW d, IsLeafData(d), GroupsSound(d), NEW g \in Group
    PROVE  LET e == getOrInsert(d, g)
           IN  /\ IsLeafData(e) /\ GroupsSound(e) /\ hasGroup(e, g)
               /\ e.count = d.count /\ e.strings = d.strings
<1>1. CASE hasGroup(d, g)
  BY <1>1 DEF getOrInsert
<1>2. CASE ~ hasGroup(d, g)
  <2> DEFINE e == Insert(d, g)
  <2>1. IsLeafData(e) /\ GroupsSound(e)
    BY <1>2, InsertSound
  <2>2. /\ e.count = d.count /\ e.strings = d.strings
        /\ \E h : e.handles = Put(d.handles, g, h)
    BY InsertFields
  <2>3. hasGroup(e, g)
    <3> HIDE DEF e
    <3> QED BY <2>2 DEF Put, hasGroup
  <2> QED
    BY <1>2, <2>1, <2>2, <2>3 DEF getOrInsert
<1> QED
  BY <1>1, <1>2

\* Setting a bit of a group touches one array, keeps every handle and clears
\* the array's uniform flag.
LEMMA SetBitSound ==
    ASSUME NEW d, IsLeafData(d), GroupsSound(d), NEW g, hasGroup(d, g),
           NEW p \in Points(d.count), NEW flag \in BOOLEAN
    PROVE  LET e == SetBit(d, g, p, flag)
           IN  /\ IsLeafData(e) /\ GroupsSound(e)
               /\ e.count = d.count /\ e.strings = d.strings
<1> DEFINE e == SetBit(d, g, p, flag)
           h == d.handles[g]
           bits == d.arrays[h.array].bits
           set == IF flag THEN bits[p] \cup {h.bit} ELSE bits[p] \ {h.bit}
           a == [bits |-> [bits EXCEPT ![p] = set], uniform |-> FALSE]
           arrays == [d.arrays EXCEPT ![h.array] = a]
<1>1. h \in [array : DOMAIN d.arrays, bit : Bit]
  BY DEF IsLeafData, hasGroup, getGroups
<1>2. d.arrays \in Seq(GroupArray(d.count)) /\ d.arrays[h.array] \in GroupArray(d.count)
  BY <1>1 DEF IsLeafData
<1>3. a \in GroupArray(d.count) /\ ~ a.uniform
  BY <1>1, <1>2 DEF GroupArray
<1>4. e = [d EXCEPT !.arrays = arrays]
  BY DEF SetBit
<1> HIDE DEF h, a
<1>5. /\ arrays \in Seq(GroupArray(d.count))
      /\ Len(arrays) = Len(d.arrays) /\ DOMAIN arrays = DOMAIN d.arrays
      /\ \A i \in DOMAIN d.arrays : arrays[i] = IF i = h.array THEN a ELSE d.arrays[i]
  BY <1>1, <1>2, <1>3
<1> HIDE DEF e, arrays
<1>6. /\ HasFields(e)
      /\ e.count = d.count /\ e.arrays = arrays /\ e.offset = d.offset
      /\ e.handles = d.handles /\ e.strings = d.strings
  BY <1>4 DEF IsLeafData, HasFields
<1>7. IsLeafData(e)
  BY <1>5, <1>6 DEF IsLeafData, getGroups
<1>8. NoSharedBit(e) /\ NextBitFree(e)
  BY <1>5, <1>6 DEF GroupsSound, NoSharedBit, NextBitFree, getGroups
<1>9. UniformFlags(e)
  BY <1>3, <1>5, <1>6 DEF GroupsSound, UniformFlags
<1>10. BitsOwned(e)
  <2> SUFFICES ASSUME NEW i \in DOMAIN d.arrays, NEW q \in Points(d.count), NEW b \in arrays[i].bits[q]
               PROVE  \E k \in getGroups(d) : d.handles[k] = [array |-> i, bit |-> b]
    BY <1>5, <1>6 DEF BitsOwned, getGroups
  <2>1. CASE b \in d.arrays[i].bits[q]
    BY <2>1 DEF GroupsSound, BitsOwned
  <2>2. CASE b \notin d.arrays[i].bits[q]
    <3>1. i = h.array
      BY <1>5, <2>2
    <3>2. b \in a.bits[q]
      BY <1>5, <3>1
    <3>3. b = h.bit
      BY <1>2, <2>2, <3>1, <3>2 DEF a, GroupArray
    <3>4. h = [array |-> i, bit |-> b]
      BY <1>1, <3>1, <3>3
    <3> QED
      BY <3>4 DEF h, hasGroup, getGroups
  <2> QED
    BY <2>1, <2>2
<1> QED
  BY <1>6, <1>7, <1>8, <1>9, <1>10 DEF GroupsSound, e

\* Compaction keeps every bit and sets the flags of the arrays that are uniform.
LEMMA CompactSound ==
    ASSUME NEW d, IsLeafData(d), GroupsSound(d)
    PROVE  LET e == compact(d)
           IN  /\ IsLeafData(e) /\ GroupsSound(e)
               /\ e.count = d.count /\ e.strings = d.strings
<1> DEFINE e == compact(d)
           flat(i) == \A p, q \in Points(d.count) : d.arrays[i].bits[p] = d.arrays[i].bits[q]
           arrays == [i \in DOMAIN d.arrays |-> [bits |-> d.arrays[i].bits, uniform |-> flat(i)]]
<1>1. e = [d EXCEPT !.arrays = arrays]
  BY DEF compact
<1>2. /\ d.arrays \in Seq(GroupArray(d.count)) /\ Len(d.arrays) \in Nat
      /\ DOMAIN d.arrays = 1 .. Len(d.arrays)
      /\ \A i \in DOMAIN d.arrays : d.arrays[i] \in GroupArray(d.count)
  BY DEF IsLeafData
<1>3. \A i \in DOMAIN d.arrays : flat(i) \in BOOLEAN
  OBVIOUS
<1> HIDE DEF flat
<1>4. \A i \in DOMAIN d.arrays : [bits |-> d.arrays[i].bits, uniform |-> flat(i)] \in GroupArray(d.count)
  BY <1>2, <1>3 DEF GroupArray
<1>5. /\ arrays \in Seq(GroupArray(d.count))
      /\ DOMAIN arrays = DOMAIN d.arrays /\ Len(arrays) = Len(d.arrays)
      /\ \A i \in DOMAIN arrays : arrays[i].bits = d.arrays[i].bits
                               /\ arrays[i].uniform = flat(i)
  BY <1>2, <1>4
<1> HIDE DEF e, arrays
<1>6. /\ HasFields(e)
      /\ e.count = d.count /\ e.arrays = arrays /\ e.offset = d.offset
      /\ e.handles = d.handles /\ e.strings = d.strings
  BY <1>1 DEF IsLeafData, HasFields
<1>7. IsLeafData(e)
  BY <1>5, <1>6 DEF IsLeafData, getGroups
<1>8. NoSharedBit(e) /\ NextBitFree(e)
  BY <1>5, <1>6 DEF GroupsSound, NoSharedBit, NextBitFree, getGroups
<1>9. UniformFlags(e)
  <2> SUFFICES ASSUME NEW i \in DOMAIN e.arrays, e.arrays[i].uniform, NEW p \in Points(d.count), NEW q \in Points(d.count)
               PROVE  e.arrays[i].bits[p] = e.arrays[i].bits[q]
    BY <1>6 DEF UniformFlags
  <2>1. flat(i)
    BY <1>5, <1>6
  <2>2. p \in Points(d.count) /\ q \in Points(d.count)
    BY <1>2
  <2>3. d.arrays[i].bits[p] = d.arrays[i].bits[q]
    BY <2>1, <2>2 DEF flat
  <2>4. e.arrays[i].bits = d.arrays[i].bits
    BY <1>5, <1>6
  <2> QED
    BY <2>3, <2>4
<1>10. BitsOwned(e)
  BY <1>5, <1>6 DEF GroupsSound, BitsOwned, getGroups
<1> QED
  BY <1>6, <1>7, <1>8, <1>9, <1>10 DEF GroupsSound, e

-----------------------------------------------------------------------------
(* Strings.                                                                *)

\* A change of the strings alone does not touch the groups.
LEMMA StringsOnly ==
    ASSUME NEW d, IsLeafData(d), GroupsSound(d),
           NEW m, DOMAIN m \subseteq StrArray, m \in [DOMAIN m -> PointMap(d.count)]
    PROVE  LET e == [d EXCEPT !.strings = m]
           IN  IsLeafData(e) /\ GroupsSound(e) /\ e.count = d.count /\ e.strings = m
<1> DEFINE e == [d EXCEPT !.strings = m]
<1>1. /\ HasFields(e)
      /\ e.count = d.count /\ e.arrays = d.arrays /\ e.offset = d.offset
      /\ e.handles = d.handles /\ e.strings = m
  BY DEF IsLeafData, HasFields
<1> HIDE DEF e
<1>2. IsLeafData(e)
  BY <1>1 DEF IsLeafData, getGroups
<1>3. GroupsSound(e)
  BY <1>1 DEF GroupsSound, NoSharedBit, NextBitFree, UniformFlags, BitsOwned, getGroups
<1> QED
  BY <1>1, <1>2, <1>3 DEF e

\* A map of points to strings: its domain and its values.
LEMMA PointMaps ==
    ASSUME NEW n, NEW m
    PROVE  m \in PointMap(n) <=> DOMAIN m \subseteq Points(n) /\ m \in [DOMAIN m -> Str]
BY DEF PointMap

\* Setting a pending string the metadata lacks.
LEMMA SetStringSound ==
    ASSUME NEW d, IsLeafData(d), GroupsSound(d), NEW known, NewStringsOnly(d, known),
           NEW a \in StrArray, NEW p \in Points(d.count), NEW s \in Str \ known
    PROVE  LET e == setNewStringData(d, a, p, s)
           IN  IsLeafData(e) /\ GroupsSound(e) /\ NewStringsOnly(e, known) /\ e.count = d.count
<1> DEFINE old == IF a \in DOMAIN d.strings THEN d.strings[a] ELSE EmptyMap
           set == Put(old, p, s)
           m   == Put(d.strings, a, set)
           e   == setNewStringData(d, a, p, s)
<1>1. DOMAIN d.strings \subseteq StrArray /\ d.strings \in [DOMAIN d.strings -> PointMap(d.count)]
  BY DEF IsLeafData
<1>2. DOMAIN old \subseteq Points(d.count) /\ \A q \in DOMAIN old : old[q] \in Str \ known
  BY <1>1, PointMaps DEF NewStringsOnly, EmptyMap
<1> HIDE DEF old
<1>3. /\ p \in DOMAIN set /\ DOMAIN set \subseteq Points(d.count)
      /\ set = [q \in DOMAIN set |-> set[q]]
      /\ \A q \in DOMAIN set : set[q] \in Str \ known
  BY <1>2 DEF Put
<1> HIDE DEF set
<1>4. set \in PointMap(d.count)
  BY <1>3, PointMaps
<1>5. /\ DOMAIN m = DOMAIN d.strings \cup {a}
      /\ m = [b \in DOMAIN m |-> m[b]]
      /\ \A b \in DOMAIN m : m[b] = IF b = a THEN set ELSE d.strings[b]
  BY DEF Put
<1>6. e = [d EXCEPT !.strings = m]
  BY DEF setNewStringData, set, old
<1> HIDE DEF m, e
<1>7. DOMAIN m \subseteq StrArray /\ m \in [DOMAIN m -> PointMap(d.count)]
  BY <1>1, <1>4, <1>5
<1>8. IsLeafData(e) /\ GroupsSound(e) /\ e.count = d.count /\ e.strings = m
  BY <1>6, <1>7, StringsOnly
<1>9. NewStringsOnly(e, known)
  <2> SUFFICES ASSUME NEW b \in DOMAIN m
               PROVE  DOMAIN m[b] # {} /\ \A q \in DOMAIN m[b] : m[b][q] \in Str \ known
    BY <1>8 DEF NewStringsOnly
  <2>1. CASE b = a
    BY <1>3, <1>5, <2>1
  <2>2. CASE b # a
    BY <1>5, <2>2 DEF NewStringsOnly
  <2> QED
    BY <2>1, <2>2
<1> QED
  BY <1>8, <1>9 DEF e

\* Forgetting what is pending for a point, and the map of an array with it when
\* nothing else is pending there.
LEMMA RemoveStringSound ==
    ASSUME NEW d, IsLeafData(d), GroupsSound(d), NEW known, NewStringsOnly(d, known),
           NEW a \in StrArray, NEW p \in Points(d.count)
    PROVE  LET e == removeNewStringData(d, a, p)
           IN  IsLeafData(e) /\ GroupsSound(e) /\ NewStringsOnly(e, known) /\ e.count = d.count
<1> DEFINE left == [q \in DOMAIN d.strings[a] \ {p} |-> d.strings[a][q]]
           without == [b \in DOMAIN d.strings \ {a} |-> d.strings[b]]
           with == [d.strings EXCEPT ![a] = left]
<1>1. DOMAIN d.strings \subseteq StrArray /\ d.strings \in [DOMAIN d.strings -> PointMap(d.count)]
  BY DEF IsLeafData
<1>2. CASE ~ HasNewString(d, a, p)
  BY <1>2 DEF removeNewStringData
<1>3. CASE HasNewString(d, a, p) /\ DOMAIN left = {}
  <2>1. removeNewStringData(d, a, p) = [d EXCEPT !.strings = without]
    BY <1>3 DEF removeNewStringData
  <2>2. DOMAIN without \subseteq StrArray /\ without \in [DOMAIN without -> PointMap(d.count)]
    BY <1>1
  <2> DEFINE e == [d EXCEPT !.strings = without]
  <2>3. IsLeafData(e) /\ GroupsSound(e) /\ e.count = d.count /\ e.strings = without
    BY <2>2, StringsOnly
  <2> HIDE DEF e
  <2>4. NewStringsOnly(e, known)
    BY <2>3 DEF NewStringsOnly
  <2> QED
    BY <2>1, <2>3, <2>4 DEF e
<1>4. CASE HasNewString(d, a, p) /\ DOMAIN left # {}
  <2>1. removeNewStringData(d, a, p) = [d EXCEPT !.strings = with]
    BY <1>4 DEF removeNewStringData
  <2>2. a \in DOMAIN d.strings /\ d.strings[a] \in PointMap(d.count)
    BY <1>1, <1>4 DEF HasNewString
  <2>3. /\ DOMAIN left \subseteq Points(d.count)
        /\ \A q \in DOMAIN left : left[q] \in Str \ known
    BY <2>2, PointMaps DEF NewStringsOnly
  <2>4. left \in PointMap(d.count)
    BY <2>3, PointMaps
  <2>5. DOMAIN with \subseteq StrArray /\ with \in [DOMAIN with -> PointMap(d.count)]
    <3> HIDE DEF left
    <3> QED BY <1>1, <2>4
  <2> DEFINE e == [d EXCEPT !.strings = with]
  <2>6. IsLeafData(e) /\ GroupsSound(e) /\ e.count = d.count /\ e.strings = with
    <3> HIDE DEF with
    <3> QED BY <2>5, StringsOnly
  <2> HIDE DEF e
  <2>7. \A b \in DOMAIN with : with[b] = IF b = a THEN left ELSE d.strings[b]
    BY <2>2
  <2>8. DOMAIN with = DOMAIN d.strings
    OBVIOUS
  <2> HIDE DEF with
  <2>9. NewStringsOnly(e, known)
    <3> SUFFICES ASSUME NEW b \in DOMAIN with
                 PROVE  /\ DOMAIN with[b] # {}
                        /\ \A q \in DOMAIN with[b] : with[b][q] \in Str \ known
      BY <2>6 DEF NewStringsOnly
    <3>1. CASE b = a
      <4> HIDE DEF left
      <4> QED BY <1>4, <2>3, <2>7, <3>1
    <3>2. CASE b # a
      BY <2>7, <2>8, <3>2 DEF NewStringsOnly
    <3> QED
      BY <3>1, <3>2
  <2> QED
    BY <2>1, <2>6, <2>9 DEF e, with
<1> QED
  BY <1>2, <1>3, <1>4

-----------------------------------------------------------------------------
(* What a group edit changes of the memberships that are read.             *)

\* A new handle changes the membership of no group, and its own group is empty.
LEMMA InsertReads ==
    ASSUME NEW d, IsLeafData(d), GroupsSound(d), NEW g \in Group, ~ hasGroup(d, g), NEW q \in Points(d.count)
    PROVE  /\ \A h \in getGroups(d) : GetBit(Insert(d, g), h, q) <=> GetBit(d, h, q)
           /\ ~ GetBit(Insert(d, g), g, q)
<1> DEFINE e == Insert(d, g)
<1>1. Inserted(d, e, g)
  BY InsertInserts
<1> HIDE DEF e
<1>2. /\ d.arrays \in Seq(GroupArray(d.count)) /\ Len(d.arrays) \in Nat /\ DOMAIN d.arrays = 1 .. Len(d.arrays)
      /\ \A h \in getGroups(d) : d.handles[h] \in [array : DOMAIN d.arrays, bit : Bit]
  BY DEF IsLeafData
<1>3. \A h \in getGroups(d) : GetBit(e, h, q) <=> GetBit(d, h, q)
  BY <1>1, <1>2 DEF Inserted, GetBit
<1>4. ~ GetBit(e, g, q)
  <2> SUFFICES ASSUME FreeBit(d) \in e.arrays[Len(e.arrays)].bits[q] PROVE FALSE
    BY <1>1 DEF Inserted, GetBit
  <2>1. Len(e.arrays) \in DOMAIN d.arrays
    BY <1>1, FreshArraySound DEF Inserted
  <2>2. ~ Full(d) /\ Len(e.arrays) = Len(d.arrays) /\ FreeBit(d) \in d.arrays[Len(d.arrays)].bits[q]
    BY <1>1, <1>2, <2>1 DEF Inserted
  <2>3. PICK h \in getGroups(d) : d.handles[h] = [array |-> Len(d.arrays), bit |-> FreeBit(d)]
    BY <2>1, <2>2 DEF GroupsSound, BitsOwned
  <2>4. FreeBit(d) < d.offset /\ d.offset \in Nat
    BY <2>3, GroupBitsAssumption DEF GroupsSound, NextBitFree, IsLeafData, HasFields
  <2> QED
    BY <2>2, <2>4 DEF FreeBit
<1> QED
  BY <1>3, <1>4 DEF e

\* Setting a bit changes the membership of one point in one group.
LEMMA SetBitReads ==
    ASSUME NEW d, IsLeafData(d), GroupsSound(d), NEW g, hasGroup(d, g),
           NEW p \in Points(d.count), NEW flag \in BOOLEAN
    PROVE  LET e == SetBit(d, g, p, flag)
           IN  /\ getGroups(e) = getGroups(d)
               /\ \A h \in getGroups(d), q \in Points(d.count) :
                    GetBit(e, h, q) <=> IF h = g /\ q = p THEN flag ELSE GetBit(d, h, q)
<1> DEFINE e == SetBit(d, g, p, flag)
           k == d.handles[g]
           bits == d.arrays[k.array].bits
           set == IF flag THEN bits[p] \cup {k.bit} ELSE bits[p] \ {k.bit}
           a == [bits |-> [bits EXCEPT ![p] = set], uniform |-> FALSE]
           arrays == [d.arrays EXCEPT ![k.array] = a]
<1>1. /\ k \in [array : DOMAIN d.arrays, bit : Bit]
      /\ \A h \in getGroups(d) : d.handles[h] \in [array : DOMAIN d.arrays, bit : Bit]
  BY DEF IsLeafData, hasGroup, getGroups
<1>2. bits \in [Points(d.count) -> SUBSET Bit]
  <2>1. d.arrays[k.array] \in GroupArray(d.count)
    BY <1>1 DEF IsLeafData
  <2> HIDE DEF k
  <2> QED
    BY <2>1 DEF GroupArray
<1>3. e.arrays = arrays /\ e.handles = d.handles
  <2>1. e = [d EXCEPT !.arrays = arrays]
    BY DEF SetBit
  <2> HIDE DEF e, arrays
  <2> QED
    BY <2>1 DEF IsLeafData, HasFields
<1>4. getGroups(e) = getGroups(d)
  <2> HIDE DEF e
  <2> QED BY <1>3 DEF getGroups
<1>5. ASSUME NEW h \in getGroups(d), NEW q \in Points(d.count)
      PROVE  GetBit(e, h, q) <=> IF h = g /\ q = p THEN flag ELSE GetBit(d, h, q)
  <2> DEFINE j == d.handles[h]
  <2>1. GetBit(e, h, q) <=> j.bit \in arrays[j.array].bits[q]
    <3> HIDE DEF e, arrays
    <3> QED BY <1>3 DEF GetBit
  <2>2. GetBit(d, h, q) <=> j.bit \in d.arrays[j.array].bits[q]
    BY DEF GetBit
  <2>3. j.array \in DOMAIN d.arrays /\ k.array \in DOMAIN d.arrays
    BY <1>1, <1>5
  <2>4. CASE j.array # k.array
    <3> HIDE DEF a, j, k
    <3>1. arrays[j.array] = d.arrays[j.array]
      BY <2>3, <2>4
    <3> QED
      BY <2>1, <2>2, <2>4, <3>1 DEF j, k
  <2>5. CASE j.array = k.array
    <3>1. arrays[j.array].bits = [bits EXCEPT ![p] = set]
      BY <2>3, <2>5
    <3>2. h # g => j.bit # k.bit
      <4>1. h # g => j # k
        BY DEF GroupsSound, NoSharedBit, hasGroup, getGroups
      <4> QED
        BY <1>1, <2>5, <4>1
    <3> HIDE DEF e, a, arrays, j, k
    <3>3. CASE q # p
      BY <1>2, <2>1, <2>2, <2>5, <3>1, <3>3
    <3>4. CASE q = p
      <4>1. arrays[j.array].bits[q] = set
        BY <1>2, <3>1, <3>4
      <4> QED
        BY <2>1, <2>2, <2>5, <3>2, <3>4, <4>1 DEF j, k
    <3> QED
      BY <3>3, <3>4
  <2> QED
    BY <2>4, <2>5
<1> QED
  BY <1>4, <1>5

\* A group edit reads back as an edit of a set: the group comes into being if it
\* did not exist, and one point of it changes.
LEMMA EditReads ==
    ASSUME NEW d, IsLeafData(d), GroupsSound(d), NEW g \in Group,
           NEW p \in Points(d.count), NEW flag \in BOOLEAN
    PROVE  LET e == SetBit(getOrInsert(d, g), g, p, flag)
           IN  /\ getGroups(e) = getGroups(d) \cup {g}
               /\ \A h \in getGroups(e), q \in Points(d.count) :
                    GetBit(e, h, q) <=> IF h = g /\ q = p THEN flag
                                        ELSE h \in getGroups(d) /\ GetBit(d, h, q)
<1> DEFINE f == getOrInsert(d, g)
           e == SetBit(f, g, p, flag)
<1>1. IsLeafData(f) /\ GroupsSound(f) /\ hasGroup(f, g) /\ f.count = d.count
  BY GetOrInsertSound
<1>2. /\ getGroups(f) = getGroups(d) \cup {g}
      /\ \A h \in getGroups(f), q \in Points(d.count) :
            GetBit(f, h, q) <=> h \in getGroups(d) /\ GetBit(d, h, q)
  <2>1. CASE hasGroup(d, g)
    BY <2>1 DEF getOrInsert, hasGroup, getGroups
  <2>2. CASE ~ hasGroup(d, g)
    <3>1. f = Insert(d, g)
      BY <2>2 DEF getOrInsert
    <3>2. Inserted(d, f, g) /\ g \notin getGroups(d)
      BY <2>2, <3>1, InsertInserts DEF hasGroup, getGroups
    <3> HIDE DEF f
    <3>3. \A q \in Points(d.count) : /\ \A h \in getGroups(d) : GetBit(f, h, q) <=> GetBit(d, h, q)
                           /\ ~ GetBit(f, g, q)
      BY <2>2, <3>1, InsertReads
    <3> QED
      BY <3>2, <3>3 DEF Inserted
  <2> QED
    BY <2>1, <2>2
<1> HIDE DEF f
<1>3. /\ getGroups(e) = getGroups(f)
      /\ \A h \in getGroups(f), q \in Points(d.count) :
            GetBit(e, h, q) <=> IF h = g /\ q = p THEN flag ELSE GetBit(f, h, q)
  BY <1>1, SetBitReads
<1> HIDE DEF e
<1> QED
  BY <1>2, <1>3 DEF e, f

\* Compaction changes no membership.
LEMMA CompactReads ==
    ASSUME NEW d, IsLeafData(d)
    PROVE  LET e == compact(d)
           IN  /\ getGroups(e) = getGroups(d)
               /\ \A h \in getGroups(d), q \in Points(d.count) : GetBit(e, h, q) <=> GetBit(d, h, q)
<1> DEFINE e == compact(d)
           flat(i) == \A p, q \in Points(d.count) : d.arrays[i].bits[p] = d.arrays[i].bits[q]
           arrays == [i \in DOMAIN d.arrays |-> [bits |-> d.arrays[i].bits, uniform |-> flat(i)]]
<1>1. e = [d EXCEPT !.arrays = arrays]
  BY DEF compact
<1> HIDE DEF e, flat
<1>2. \A i \in DOMAIN d.arrays : arrays[i].bits = d.arrays[i].bits
  OBVIOUS
<1> HIDE DEF arrays
<1>3. e.arrays = arrays /\ e.handles = d.handles
  BY <1>1 DEF IsLeafData, HasFields
<1>4. \A h \in getGroups(d) : d.handles[h].array \in DOMAIN d.arrays
  BY DEF IsLeafData
<1> QED
  BY <1>2, <1>3, <1>4 DEF GetBit, getGroups, e

-----------------------------------------------------------------------------
(* What a string edit changes of the strings that are read.                *)

\* A new string is read back, and no other read changes.
LEMMA SetStringReads ==
    ASSUME NEW d, HasFields(d), NEW a, NEW p, NEW s, NEW b, NEW q, NEW x
    PROVE  LET e == setNewStringData(d, a, p, s)
           IN  /\ e.handles = d.handles /\ e.arrays = d.arrays
               /\ StringOf(e, b, q, x) = IF b = a /\ q = p THEN s ELSE StringOf(d, b, q, x)
<1> DEFINE old == IF a \in DOMAIN d.strings THEN d.strings[a] ELSE EmptyMap
           set == Put(old, p, s)
           m   == Put(d.strings, a, set)
           e   == setNewStringData(d, a, p, s)
<1>1. e = [d EXCEPT !.strings = m]
  BY DEF setNewStringData
<1>2. /\ DOMAIN set = DOMAIN old \cup {p}
      /\ \A r \in DOMAIN set : set[r] = IF r = p THEN s ELSE old[r]
  <2> HIDE DEF old
  <2> QED BY DEF Put
<1>3. /\ DOMAIN old = IF a \in DOMAIN d.strings THEN DOMAIN d.strings[a] ELSE {}
      /\ a \in DOMAIN d.strings => old = d.strings[a]
  BY DEF EmptyMap
<1> HIDE DEF old, set
<1>4. /\ DOMAIN m = DOMAIN d.strings \cup {a}
      /\ \A c \in DOMAIN m : m[c] = IF c = a THEN set ELSE d.strings[c]
  BY DEF Put
<1> HIDE DEF m, e
<1>5. e.strings = m /\ e.handles = d.handles /\ e.arrays = d.arrays
  BY <1>1 DEF HasFields
<1>6. StringOf(e, b, q, x) = IF b = a /\ q = p THEN s ELSE StringOf(d, b, q, x)
  <2>1. CASE b = a
    BY <1>2, <1>3, <1>4, <1>5, <2>1 DEF StringOf, HasNewString
  <2>2. CASE b # a
    BY <1>4, <1>5, <2>2 DEF StringOf, HasNewString
  <2> QED
    BY <2>1, <2>2
<1> QED
  BY <1>5, <1>6 DEF e

\* Without its new string a point reads what its array holds.
LEMMA RemoveStringReads ==
    ASSUME NEW d, HasFields(d), NEW a, NEW p, NEW b, NEW q, NEW x
    PROVE  LET e == removeNewStringData(d, a, p)
           IN  /\ e.handles = d.handles /\ e.arrays = d.arrays
               /\ StringOf(e, b, q, x) = IF b = a /\ q = p THEN x ELSE StringOf(d, b, q, x)
<1> DEFINE left == [r \in DOMAIN d.strings[a] \ {p} |-> d.strings[a][r]]
           m == IF DOMAIN left = {} THEN [c \in DOMAIN d.strings \ {a} |-> d.strings[c]]
                ELSE [d.strings EXCEPT ![a] = left]
           e == removeNewStringData(d, a, p)
<1>1. CASE ~ HasNewString(d, a, p)
  BY <1>1 DEF removeNewStringData, StringOf
<1>2. CASE HasNewString(d, a, p)
  <2>1. e = [d EXCEPT !.strings = m]
    BY <1>2 DEF removeNewStringData
  <2>2. /\ \A c : c # a => (c \in DOMAIN m <=> c \in DOMAIN d.strings)
        /\ \A c \in DOMAIN d.strings : c # a => m[c] = d.strings[c]
        /\ DOMAIN left = {} => a \notin DOMAIN m
        /\ DOMAIN left # {} => a \in DOMAIN m /\ m[a] = left
    <3> HIDE DEF left
    <3> QED BY <1>2 DEF HasNewString
  <2>3. \A r : r \in DOMAIN left <=> r \in DOMAIN d.strings[a] /\ r # p
    OBVIOUS
  <2>4. \A r \in DOMAIN left : left[r] = d.strings[a][r]
    OBVIOUS
  <2> HIDE DEF e, m, left
  <2>5. e.strings = m /\ e.handles = d.handles /\ e.arrays = d.arrays
    BY <2>1 DEF HasFields
  <2>6. StringOf(e, b, q, x) = IF b = a /\ q = p THEN x ELSE StringOf(d, b, q, x)
    <3>1. CASE b # a
      <4>1. b \in DOMAIN e.strings <=> b \in DOMAIN d.strings
        BY <2>2, <2>5, <3>1
      <4>2. b \in DOMAIN d.strings => e.strings[b] = d.strings[b]
        BY <2>2, <2>5, <3>1
      <4>3. HasNewString(e, b, q) <=> HasNewString(d, b, q)
        BY <4>1, <4>2 DEF HasNewString
      <4>4. HasNewString(d, b, q) => e.strings[b][q] = d.strings[b][q]
        BY <4>2 DEF HasNewString
      <4> QED
        BY <3>1, <4>3, <4>4 DEF StringOf
    <3>2. CASE b = a /\ DOMAIN left = {}
      BY <1>2, <2>2, <2>3, <2>5, <3>2 DEF StringOf, HasNewString
    <3>3. CASE b = a /\ DOMAIN left # {}
      BY <1>2, <2>2, <2>3, <2>4, <2>5, <3>3 DEF StringOf, HasNewString
    <3> QED
      BY <3>1, <3>2, <3>3
  <2> QED
    BY <2>5, <2>6 DEF e
<1> QED
  BY <1>1, <1>2

=============================================================================
