----------------------- MODULE ParserOwnership_proofs ------------------------
(***************************************************************************)
(* For any grammar, any rules and any code: no parse leaks a node unless a *)
(* handler throws, and none deletes a node twice.                          *)
(***************************************************************************)
EXTENDS ParserOwnership, TLAPS

TypeOK ==
    /\ status \in {"idle", "parsing", "accepted", "aborted", "thrown"}
    /\ stack \in Seq(SUBSET made)
    /\ tree \subseteq made /\ live \subseteq made
    /\ twice = FALSE

\* That nothing was lost when a parse ended rests on every node having had one owner at
\* every step before: the destructors could not tell.
IndInv == TypeOK /\ OneOwner /\ NodesOwned

Apart(entries) == \A i, j \in DOMAIN entries : i # j => entries[i] \cap entries[j] = {}

-----------------------------------------------------------------------------
(* Entries of a stack, and what they own.                                  *)

\* An entry that is pushed adds what it owns.
LEMMA OwnedAppend ==
    ASSUME NEW M, NEW s \in Seq(SUBSET M), NEW e \in SUBSET M
    PROVE  /\ Append(s, e) \in Seq(SUBSET M)
           /\ Owned(Append(s, e)) = Owned(s) \cup e
           /\ (\A i \in DOMAIN s : s[i] \cap e = {}) /\ Apart(s) => Apart(Append(s, e))
<1> DEFINE t == Append(s, e)
<1>1. /\ t \in Seq(SUBSET M) /\ Len(t) = Len(s) + 1
      /\ DOMAIN t = 1..Len(t) /\ DOMAIN s = 1..Len(s) /\ Len(s) \in Nat
      /\ t[Len(s) + 1] = e
      /\ \A i \in 1..Len(s) : t[i] = s[i]
  OBVIOUS
<1> HIDE DEF t
<1>2. DOMAIN t = DOMAIN s \cup {Len(s) + 1}
  BY <1>1
<1>3. \A x : x \in Owned(t) <=> x \in Owned(s) \cup e
  BY <1>1, <1>2 DEF Owned
<1>4. (\A i \in DOMAIN s : s[i] \cap e = {}) /\ Apart(s) => Apart(t)
  BY <1>1, <1>2 DEF Apart
<1> QED
  BY <1>1, <1>3, <1>4 DEF t

\* A token adds nothing.
LEMMA TokenPushed ==
    ASSUME NEW M, NEW s \in Seq(SUBSET M)
    PROVE  /\ Append(s, {}) \in Seq(SUBSET M)
           /\ Owned(Append(s, {})) = Owned(s)
           /\ Apart(s) => Apart(Append(s, {}))
<1>1. {} \in SUBSET M /\ \A i \in DOMAIN s : s[i] \cap {} = {}
  OBVIOUS
<1>2. /\ Append(s, {}) \in Seq(SUBSET M)
      /\ Owned(Append(s, {})) = Owned(s) \cup {}
      /\ (\A i \in DOMAIN s : s[i] \cap {} = {}) /\ Apart(s) => Apart(Append(s, {}))
  BY <1>1, OwnedAppend
<1> QED
  BY <1>1, <1>2

\* A stack is its entries below a point and those above it.
LEMMA OwnedSplit ==
    ASSUME NEW M, NEW s \in Seq(SUBSET M), NEW n \in 0..(Len(s) - 1)
    PROVE  LET rest == SubSeq(s, 1, Len(s) - n)
               popped == SubSeq(s, Len(s) - n + 1, Len(s))
           IN  /\ rest \in Seq(SUBSET M)
               /\ DOMAIN rest \subseteq DOMAIN s
               /\ \A i \in DOMAIN rest : rest[i] = s[i]
               /\ Owned(popped) \subseteq M
               /\ Owned(s) = Owned(rest) \cup Owned(popped)
               /\ Apart(s) => /\ Apart(rest)
                              /\ \A i \in DOMAIN rest : rest[i] \cap Owned(popped) = {}
<1> DEFINE k == Len(s) - n
           rest == SubSeq(s, 1, k)
           popped == SubSeq(s, k + 1, Len(s))
<1>1. /\ Len(s) \in Nat /\ k \in 1..Len(s) /\ DOMAIN s = 1..Len(s)
      /\ \A i \in DOMAIN s : s[i] \in SUBSET M
  OBVIOUS
<1> HIDE DEF k
<1>2. rest \in Seq(SUBSET M) /\ DOMAIN rest = 1..k /\ \A i \in 1..k : rest[i] = s[i]
  BY <1>1
<1>3. DOMAIN popped = 1..(Len(s) - k) /\ \A i \in 1..(Len(s) - k) : popped[i] = s[k + i]
  BY <1>1
<1> HIDE DEF rest, popped
<1>4. \A i \in DOMAIN popped : k + i \in DOMAIN s /\ k + i \notin DOMAIN rest
                                 /\ popped[i] = s[k + i]
  BY <1>1, <1>2, <1>3
<1>5. \A i \in DOMAIN s : i \in DOMAIN rest \/ (i - k \in DOMAIN popped /\ popped[i - k] = s[i])
  BY <1>1, <1>2, <1>3
<1>6. DOMAIN rest \subseteq DOMAIN s /\ \A i \in DOMAIN rest : rest[i] = s[i]
  BY <1>1, <1>2
<1>7. Owned(popped) \subseteq M
  BY <1>1, <1>4 DEF Owned
<1>8. \A x : x \in Owned(s) <=> x \in Owned(rest) \cup Owned(popped)
  BY <1>4, <1>5, <1>6 DEF Owned
<1>9. Apart(s) => Apart(rest) /\ \A i \in DOMAIN rest : rest[i] \cap Owned(popped) = {}
  BY <1>4, <1>6 DEF Apart, Owned
<1> QED
  BY <1>2, <1>6, <1>7, <1>8, <1>9 DEF rest, popped, k

\* What is not in any entry is in none.
LEMMA OwnedByNone ==
    ASSUME NEW s, NEW e PROVE Owned(s) \cap e = {} <=> \A i \in DOMAIN s : s[i] \cap e = {}
BY DEF Owned

-----------------------------------------------------------------------------
(* The steps of a parse.                                                   *)

LEMMA InitSound == Init => IndInv
BY DEF Init, NoNodes, IndInv, TypeOK, OneOwner, OwnedOnce, NodesOwned, Owned

\* A rule that makes nodes, before what it pushes is known.
LEMMA PopsSound ==
    ASSUME IndInv, NEW n, Pops(n)
    PROVE  LET new == made' \ made
               popped == Owned(Popped(n))
           IN  /\ status = "parsing" /\ status' = "parsing" /\ twice' = FALSE
               /\ Rest(n) \in Seq(SUBSET made') /\ Apart(Rest(n))
               /\ popped \cup new \subseteq made'
               /\ live' = made' /\ live' = tree \cup Owned(Rest(n)) \cup popped \cup new
               /\ tree \cap (popped \cup new) = {} /\ tree \cap Owned(Rest(n)) = {}
               /\ \A i \in DOMAIN Rest(n) : Rest(n)[i] \cap (popped \cup new) = {}
<1>1. /\ status = "parsing" /\ n \in 0..(Len(stack) - 1)
      /\ made \subseteq made' /\ live' = live \cup (made' \ made)
      /\ status' = status /\ twice' = twice
  BY DEF Pops
<1>2. /\ stack \in Seq(SUBSET made) /\ twice = FALSE
      /\ live = made /\ live = tree \cup Owned(stack)
      /\ Owned(stack) \cap tree = {} /\ Apart(stack)
  BY <1>1, OwnedByNone DEF IndInv, TypeOK, OneOwner, OwnedOnce, Apart
<1> DEFINE rest == Rest(n)
           popped == Owned(Popped(n))
<1>3. /\ rest \in Seq(SUBSET made) /\ popped \subseteq made
      /\ Owned(stack) = Owned(rest) \cup popped
      /\ Apart(rest) /\ \A i \in DOMAIN rest : rest[i] \cap popped = {}
  BY <1>1, <1>2, OwnedSplit DEF Rest, Popped
<1> HIDE DEF rest, popped
<1>4. rest \in Seq(SUBSET made') /\ \A i \in DOMAIN rest : rest[i] \subseteq made
  BY <1>1, <1>3
<1>5. live' = made' /\ live' = tree \cup Owned(rest) \cup popped \cup (made' \ made)
  BY <1>1, <1>2, <1>3
<1>6. /\ tree \cap (popped \cup (made' \ made)) = {} /\ tree \cap Owned(rest) = {}
      /\ popped \cup (made' \ made) \subseteq made'
  BY <1>1, <1>2, <1>3
<1>7. \A i \in DOMAIN rest : rest[i] \cap (popped \cup (made' \ made)) = {}
  BY <1>3, <1>4
<1> QED
  BY <1>1, <1>2, <1>3, <1>4, <1>5, <1>6, <1>7 DEF rest, popped

LEMMA ReduceSound == ASSUME IndInv, NEW n, Reduce(n) PROVE IndInv'
<1> DEFINE rest == Rest(n)
           e == Owned(Popped(n)) \cup (made' \ made)
<1>1. Pops(n) /\ stack' = Append(rest, e) /\ tree' = tree
  BY DEF Reduce
<1>2. /\ status = "parsing" /\ status' = "parsing" /\ twice' = FALSE
      /\ rest \in Seq(SUBSET made') /\ Apart(rest) /\ e \subseteq made'
      /\ live' = made' /\ live' = tree \cup Owned(rest) \cup e
      /\ tree \cap e = {} /\ tree \cap Owned(rest) = {}
      /\ \A i \in DOMAIN rest : rest[i] \cap e = {}
  BY <1>1, PopsSound
<1> HIDE DEF rest, e
<1>3. /\ stack' \in Seq(SUBSET made') /\ Owned(stack') = Owned(rest) \cup e /\ Apart(stack')
  <2>1. e \in SUBSET made'
    BY <1>2
  <2>2. /\ Append(rest, e) \in Seq(SUBSET made')
        /\ Owned(Append(rest, e)) = Owned(rest) \cup e
        /\ (\A i \in DOMAIN rest : rest[i] \cap e = {}) /\ Apart(rest) => Apart(Append(rest, e))
    BY <1>2, <2>1, OwnedAppend
  <2> QED
    BY <1>1, <1>2, <2>2
<1>4. \A i \in DOMAIN stack' : stack'[i] \cap tree' = {}
  <2>1. Owned(stack') \cap tree' = {}
    BY <1>1, <1>2, <1>3
  <2> QED
    BY <2>1, OwnedByNone
<1>5. TypeOK'
  BY <1>1, <1>2, <1>3 DEF TypeOK
<1>6. OwnedOnce'
  BY <1>1, <1>2, <1>3, <1>4 DEF OwnedOnce, Apart
<1> QED
  BY <1>2, <1>5, <1>6 DEF IndInv, OneOwner, NodesOwned

LEMMA DeliverSound == ASSUME IndInv, NEW n, Deliver(n) PROVE IndInv'
<1> DEFINE rest == Rest(n)
           e == Owned(Popped(n)) \cup (made' \ made)
<1>1. Pops(n) /\ stack' = Append(rest, {}) /\ tree' = e /\ tree = {} /\ Owned(rest) = {}
  BY DEF Deliver
<1>2. /\ status = "parsing" /\ status' = "parsing" /\ twice' = FALSE
      /\ rest \in Seq(SUBSET made') /\ Apart(rest) /\ e \subseteq made'
      /\ live' = made' /\ live' = tree \cup Owned(rest) \cup e
  BY <1>1, PopsSound
<1> HIDE DEF rest, e
<1>3. /\ stack' \in Seq(SUBSET made') /\ Owned(stack') = {} /\ Apart(stack')
  BY <1>1, <1>2, TokenPushed
<1>4. \A i \in DOMAIN stack' : stack'[i] \cap tree' = {}
  BY <1>3, OwnedByNone
<1>5. TypeOK'
  BY <1>1, <1>2, <1>3 DEF TypeOK
<1>6. OwnedOnce'
  BY <1>1, <1>2, <1>3, <1>4 DEF OwnedOnce, Apart
<1> QED
  BY <1>2, <1>5, <1>6 DEF IndInv, OneOwner, NodesOwned

LEMMA StepSound == IndInv /\ [Next]_vars => IndInv'
<1> SUFFICES ASSUME IndInv, [Next]_vars PROVE IndInv'
  OBVIOUS
<1>1. ASSUME status' \in {"idle", "parsing"}, NoNodes', stack' = <<>> \/ stack' = <<{}>>
      PROVE  IndInv'
  <2>1. stack' \in Seq(SUBSET made') /\ \A i \in DOMAIN stack' : stack'[i] = {}
    <3>1. <<>> \in Seq(SUBSET made') /\ <<{}>> \in Seq(SUBSET made')
      OBVIOUS
    <3>2. (\A i \in DOMAIN <<>> : <<>>[i] = {}) /\ (\A i \in DOMAIN <<{}>> : <<{}>>[i] = {})
      OBVIOUS
    <3>3. CASE stack' = <<>>
      BY <3>1, <3>2, <3>3
    <3>4. CASE stack' = <<{}>>
      BY <3>1, <3>2, <3>4
    <3> QED
      BY <1>1, <3>3, <3>4
  <2> QED
    BY <1>1, <2>1 DEF NoNodes, IndInv, TypeOK, OneOwner, OwnedOnce, NodesOwned, Owned
<1>2. CASE Open
  BY <1>1, <1>2 DEF Open
<1>3. CASE Close
  BY <1>1, <1>3 DEF Close
<1>4. status = "parsing" =>
        /\ live = made /\ live = tree \cup Owned(stack) /\ Apart(stack)
        /\ \A i \in DOMAIN stack : stack[i] \cap tree = {}
        /\ tree \cap Owned(stack) = {}
  BY OwnedByNone DEF IndInv, OneOwner, OwnedOnce, Apart
<1>5. ASSUME status = "parsing", stack' = Append(stack, {})
      PROVE  stack' \in Seq(SUBSET made) /\ Owned(stack') = Owned(stack) /\ Apart(stack')
  <2>1. stack \in Seq(SUBSET made)
    BY DEF IndInv, TypeOK
  <2> QED
    BY <1>4, <1>5, <2>1, TokenPushed
<1>6. CASE Shift
  <2>1. /\ status = "parsing" /\ stack' = Append(stack, {})
        /\ UNCHANGED <<status, tree, made, live, twice>>
    BY <1>6 DEF Shift
  <2>2. \A i \in DOMAIN stack' : stack'[i] \cap tree' = {}
    BY <1>4, <1>5, <2>1, OwnedByNone
  <2>3. TypeOK' /\ OwnedOnce'
    BY <1>4, <1>5, <2>1, <2>2 DEF IndInv, TypeOK, OwnedOnce, Apart
  <2> QED
    BY <2>1, <2>3 DEF IndInv, OneOwner, NodesOwned
<1>7. CASE Accept
  <2>1. /\ status = "parsing" /\ status' = "accepted" /\ stack' = Append(stack, {})
        /\ Owned(stack) = {} /\ UNCHANGED <<tree, made, live, twice>>
    BY <1>7 DEF Accept
  <2>2. TypeOK' /\ NodesOwned'
    BY <1>4, <1>5, <2>1 DEF IndInv, TypeOK, NodesOwned
  <2> QED
    BY <2>1, <2>2 DEF IndInv, OneOwner
<1>8. CASE Abort
  <2>1. /\ status = "parsing" /\ status' = "aborted" /\ stack' = <<{}>>
        /\ live' = live \ Owned(stack)
        /\ twice' = (twice \/ MeetTwice(stack))
        /\ UNCHANGED <<tree, made>>
    BY <1>8 DEF Abort
  <2>2. ~ MeetTwice(stack)
    BY <1>4, <2>1 DEF MeetTwice, Apart
  <2>3. twice' = FALSE
    BY <2>1, <2>2 DEF IndInv, TypeOK
  <2>4. live' = tree'
    BY <1>4, <2>1
  <2>5. stack' \in Seq(SUBSET made')
    BY <2>1
  <2> QED
    BY <2>1, <2>3, <2>4, <2>5 DEF IndInv, TypeOK, OneOwner, NodesOwned
<1>9. CASE Throw
  BY <1>9 DEF Throw, IndInv, TypeOK, OneOwner, OwnedOnce, NodesOwned, Owned
<1>10. CASE \E n \in {Len(stack) - Len(stack') + 1} : Reduce(n) \/ Deliver(n)
  BY <1>10, ReduceSound, DeliverSound
<1>11. CASE UNCHANGED vars
  BY <1>11 DEF vars, IndInv, TypeOK, OneOwner, OwnedOnce, NodesOwned, Owned
<1> QED
  BY <1>2, <1>3, <1>6, <1>7, <1>8, <1>9, <1>10, <1>11 DEF Next

-----------------------------------------------------------------------------
(* What parse relies on.                                                   *)

\* Through any parses, accepted, aborted or left by an exception.
THEOREM OwnershipSound == Spec => []IndInv
BY InitSound, StepSound, PTL DEF Spec

\* At every step of a parse each node has one owner; an exception of the handler loses
\* just the nodes the stack owns.
THEOREM NodesHaveOneOwner == Spec => []OneOwner
<1>1. IndInv => OneOwner
  BY DEF IndInv
<1> QED
  BY <1>1, OwnershipSound, PTL

\* A parse that returns has given all its nodes to *tree, or deleted them once.
THEOREM NodesAreOwned == Spec => []NodesOwned
<1>1. IndInv => NodesOwned
  BY DEF IndInv
<1> QED
  BY <1>1, OwnershipSound, PTL
=============================================================================
