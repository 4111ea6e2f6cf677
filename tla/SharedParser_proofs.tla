------------------------ MODULE SharedParser_proofs -------------------------
(***************************************************************************)
(* The mutex and the reset of the globals make every parse a function of   *)
(* its call.                                                               *)
(***************************************************************************)
EXTENDS SharedParser, Integers, WellFoundedInduction, TLAPS

-----------------------------------------------------------------------------
(* A parse on its own.                                                     *)

Begun(c) == <<Open(c, Origin), Origin, NewLog(c)>>
Moved(s) == <<Move(s)[1], Move(s)[2], Move(s)[3]>>

\* f is the course of n steps of the parser on the call c.
Course(c, n, f) ==
    /\ f[0] = Begun(c)
    /\ \A i \in 0 .. n - 1 : ~ Halted(f[i]) /\ f[i + 1] = Moved(f[i])

\* The parser gets to s on the call c.
Reached(c, s) == \E n \in Nat : \E f : Course(c, n, f) /\ f[n] = s

\* A set of numbers that is not empty has a least one.
LEMMA Least ==
    ASSUME NEW S \in SUBSET Nat, S # {} PROVE \E x \in S : \A y \in S : x <= y
<1> DEFINE less == OpToRel(<, Nat)
<1>1. PICK x \in S : \A y \in S : ~ <<y, x>> \in less
  <2> HIDE DEF less
  <2>1. IsWellFoundedOn(less, Nat)
    BY NatLessThanWellFounded DEF less
  <2> QED
    BY <2>1, WFMin
<1>2. \A y \in S : ~ (y < x)
  BY <1>1, Zenon DEF OpToRel
<1> QED
  BY <1>2

\* Two courses of one call agree as far as both go.
LEMMA CoursesAgree ==
    ASSUME NEW c, NEW n \in Nat, NEW f, Course(c, n, f), NEW m \in Nat, NEW g, Course(c, m, g)
    PROVE  \A i \in Nat : i <= n /\ i <= m => f[i] = g[i]
<1> DEFINE Apart == {i \in Nat : i <= n /\ i <= m /\ f[i] # g[i]}
<1> SUFFICES ASSUME Apart # {} PROVE FALSE
  OBVIOUS
<1>1. PICK i \in Apart : \A j \in Apart : i <= j
  BY Least
<1>2. i # 0
  BY DEF Course
<1>3. i - 1 \in Nat /\ i - 1 \notin Apart
  BY <1>1, <1>2
<1>4. f[i - 1] = g[i - 1] /\ i - 1 \in 0 .. n - 1 /\ i - 1 \in 0 .. m - 1
  BY <1>3
<1>5. f[(i - 1) + 1] = g[(i - 1) + 1]
  BY <1>4 DEF Course
<1> QED
  BY <1>1, <1>5

\* A call halts in one state only.
LEMMA OneOutcome ==
    ASSUME NEW c, NEW s, Reached(c, s), Halted(s), NEW r, Reached(c, r), Halted(r)
    PROVE  s = r
<1>1. PICK n \in Nat : \E f : Course(c, n, f) /\ f[n] = s
  BY DEF Reached
<1>2. PICK f : Course(c, n, f) /\ f[n] = s
  BY <1>1
<1>3. PICK m \in Nat : \E g : Course(c, m, g) /\ g[m] = r
  BY DEF Reached
<1>4. PICK g : Course(c, m, g) /\ g[m] = r
  BY <1>3
<1>5. \A i \in Nat : i <= n /\ i <= m => f[i] = g[i]
  BY <1>2, <1>4, CoursesAgree
<1>6. ~ n < m
  BY <1>2, <1>4, <1>5 DEF Course
<1>7. ~ m < n
  BY <1>2, <1>4, <1>5 DEF Course
<1> QED
  BY <1>2, <1>4, <1>5, <1>6, <1>7

\* What is reached begins with the call, and goes on with every step.
LEMMA BegunReached == ASSUME NEW c PROVE Reached(c, Begun(c))
<1> DEFINE f == [i \in {0} |-> Begun(c)]
<1>1. Course(c, 0, f)
  BY DEF Course
<1> QED
  BY <1>1 DEF Reached

LEMMA MoveReached ==
    ASSUME NEW c, NEW s, Reached(c, s), ~ Halted(s)
    PROVE  Reached(c, Moved(s))
<1>1. PICK n \in Nat : \E f : Course(c, n, f) /\ f[n] = s
  BY DEF Reached
<1>2. PICK f : Course(c, n, f) /\ f[n] = s
  BY <1>1
<1> DEFINE r == Moved(s)
           g == [i \in 0 .. n + 1 |-> IF i = n + 1 THEN r ELSE f[i]]
<1>3. g[n + 1] = r /\ \A i \in 0 .. n : g[i] = f[i]
  OBVIOUS
<1> HIDE DEF g
<1>4. Course(c, n + 1, g)
  BY <1>2, <1>3 DEF Course
<1> QED
  BY <1>3, <1>4 DEF Reached

-----------------------------------------------------------------------------
(* The inductive invariant.                                                *)

Shape ==
    /\ lock \in Threads \cup {NoThread}
    /\ logs = [t \in Threads |-> logs[t]]

\* The parse under way is as far as its call would be on its own.
Underway == lock # NoThread => Reached(call, state)

\* What has been parsed is where its call ends on its own.
Ends ==
    \A r \in parsed : \E s :
        Reached(r[1], s) /\ Halted(s) /\ r = <<r[1], Came(s[1], s[3])>>

IndInv == Shape /\ MutexHeld /\ Underway /\ Ends

LEMMA InitSound == Init => IndInv
BY DEF Init, IndInv, Shape, MutexHeld, Underway, Ends

LEMMA EnterSound ==
    ASSUME NoThread \notin Threads, IndInv, NEW t \in Threads, Enter(t) PROVE IndInv'
<1>1. Shape' /\ MutexHeld' /\ Ends'
  BY DEF IndInv, Shape, MutexHeld, Ends, Enter
<1>2. state' = Begun(call')
  BY DEF IndInv, Shape, Enter, state, Begun
<1>3. Underway'
  BY <1>2, BegunReached DEF Underway
<1> QED
  BY <1>1, <1>3 DEF IndInv

\* The holder of the mutex is the only thread in ast::parse.
LEMMA InsideHolds ==
    ASSUME MutexHeld, NEW t \in inside, Shape, NoThread \notin Threads
    PROVE  t = lock /\ t \in Threads /\ axlog = t /\ lock # NoThread
BY DEF MutexHeld, Shape

LEMMA AdvanceSound ==
    ASSUME NoThread \notin Threads, IndInv, NEW t \in Threads, Advance(t) PROVE IndInv'
<1>1. t = lock /\ axlog = t /\ lock # NoThread /\ logs = [k \in Threads |-> logs[k]]
  BY InsideHolds DEF IndInv, Shape, Advance
<1>2. state' = Moved(state)
  <2>1. /\ parse' = Move(state)[1] /\ axlloc' = Move(state)[2] /\ axlog' = axlog
        /\ logs' = [logs EXCEPT ![axlog] = Move(state)[3]]
    BY DEF Advance
  <2>2. logs'[axlog'] = Move(state)[3]
    BY <1>1, <2>1
  <2> QED
    BY <2>1, <2>2 DEF state, Moved
<1>3. Underway'
  <2>1. Reached(call, state) /\ ~ Halted(state) /\ call' = call
    BY <1>1 DEF IndInv, Underway, Advance
  <2> QED
    BY <1>2, <2>1, MoveReached DEF Underway
<1>4. Shape' /\ MutexHeld' /\ Ends'
  BY DEF IndInv, Shape, MutexHeld, Ends, Advance
<1> QED
  BY <1>3, <1>4 DEF IndInv

LEMMA LeaveSound ==
    ASSUME NoThread \notin Threads, IndInv, NEW t \in Threads, Leave(t), Halted(state),
           logs' = [k \in Threads |-> logs'[k]]
    PROVE  IndInv'
<1>1. t = lock /\ axlog = t /\ lock # NoThread
  BY InsideHolds DEF IndInv, Leave
<1>2. Shape' /\ MutexHeld' /\ Underway'
  BY <1>1 DEF IndInv, Shape, MutexHeld, Underway, Leave
<1>3. Ends'
  <2>1. Reached(call, state) /\ state[1] = parse /\ state[3] = logs[t]
    BY <1>1 DEF IndInv, Underway, state
  <2> DEFINE r == <<call, Came(parse, logs[t])>>
  <2>2. Reached(r[1], state) /\ Halted(state) /\ r = <<r[1], Came(state[1], state[3])>>
    BY <2>1
  <2>3. parsed' = parsed \cup {r}
    BY DEF Leave
  <2> QED
    BY <2>2, <2>3 DEF IndInv, Ends
<1> QED
  BY <1>2, <1>3 DEF IndInv

LEMMA OutsideSound ==
    ASSUME NoThread \notin Threads, IndInv, NEW t \in Threads, Outside(t) PROVE IndInv'
<1>1. Shape' /\ MutexHeld' /\ Ends'
  BY DEF IndInv, Shape, MutexHeld, Ends, Outside, OnlyLog
<1>2. lock # NoThread => state' = state
  <2>1. lock # NoThread => axlog \in Threads /\ axlog # t
    BY DEF IndInv, Shape, MutexHeld, Outside
  <2> QED
    BY <2>1 DEF Outside, OnlyLog, state
<1>3. Underway'
  BY <1>2 DEF IndInv, Underway, Outside
<1> QED
  BY <1>1, <1>3 DEF IndInv

LEMMA StepSound == ASSUME NoThread \notin Threads PROVE IndInv /\ [Next]_vars => IndInv'
<1> SUFFICES ASSUME IndInv, [Next]_vars PROVE IndInv'
  OBVIOUS
<1>1. CASE UNCHANGED vars
  BY <1>1 DEF vars, IndInv, Shape, MutexHeld, Underway, state, Ends
<1>2. ASSUME NEW t \in Threads, Return(t) \/ Throw(t) PROVE IndInv'
  <2>1. Leave(t) /\ Halted(state)
    BY <1>2 DEF Return, Throw, Halted, state
  <2>2. logs' = [k \in Threads |-> logs'[k]]
    BY <1>2 DEF Return, Throw, OnlyLog, IndInv, Shape
  <2> QED
    BY <2>1, <2>2, LeaveSound
<1> QED
  BY <1>1, <1>2, EnterSound, AdvanceSound, OutsideSound DEF Next

-----------------------------------------------------------------------------
(* The theorems.                                                           *)

\* Through any calls and throws of any threads: the mutex is held by the one thread in
\* ast::parse, and the parse under way and those that ended go as they would alone.
THEOREM ParserShared == ASSUME NoThread \notin Threads PROVE Spec => []IndInv
BY InitSound, StepSound, PTL DEF Spec

\* One thread at a time parses, with axlog on its logger, and a throw frees the mutex.
THEOREM OneParsesAtATime == ASSUME NoThread \notin Threads PROVE Spec => []MutexHeld
<1>1. IndInv => MutexHeld
  BY DEF IndInv
<1> QED
  BY <1>1, ParserShared, PTL

\* What a call comes to depends on its code and its settings alone.
THEOREM CallsParseAsAlone == ASSUME NoThread \notin Threads PROVE Spec => []ParsesAsAlone
<1>1. IndInv => ParsesAsAlone
  <2> SUFFICES ASSUME Ends, NEW p \in parsed, NEW q \in parsed, p[1] = q[1] PROVE p[2] = q[2]
    BY DEF IndInv, ParsesAsAlone
  <2>1. PICK s : Reached(p[1], s) /\ Halted(s) /\ p = <<p[1], Came(s[1], s[3])>>
    BY DEF Ends
  <2>2. PICK r : Reached(q[1], r) /\ Halted(r) /\ q = <<q[1], Came(r[1], r[3])>>
    BY DEF Ends
  <2>3. s = r
    BY <2>1, <2>2, OneOutcome
  <2>4. p[2] = Came(s[1], s[3]) /\ q[2] = Came(r[1], r[3])
    BY <2>1, <2>2
  <2> QED
    BY <2>3, <2>4
<1> QED
  BY <1>1, ParserShared, PTL

\* A thread's errors and warnings are those of its own calls.
THEOREM OwnErrorsOnly == ASSUME NoThread \notin Threads PROVE Spec => LogsAreApart
<1>1. IndInv /\ [Next]_vars =>
        [parse' # parse => \A t \in Threads \ (inside \cup inside') : logs'[t] = logs[t]]_vars
  <2> SUFFICES ASSUME IndInv, Next, parse' # parse, NEW k \in Threads \ (inside \cup inside')
               PROVE  logs'[k] = logs[k]
    BY DEF vars
  <2>1. PICK t \in Threads : Enter(t) \/ Advance(t) \/ Return(t) \/ Throw(t)
    BY DEF Next, Outside
  <2>2. t # k
    BY <2>1 DEF Enter, Advance, Return, Throw, Leave
  <2>3. CASE Enter(t)
    BY <2>2, <2>3 DEF Enter, IndInv, Shape
  <2>4. CASE Advance(t)
    <3>1. axlog # k
      BY <2>2, <2>4, InsideHolds DEF Advance, IndInv
    <3> QED
      BY <2>4, <3>1 DEF Advance, IndInv, Shape
  <2>5. CASE Return(t) \/ Throw(t)
    BY <2>2, <2>5 DEF Return, Throw, OnlyLog
  <2> QED
    BY <2>1, <2>3, <2>4, <2>5
<1> QED
  BY <1>1, ParserShared, PTL DEF Spec, LogsAreApart
=============================================================================
