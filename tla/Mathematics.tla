---------------------------- MODULE Mathematics -----------------------------
(***************************************************************************)
(* What the operators and functions of the language mean, the reference    *)
(* that generated kernels are compared with: definitions from mathematics  *)
(* over the numbers of Values, none of them read from code generation.     *)
(* The rules are those of doc/ax.txt: the comparison of their results with *)
(* those of the code is what the runs are for.                             *)
(***************************************************************************)
EXTENDS FunctionTypes

\* Numbers of a type, from and to rationals of its unit.
ProductIn(e, a, b) == IF e \in Floating THEN RoundDiv(a * b, Unit[e]) ELSE Wrap(e, a * b)
QuotientIn(e, a, b) ==
  IF e \in Floating THEN RoundDiv(a * Unit[e], b) ELSE Wrap(e, TruncDiv(a, b))
KeepIn(e, n) == IF e \in Floating THEN n ELSE Wrap(e, n)

\* A number in the units of another type: the nearest, or its integer part.
UnitOf(e) == IF e \in Floating THEN Unit[e] ELSE 1
ConvertIn(from, to, v) ==
  IF to \in Floating THEN RoundDiv(v * UnitOf(to), UnitOf(from))
  ELSE Wrap(to, TruncDiv(v, UnitOf(from)))

\* a - b * floor(a / b): the sign is that of b.
FloorMod(a, b) == a - b * (IF b > 0 THEN a \div b ELSE (-a) \div (-b))

SumOver(dim, Term(_)) == FoldLeft(LAMBDA sum, k : sum + Term(k), 0, [k \in 1..dim |-> k])

\* The places of the bits that are set in the two's complement of a number, and the
\* number that has them.
Places(e) == 0 .. (Bits[e] - 1)
BitsOf(e, n) == {k \in Places(e) : (n \div 2^k) % 2 = 1}
OfBits(e, places) ==
  FoldSet(LAMBDA k, sum : IF k = Bits[e] - 1 THEN sum - 2^k ELSE sum + 2^k, 0, places)

OnBits(op, e, A, b) ==
  LET B == BitsOf(e, b)
      Source(k) == IF k + b \in Places(e) THEN k + b ELSE Bits[e] - 1
  IN  CASE op = "BITAND" -> A \cap B
        [] op = "BITOR" -> A \cup B
        [] op = "BITXOR" -> (A \ B) \cup (B \ A)
        [] op = "SHIFTLEFT" -> {k + b : k \in A} \cap Places(e)
        [] op = "SHIFTRIGHT" -> {k \in Places(e) : Source(k) \in A}

\* What the sign of a - b is where a is in a relation to b.
SignsOf ==
  "EQUALSEQUALS" :> {0} @@ "NOTEQUALS" :> {-1, 1} @@
  "MORETHAN" :> {1} @@ "LESSTHAN" :> {-1} @@
  "MORETHANOREQUAL" :> {0, 1} @@ "LESSTHANOREQUAL" :> {-1, 0}

-----------------------------------------------------------------------------
(* Operators on two scalars of one type.                                   *)

Operate(op, e, a, b) ==
  CASE op = "PLUS" -> KeepIn(e, a + b)
    [] op = "MINUS" -> KeepIn(e, a - b)
    [] op = "MULTIPLY" -> ProductIn(e, a, b)
    [] op = "DIVIDE" -> QuotientIn(e, a, b)
    [] op = "MODULO" -> FloorMod(a, b)
    [] op \in Relational -> Bool(Sign(a - b) \in SignsOf[op])
    [] op \in BitwiseOps -> OfBits(e, OnBits(op, e, BitsOf(e, a), b))

-----------------------------------------------------------------------------
(* Matrices, by row and column from 1.                                     *)

Order(m) == IF Len(m) = 9 THEN 3 ELSE 4
Entry(m, i, j) == m[(i - 1) * Order(m) + j]
MatrixOf(dim, Op(_, _)) ==
  [k \in 1..(dim * dim) |-> Op(1 + (k - 1) \div dim, 1 + ((k - 1) % dim))]

MatrixProduct(e, a, b) ==
  MatrixOf(Order(a), LAMBDA i, j :
    KeepIn(e, SumOver(Order(a), LAMBDA k : ProductIn(e, Entry(a, i, k), Entry(b, k, j)))))

\* The i-th coordinate of a vector, homogeneous where it has one less than the matrix.
Coordinate(e, v, i) == IF i > Len(v) THEN UnitOf(e) ELSE v[i]

RowTimes(e, v, m) ==
  [j \in 1..Len(v) |->
     KeepIn(e, SumOver(Order(m), LAMBDA k : ProductIn(e, Coordinate(e, v, k), Entry(m, k, j))))]
TimesColumn(e, m, v) ==
  [i \in 1..Len(v) |->
     KeepIn(e, SumOver(Order(m), LAMBDA k : ProductIn(e, Entry(m, i, k), Coordinate(e, v, k))))]

\* Leibniz: the sum over the permutations, each with its sign.
SignOf(p) ==
  IF Cardinality({<<i, j>> \in (DOMAIN p) \X (DOMAIN p) : i < j /\ p[i] > p[j]}) % 2 = 0
  THEN 1 ELSE -1
DeterminantOf(e, m) ==
  LET dim == Order(m)
      Term(p) == FoldLeft(LAMBDA t, i : ProductIn(e, t, Entry(m, i, p[i])),
                          SignOf(p) * UnitOf(e), [i \in 1..dim |-> i])
  IN  FoldSet(LAMBDA p, sum : sum + Term(p), 0, Permutations(1..dim))

-----------------------------------------------------------------------------
(* Functions, on arguments of element type e.                              *)

Between(in, a, b) ==
  LET lo == IF a < b THEN a ELSE b
      hi == IF a < b THEN b ELSE a
  IN  IF in < lo THEN lo ELSE IF in > hi THEN hi ELSE in

\* From the old range to the new: the middle of the new one where the old is empty.
Fitted(e, a) ==
  LET p == IF e = "FLOAT" THEN e ELSE "DOUBLE"
      x == [i \in DOMAIN a |-> ConvertIn(e, p, a[i])]
      in == Between(x[1], x[2], x[3])
  IN  IF x[2] = x[3] THEN RoundDiv(x[4] + x[5], 2)
      ELSE x[4] + RoundDiv((x[5] - x[4]) * (in - x[2]), x[3] - x[2])

ScalarFunction(name, e, a) ==
  CASE name = "abs" -> KeepIn(e, Abs(a[1]))
    [] name = "min" -> IF a[1] < a[2] THEN a[1] ELSE a[2]
    [] name = "max" -> IF a[1] < a[2] THEN a[2] ELSE a[1]
    [] name = "clamp" -> Between(a[1], a[2], a[3])
    [] name = "fit" -> Fitted(e, a)
    [] name = "lerp" -> a[1] + ProductIn(e, a[3], a[2] - a[1])
    [] name = "sign" -> Sign(a[1])
    [] name = "signbit" -> Bool(a[1] < 0)
    [] name = "truncatemod" -> Sign(a[1]) * (Abs(a[1]) % Abs(a[2]))
    [] name = "floormod" -> FloorMod(a[1], a[2])
    [] name = "euclideanmod" -> a[1] % Abs(a[2])

VectorFunction(name, e, a) ==
  LET v == a[1]
      Next3(i) == 1 + (i % 3)
      Component(i) == KeepIn(e, ProductIn(e, v[Next3(i)], a[2][Next3(Next3(i))])
                                - ProductIn(e, v[Next3(Next3(i))], a[2][Next3(i)]))
  IN  CASE name = "dot" -> KeepIn(e, SumOver(3, LAMBDA i : ProductIn(e, v[i], a[2][i])))
        [] name = "lengthsq" -> KeepIn(e, SumOver(Len(v), LAMBDA i : ProductIn(e, v[i], v[i])))
        [] name = "cross" -> [i \in 1..3 |-> Component(i)]

MatrixFunctionOf(name, e, a) ==
  LET one == UnitOf(e)
      m == a[1]
  IN  CASE name = "determinant" -> DeterminantOf(e, m)
        [] name = "identity3" -> MatrixOf(3, LAMBDA i, j : IF i = j THEN Unit["FLOAT"] ELSE 0)
        [] name = "identity4" -> MatrixOf(4, LAMBDA i, j : IF i = j THEN Unit["FLOAT"] ELSE 0)
        [] name = "diag" ->
             IF Len(m) > 4 THEN [i \in 1..Order(m) |-> Entry(m, i, i)]
             ELSE MatrixOf(Len(m), LAMBDA i, j : IF i = j THEN m[i] ELSE 0)
        [] name = "trace" -> SumOver(Order(m), LAMBDA i : Entry(m, i, i))
        [] name = "transpose" -> MatrixOf(Order(m), LAMBDA i, j : Entry(m, j, i))
        [] name = "transform" -> RowTimes(e, a[1], a[2])
        [] name = "pretransform" -> TimesColumn(e, m, a[2])
        [] name = "prescale" ->
             MatrixProduct(e, MatrixOf(4, LAMBDA i, j :
               IF i # j THEN 0 ELSE IF i = 4 THEN one ELSE a[2][i]), m)
        [] name = "postscale" ->
             MatrixProduct(e, m, MatrixOf(4, LAMBDA i, j :
               IF i # j THEN 0 ELSE IF i = 4 THEN one ELSE a[2][i]))

Meaning(name, e, a) ==
  CASE name \in {"abs", "min", "max", "clamp", "fit", "lerp", "sign", "signbit", "truncatemod",
                 "floormod", "euclideanmod"} -> ScalarFunction(name, e, a)
    [] name \in {"dot", "lengthsq", "cross"} -> VectorFunction(name, e, a)
    [] OTHER -> MatrixFunctionOf(name, e, a)
=============================================================================
