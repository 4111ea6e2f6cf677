------------------------- MODULE StandardFunctions --------------------------
(***************************************************************************)
(* What the declarations of codegen/StandardFunctions.cc compute: the IR   *)
(* they generate and the C functions they bind, over the scalar operations *)
(* of Values.  e is the element type of the signature.  Indices into       *)
(* matrices are those of the code, from 0, with El(m, i).                  *)
(***************************************************************************)
EXTENDS FunctionTypes

El(m, i) == m[i + 1]
One(e) == Convert("BOOL", e, 1)

\* A chain of additions, from the left.
Total(e, terms) == FoldLeft(LAMBDA sum, term : Plus(e, sum, term), Head(terms), Tail(terms))

-----------------------------------------------------------------------------
(* Scalars.                                                                *)

\* abs: of an integer the bits are flipped where it is negative.
AbsIR(e, a) ==
  IF e \in Floating THEN Abs(a)
  ELSE LET mask == BitOp("SHIFTRIGHT", e, a, Bits[e] - 1)
       IN  Minus(e, BitOp("BITXOR", e, a, mask), mask)

AbsC(e, a) == IF e \in Floating THEN Abs(a) ELSE Wrap(e, Abs(a))

MinBody(a, b) == IF a > b THEN b ELSE a
MaxBody(a, b) == IF a > b THEN a ELSE b

ClampIR(in, min, max) == MinBody(MaxBody(in, min), max)
\* openvdb::math::Clamp, which asserts max >= min.
ClampC(in, min, max) == IF in > min THEN IF in < max THEN in ELSE max ELSE min

\* fit of integers is done in double, and the input is clamped before.
FitIR(e, a) ==
  LET p == IF e \in Floating THEN e ELSE "DOUBLE"
      clamped == [a EXCEPT ![1] = ClampIR(a[1], MinBody(a[2], a[3]), MaxBody(a[2], a[3]))]
      x == [i \in DOMAIN a |-> Convert(e, p, clamped[i])]
      scaled == Times(p, Minus(p, x[5], x[4]), Minus(p, x[1], x[2]))
  IN  IF a[2] # a[3]
      THEN Plus(p, x[4], Quotient(p, scaled, Minus(p, x[3], x[2])))
      ELSE Quotient(p, Plus(p, x[4], x[5]), 2 * One(p))

\* lerp: the generated code and the C function differ in the order of operands.
LerpTail(e, a, b, t) ==
  LET x == Plus(e, a, Times(e, t, Minus(e, b, a)))
  IN  IF t = One(e) THEN b
      ELSE IF (t > One(e)) = (b > a) THEN (IF b < x THEN x ELSE b)
      ELSE IF x < b THEN x ELSE b

Opposed(a, b) == (a <= 0 /\ b >= 0) \/ (a >= 0 /\ b <= 0)

LerpIR(e, a, b, t) ==
  IF Opposed(a, b) THEN Plus(e, Times(e, Minus(e, One(e), t), a), Times(e, t, b))
  ELSE LerpTail(e, a, b, t)
LerpC(e, a, b, t) ==
  IF Opposed(a, b) THEN Plus(e, Times(e, t, b), Times(e, Minus(e, One(e), t), a))
  ELSE LerpTail(e, a, b, t)

SignIR(a) == Bool(0 < a) - Bool(a < 0)
\* Fixed point has no negative zero.
SignBitC(a) == Bool(a < 0)

TruncateModIR(e, D, d) == TruncRem(D, d)

FloorModIR(e, D, d) ==
  LET r == TruncRem(D, d)
  IN  IF (r > 0 /\ d < 0) \/ (r < 0 /\ d > 0) THEN Plus(e, r, d) ELSE r
\* In C the sum is made in int, and returned in the type of the arguments.
FloorModC(e, D, d) ==
  LET r == TruncRem(D, d)
      sum == IF (r > 0 /\ d < 0) \/ (r < 0 /\ d > 0) THEN r + d ELSE r
  IN  IF e \in Floating THEN sum ELSE Wrap(e, sum)

EuclideanModIR(e, D, d) ==
  LET r == TruncRem(D, d)
      rd == IF d > 0 THEN Plus(e, r, d) ELSE Minus(e, r, d)
  IN  IF r < 0 THEN rd ELSE r
EuclideanModC(e, D, d) ==
  LET r == TruncRem(D, d)
      sum == IF r < 0 THEN (IF d > 0 THEN r + d ELSE r - d) ELSE r
  IN  IF e \in Floating THEN sum ELSE Wrap(e, sum)

-----------------------------------------------------------------------------
(* Vectors.                                                                *)

DotBody(e, a, b) == Total(e, [i \in 1..3 |-> Times(e, a[i], b[i])])
LengthSqBody(e, v) == Total(e, [i \in DOMAIN v |-> Times(e, v[i], v[i])])

CrossBody(e, left, right) ==
  LET L(i) == El(left, i)
      R(i) == El(right, i)
  IN  << Minus(e, Times(e, L(1), R(2)), Times(e, L(2), R(1))),
         Minus(e, Times(e, L(2), R(0)), Times(e, L(0), R(2))),
         Minus(e, Times(e, L(0), R(1)), Times(e, L(1), R(0))) >>

-----------------------------------------------------------------------------
(* Matrices, row major.                                                    *)

DimOf(m) == IF Len(m) = 9 THEN 3 ELSE 4
Grid(dim, Op(_, _)) ==
  [k \in 1..(dim * dim) |-> Op((k - 1) \div dim, (k - 1) % dim)]

Determinant3(e, m) ==
  LET M(i) == El(m, i)
      Minor(a, b, c, d) == Minus(e, Times(e, M(a), M(b)), Times(e, M(c), M(d)))
  IN  Total(e, << Times(e, M(0), Minor(4, 8, 5, 7)), Times(e, M(1), Minor(5, 6, 3, 8)),
                  Times(e, M(2), Minor(3, 7, 4, 6)) >>)

\* The cofactors of the first row, subtracted where the column is odd.
Determinant4(e, m) ==
  LET Sub(i) == Grid(3, LAMBDA j, k : El(m, 4 * (j + 1) + IF k < i THEN k ELSE k + 1))
      Term(i) == Times(e, El(m, i), Determinant3(e, Sub(i)))
  IN  FoldLeft(LAMBDA sum, i : IF i % 2 = 1 THEN Minus(e, sum, Term(i))
                               ELSE Plus(e, sum, Term(i)), 0, <<0, 1, 2, 3>>)

DeterminantBody(e, m) == IF Len(m) = 9 THEN Determinant3(e, m) ELSE Determinant4(e, m)

\* A matrix from its diagonal, or the diagonal of a matrix.
DiagBody(v) ==
  IF Len(v) <= 4 THEN Grid(Len(v), LAMBDA i, j : IF i = j THEN El(v, i) ELSE 0)
  ELSE [i \in 1..DimOf(v) |-> El(v, (i - 1) + (i - 1) * DimOf(v))]

IdentityIR(dim) == Grid(dim, LAMBDA i, j : IF i = j THEN One("FLOAT") ELSE 0)

Product(e, m1, m2) ==
  LET dim == DimOf(m1)
  IN  Grid(dim, LAMBDA i, j :
             Total(e, [k \in 1..dim |->
                         Times(e, El(m1, i * dim + k - 1), El(m2, (k - 1) * dim + j))]))

MMMultIR(e, m1, m2) == Product(e, m1, m2)
\* The C function names its arguments out, mat2, mat1 and multiplies mat1 by mat2.
MMMultC(e, mat2, mat1) == Product(e, mat1, mat2)

PostScaleBody(e, m, v) ==
  Grid(4, LAMBDA row, col :
         IF col < 3 THEN Times(e, El(m, row * 4 + col), El(v, col)) ELSE El(m, row * 4 + col))
PreScaleBody(e, m, v) ==
  Grid(4, LAMBDA row, col :
         IF row < 3 THEN Times(e, El(m, row * 4 + col), El(v, row)) ELSE El(m, row * 4 + col))

\* A vec3 times a 4x4 matrix has 1 for its fourth element.
Through(e, v, dim, M(_, _)) ==
  [i \in 1..Len(v) |->
     Total(e, [k \in 1..dim |-> IF k > Len(v) THEN M(i - 1, k - 1)
                                ELSE Times(e, v[k], M(i - 1, k - 1))])]

PreTransformBody(e, m, v) ==
  Through(e, v, DimOf(m), LAMBDA i, k : El(m, k + i * DimOf(m)))
TransformBody(e, v, m) ==
  Through(e, v, DimOf(m), LAMBDA i, k : El(m, i + k * DimOf(m)))

TraceBody(e, m) == Total(e, [i \in 1..DimOf(m) |-> El(m, (i - 1) + (i - 1) * DimOf(m))])
TransposeBody(m) == Grid(DimOf(m), LAMBDA i, j : El(m, j * DimOf(m) + i))

-----------------------------------------------------------------------------
(* What a call returns, or what it writes to its first argument.           *)

BodyIR(name, e, a) ==
  CASE name = "abs" -> AbsIR(e, a[1])
    [] name = "clamp" -> ClampIR(a[1], a[2], a[3])
    [] name = "fit" -> FitIR(e, a)
    [] name = "lerp" -> LerpIR(e, a[1], a[2], a[3])
    [] name = "sign" -> SignIR(a[1])
    [] name = "truncatemod" -> TruncateModIR(e, a[1], a[2])
    [] name = "floormod" -> FloorModIR(e, a[1], a[2])
    [] name = "euclideanmod" -> EuclideanModIR(e, a[1], a[2])
    [] name = "identity3" -> IdentityIR(3)
    [] name = "identity4" -> IdentityIR(4)
    [] name = "mmmult" -> MMMultIR(e, a[1], a[2])

BodyC(name, e, a) ==
  CASE name = "abs" -> AbsC(e, a[1])
    [] name = "clamp" -> ClampC(a[1], a[2], a[3])
    [] name = "lerp" -> LerpC(e, a[1], a[2], a[3])
    [] name = "signbit" -> SignBitC(a[1])
    [] name = "floormod" -> FloorModC(e, a[1], a[2])
    [] name = "euclideanmod" -> EuclideanModC(e, a[1], a[2])
    [] name = "mmmult" -> MMMultC(e, a[1], a[2])

\* Those whose two implementations do the same operations.
BodyOfBoth(name, e, a) ==
  CASE name = "min" -> MinBody(a[1], a[2])
    [] name = "max" -> MaxBody(a[1], a[2])
    [] name = "dot" -> DotBody(e, a[1], a[2])
    [] name = "cross" -> CrossBody(e, a[1], a[2])
    [] name = "lengthsq" -> LengthSqBody(e, a[1])
    [] name = "determinant" -> DeterminantBody(e, a[1])
    [] name = "diag" -> DiagBody(a[1])
    [] name = "postscale" -> PostScaleBody(e, a[1], a[2])
    [] name = "prescale" -> PreScaleBody(e, a[1], a[2])
    [] name = "pretransform" -> PreTransformBody(e, a[1], a[2])
    [] name = "trace" -> TraceBody(e, a[1])
    [] name = "transform" -> TransformBody(e, a[1], a[2])
    [] name = "transpose" -> TransposeBody(a[1])

Both ==
  {"min", "max", "dot", "cross", "lengthsq", "determinant", "diag", "postscale", "prescale",
   "pretransform", "trace", "transform", "transpose"}

CallBody(name, impl, e, a) ==
  IF name \in Both THEN BodyOfBoth(name, e, a)
  ELSE IF impl = "IR" THEN BodyIR(name, e, a) ELSE BodyC(name, e, a)
=============================================================================
