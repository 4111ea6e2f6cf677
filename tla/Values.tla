------------------------------- MODULE Values -------------------------------
(***************************************************************************)
(* Types, values and the arithmetic of generated code, codegen/Utils.h.    *)
(*                                                                         *)
(* A type is <<element, size>>: a scalar has size 1, a vector 2 to 4, a    *)
(* matrix 9 or 16 (row major).  A scalar value is an integer, an array is  *)
(* a tuple of them, a string is the tuple of its parts.  Integers have the *)
(* width Bits and wrap.  Floating point numbers are fixed point numbers:   *)
(* an integer counts units of 1/Unit, fewer for float than for double, and *)
(* results are rounded to the nearest, ties to even.                       *)
(***************************************************************************)
EXTENDS Integers, Sequences, SequencesExt, TLC
LOCAL INSTANCE Bitwise

CONSTANT Bits   \* element -> width, for INT16, INT32 and INT64

Integral == {"INT16", "INT32", "INT64"}
Floating == {"FLOAT", "DOUBLE"}
Numbers == {"BOOL"} \cup Integral \cup Floating

Unit == "FLOAT" :> 2 @@ "DOUBLE" :> 4

Scalar(elem) == <<elem, 1>>
String == <<"STRING", 1>>
Void == <<"VOID", 1>>

\* llvmTypeFromToken.
TypeOf ==
  [elem \in Numbers \cup {"STRING"} |-> Scalar(elem)] @@
  "VEC2I" :> <<"INT32", 2>> @@ "VEC2F" :> <<"FLOAT", 2>> @@ "VEC2D" :> <<"DOUBLE", 2>> @@
  "VEC3I" :> <<"INT32", 3>> @@ "VEC3F" :> <<"FLOAT", 3>> @@ "VEC3D" :> <<"DOUBLE", 3>> @@
  "VEC4I" :> <<"INT32", 4>> @@ "VEC4F" :> <<"FLOAT", 4>> @@ "VEC4D" :> <<"DOUBLE", 4>> @@
  "MAT3F" :> <<"FLOAT", 9>> @@ "MAT3D" :> <<"DOUBLE", 9>> @@
  "MAT4F" :> <<"FLOAT", 16>> @@ "MAT4D" :> <<"DOUBLE", 16>>

IsScalar(type) == type[1] \in Numbers /\ type[2] = 1
IsArray(type) == type[2] > 1
IsMatrix(type) == type[2] >= 9
Dim(type) == CASE type[2] = 9 -> 3 [] type[2] = 16 -> 4 [] OTHER -> type[2]

\* What a default constructed value is.
Zero(type) ==
  IF type = String THEN <<>>
  ELSE IF IsArray(type) THEN [i \in 1..type[2] |-> 0] ELSE 0

-----------------------------------------------------------------------------
(* Scalars.                                                                *)

Wrap(elem, n) ==
  LET w == 2^Bits[elem]
      m == n % w
  IN  IF m >= w \div 2 THEN m - w ELSE m

Abs(n) == IF n < 0 THEN -n ELSE n
Sign(n) == IF n < 0 THEN -1 ELSE IF n > 0 THEN 1 ELSE 0

\* Division toward zero (sdiv, fptosi) and what it leaves (srem).
TruncDiv(a, b) == Sign(a) * Sign(b) * (Abs(a) \div Abs(b))
TruncRem(a, b) == a - b * TruncDiv(a, b)

\* The nearest integer to a / b, ties to even.
Nearest(n, d) ==
  IF 2 * (n % d) > d \/ (2 * (n % d) = d /\ (n \div d) % 2 = 1)
  THEN n \div d + 1 ELSE n \div d
RoundDiv(a, b) == Sign(a) * Sign(b) * Nearest(Abs(a), Abs(b))

\* typePrecedence, the highest first.
TypePrecedence == <<"DOUBLE", "FLOAT", "INT64", "INT32", "INT16", "BOOL">>

Highest(elems) ==
  TypePrecedence[CHOOSE i \in DOMAIN TypePrecedence :
               TypePrecedence[i] \in elems /\ \A j \in 1..(i - 1) : TypePrecedence[j] \notin elems]

\* llvmArithmeticConversion; to a bool it truncates.
Truncate(to, n) == IF to = "BOOL" THEN n % 2 ELSE Wrap(to, n)
Convert(from, to, v) ==
  CASE from = to -> v
    [] from # to /\ to \in Floating ->
         IF from \in Floating THEN RoundDiv(v * Unit[to], Unit[from]) ELSE v * Unit[to]
    [] OTHER -> Truncate(to, IF from \in Floating THEN TruncDiv(v, Unit[from]) ELSE v)

Bool(condition) == IF condition THEN 1 ELSE 0

\* boolComparison.
ToBool(v) == Bool(v # 0)

Arithmetic == {"PLUS", "MINUS", "MULTIPLY", "DIVIDE", "MODULO"}
Logical == {"AND", "OR", "NOT"}
Relational ==
  {"EQUALSEQUALS", "NOTEQUALS", "MORETHAN", "LESSTHAN", "MORETHANOREQUAL", "LESSTHANOREQUAL"}
Ordering == Relational \ {"EQUALSEQUALS", "NOTEQUALS"}
BitwiseOps == {"SHIFTLEFT", "SHIFTRIGHT", "BITAND", "BITOR", "BITXOR", "BITNOT"}

Compare(op, a, b) ==
  CASE op = "EQUALSEQUALS" -> Bool(a = b)
    [] op = "NOTEQUALS" -> Bool(a # b)
    [] op = "MORETHAN" -> Bool(a > b)
    [] op = "LESSTHAN" -> Bool(a < b)
    [] op = "MORETHANOREQUAL" -> Bool(a >= b)
    [] op = "LESSTHANOREQUAL" -> Bool(a <= b)

\* Two's complement bits; or and xor from and.
FromAnd(op, a, b, and) ==
  CASE op = "BITAND" -> and
    [] op = "BITOR" -> a + b - and
    [] op = "BITXOR" -> a + b - 2 * and

BitOp(op, elem, a, b) ==
  LET w == 2^Bits[elem]
  IN  IF op = "SHIFTRIGHT" THEN a \div 2^b
      ELSE Wrap(elem, IF op = "SHIFTLEFT" THEN a * 2^b ELSE FromAnd(op, a, b, (a % w) & (b % w)))

\* Results of arithmetic in a type.
Keep(elem, n) == IF elem \in Floating THEN n ELSE Wrap(elem, n)
Times(elem, a, b) ==
  IF elem \in Floating THEN RoundDiv(a * b, Unit[elem]) ELSE Wrap(elem, a * b)
Quotient(elem, a, b) ==
  IF elem \in Floating THEN RoundDiv(a * Unit[elem], b) ELSE Wrap(elem, TruncDiv(a, b))
Plus(elem, a, b) == Keep(elem, a + b)
Minus(elem, a, b) == Keep(elem, a - b)

NumberOp(op, elem, a, b) ==
  CASE op = "PLUS" -> Plus(elem, a, b)
    [] op = "MINUS" -> Minus(elem, a, b)
    [] op = "MULTIPLY" -> Times(elem, a, b)
    [] op = "DIVIDE" -> Quotient(elem, a, b)
    [] op = "MODULO" -> TruncRem(a, b)

\* binaryOperator, on two scalars of one type: llvmBinaryConversion.
ScalarOp(op, elem, a, b) ==
  CASE op \in {"AND", "OR"} ->
         IF op = "AND" THEN Bool(a # 0 /\ b # 0) ELSE Bool(a # 0 \/ b # 0)
    [] op \in Relational -> Compare(op, a, b)
    [] op \in BitwiseOps -> BitOp(op, elem, a, b)
    [] OTHER -> NumberOp(op, elem, a, b)

ResultElement(op, elem) == IF op \in Relational \cup Logical THEN "BOOL" ELSE elem

\* Of one bit, the complement is the other and the negative the same.
NegateOf(elem, v) == IF elem = "BOOL" THEN v ELSE Keep(elem, -v)
ComplementOf(elem, v) == IF elem = "BOOL" THEN 1 - v ELSE Wrap(elem, -v - 1)

-----------------------------------------------------------------------------
(* Values of any size.                                                     *)

\* The i-th of n elements: a scalar stands for all of them.
At(v, size, i) == IF size = 1 THEN v ELSE v[i]

Elements(size, Op(_)) == IF size = 1 THEN Op(1) ELSE [i \in 1..size |-> Op(i)]

Elementwise(type, Op(_), v) == Elements(type[2], LAMBDA i : Op(At(v, type[2], i)))

ConvertTo(type, elem, v) == Elementwise(type, LAMBDA e : Convert(type[1], elem, e), v)

\* arrayPack and scalarToMatrix of a scalar.
Uniform(size, v) == [i \in 1..size |-> v]
Diagonal(dim, v) == [i \in 1..(dim * dim) |-> IF (i - 1) % (dim + 1) = 0 THEN v ELSE 0]

\* What is made in one step, given to the next.
With(made, Next(_)) == Next(made)

IsValidCast(from, to) == from[1] \in Numbers /\ to[1] \in Numbers /\ from[2] = to[2]
=============================================================================
