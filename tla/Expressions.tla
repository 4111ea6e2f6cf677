---------------------------- MODULE Expressions -----------------------------
(***************************************************************************)
(* The operators of codegen/ComputeGenerator.cc that generate expressions  *)
(* from operands: binaryExpression, assignExpression, calls and casts.     *)
(* They take and leave a builder; g.ok is the result of the C++ function.  *)
(***************************************************************************)
EXTENDS StandardFunctions

\* Logger::error and warning on the way; where warnings are errors a visit stops.
Error(g) == [g EXCEPT !.log = LogError(@), !.ok = FALSE]
Warning(g) == [g EXCEPT !.log = LogWarning(@), !.ok = WarningGoesOn(LogWarning(g.log))]
WarnIf(condition, g) == IF condition THEN Warning(g) ELSE g

\* A value that the code returns false for was reported, and may be the last.
Halted(g) == g.undefined \/ (~g.ok /\ AtErrorLimit(g.log))
Continue(g, Op(_)) == IF Halted(g) THEN g ELSE Op([g EXCEPT !.ok = TRUE])
IfOk(g, Op(_)) == IF g.ok /\ ~g.undefined THEN Op(g) ELSE g

\* Scalars are wanted by value, arrays and strings by address.
ByValue(g, v) == IF v.ptr /\ IsScalar(v.type) THEN Load(g, v) ELSE [g EXCEPT !.r = v]

AsBool(g, v) ==
  With(ByValue(g, v), LAMBDA h :
    IF IsScalar(v.type) THEN BoolComparison(h, h.r) ELSE Error(h))

\* arrayCast: a new array, or the array itself.
CastArray(g, v, elem) ==
  IF v.type[1] = elem THEN [g EXCEPT !.r = v]
  ELSE With(Load(g, v), LAMBDA h :
       With(Converted(h, h.r, elem), LAMBDA k : Spill(k, k.r)))

\* A scalar, converted, in every element of an array or on the diagonal of a matrix.
Promoted(g, v, elem, size) ==
  With(ByValue(g, v), LAMBDA h :
  With(Converted(h, h.r, elem), LAMBDA k :
  With(Emit(k, IF size >= 9 THEN "DIAGONAL" ELSE "UNIFORM", <<elem, size>>, <<k.r>>),
       LAMBDA filled : Spill(filled, filled.r))))

ToMatrix(g, v, other) ==
  IF IsMatrix(other) /\ IsScalar(v.type) THEN Promoted(g, v, other[1], other[2])
  ELSE [g EXCEPT !.r = v]

-----------------------------------------------------------------------------
(* Calls.                                                                  *)

\* Function::cast of one argument.
CastArgument(g, v, type) ==
  CASE IsScalar(v.type) /\ type[1] = "BOOL" -> BoolComparison(g, v)
    [] IsScalar(v.type) /\ type[1] # "BOOL" -> Converted(g, v, type[1])
    [] OTHER -> CastArray(g, v, type[1])

\* One operator over all the arguments, the values it leaves in their order.
Each(g, args, Op(_, _, _)) ==
  FoldLeft(LAMBDA acc, i : LET h == Op(acc.g, args[i], i)
                           IN  [g |-> h, args |-> Append(acc.args, h.r)],
           [g |-> g, args |-> <<>>], [i \in DOMAIN args |-> i])

\* Function::call: an array is returned in an alloca (SRetFunction), or written to
\* the first argument.
Call(g, name, sig, args) ==
  LET elem == IF sig.args = <<>> THEN sig.ret[1] ELSE sig.args[1][1]
      ret == IF sig.writes THEN sig.args[1] ELSE sig.ret
      how == <<name, Implementation(name, g.preferred), elem>>
  IN  With(Each(g, args, LAMBDA h, v, i : Loaded(h, v)), LAMBDA in :
      With(Instruct(in.g, "CALL", ret, FALSE, in.args, how), LAMBDA h :
        CASE sig.writes -> [Store(h, h.r, args[1]) EXCEPT !.r = Const(Void, 0)]
          [] ~sig.writes /\ IsArray(ret) -> Spill(h, h.r)
          [] OTHER -> h))

\* getFunction.
Wanted(g, name) == [g EXCEPT !.created = GetOrInsert(@, name)]

\* FunctionGroup::execute: no warning is given for a cast.
Execute(g, name, args) ==
  With(Match(name, [i \in DOMAIN args |-> args[i].type]), LAMBDA match :
  With(IF match.kind = "Implicit"
       THEN Each(g, args, LAMBDA h, v, i : CastArgument(h, v, match.sig.args[i]))
       ELSE [g |-> g, args |-> args],
       LAMBDA cast : Call(Wanted(cast.g, name), name, match.sig, cast.args)))

-----------------------------------------------------------------------------
(* binaryExpression.                                                       *)

MatrixFunction ==
  <<9, 9>> :> "mmmult" @@ <<16, 16>> :> "mmmult" @@
  <<9, 3>> :> "pretransform" @@ <<16, 3>> :> "pretransform" @@ <<16, 4>> :> "pretransform" @@
  <<3, 9>> :> "transform" @@ <<4, 16>> :> "transform"

\* What is refused of the types of the operands.
Unsupported(op, lt, rt) ==
  LET sizes == {lt[2], rt[2]}
  IN  \/ /\ IsMatrix(lt) \/ IsMatrix(rt)
         /\ op \in Ordering \cup Logical \cup BitwiseOps \cup {"DIVIDE", "MODULO"}
      \/ 1 \notin sizes /\ lt[2] # rt[2]
      \/ sizes # {1} /\ op \in Ordering \cup Logical \cup BitwiseOps
      \/ op \in BitwiseOps /\ \E t \in {lt, rt} : t[1] \in Floating /\ IsScalar(t)

\* No result of arithmetic is a bool.
Precision(op, lt, rt) ==
  LET highest == Highest({lt[1], rt[1]})
  IN  IF highest = "BOOL" /\ op \in Arithmetic \cup BitwiseOps \cup Ordering THEN "INT32"
      ELSE highest

\* Both operands loaded, and converted to an element type.
BothAs(g, lhs, rhs, elem, Op(_, _, _)) ==
  With(Loaded(g, lhs), LAMBDA l :
  With(Loaded(l, rhs), LAMBDA r :
  With(Converted(r, l.r, elem), LAMBDA cl :
  With(Converted(cl, r.r, elem), LAMBDA cr : Op(cr, cl.r, cr.r)))))

\* The result of one operator on each element, made one value: the element-wise
\* comparisons of arrays become one bool.
Gathered(g, op, size) ==
  CASE size > 1 /\ op \in {"EQUALSEQUALS", "NOTEQUALS"} ->
         Emit(g, IF op = "EQUALSEQUALS" THEN "ALL" ELSE "ANY", Scalar("BOOL"), <<g.r>>)
    [] size > 1 /\ op \notin Relational \cup {"MODULO"} -> Spill(g, g.r)
    [] OTHER -> g

FloorModulus(g, type, args) ==
  LET sig == Match("floormod", <<Scalar(type[1]), Scalar(type[1])>>).sig
  IN  Call(Wanted(g, "floormod"), "floormod", [sig EXCEPT !.ret = type], args)

Componentwise(g, lhs, rhs, op) ==
  LET elem == Precision(op, lhs.type, rhs.type)
      size == IF IsArray(lhs.type) THEN lhs.type[2] ELSE rhs.type[2]
  IN  BothAs(g, lhs, rhs, elem, LAMBDA h, l, r :
        Gathered(IF op = "MODULO" THEN FloorModulus(h, <<elem, size>>, <<l, r>>)
                 ELSE Emit(h, op, <<ResultElement(op, elem), size>>, <<l, r>>),
                 op, size))

Concatenate(g, lhs, rhs) ==
  BothAs(g, lhs, rhs, "STRING", LAMBDA h, l, r :
    With(Emit(h, "CONCAT", String, <<l, r>>), LAMBDA both : Spill(both, both.r)))

\* A scalar next to a matrix is made a matrix first.
BinaryOf(g, lhs, rhs, op) ==
  LET matrix == IsMatrix(lhs.type) \/ IsMatrix(rhs.type)
      product == matrix /\ op = "MULTIPLY"
      refused == ~product /\ Unsupported(op, lhs.type, rhs.type)
      sizes == <<lhs.type[2], rhs.type[2]>>
      zero == op \in {"DIVIDE", "MODULO"} /\ rhs.const /\ ~rhs.ptr /\ rhs.v = 0
      numeric == lhs.type[1] \in Numbers /\ rhs.type[1] \in Numbers
      strings == lhs.type = String /\ rhs.type = String
  IN  CASE product /\ sizes \in DOMAIN MatrixFunction ->
             Execute(g, MatrixFunction[sizes], <<lhs, rhs>>)
        [] ~product /\ ~refused /\ numeric ->
             IfOk(WarnIf(zero, g), LAMBDA h : Componentwise(h, lhs, rhs, op))
        [] ~refused /\ strings /\ op = "PLUS" -> Concatenate(g, lhs, rhs)
        [] OTHER -> Error(g)

BinaryExpression(g, lhs, rhs, op) ==
  With(ToMatrix(g, rhs, lhs.type), LAMBDA r :
  With(ToMatrix(r, lhs, r.r.type), LAMBDA l : BinaryOf(l, l.r, r.r, op)))

-----------------------------------------------------------------------------
(* assignExpression: rhs is loaded if it is a scalar.                      *)

AssignElements(g, lhs, rhs) ==
  LET elem == lhs.type[1]
  IN  With(IF elem = "BOOL"
           THEN BinaryExpression(g, Const(Scalar("INT32"), 0), rhs, "NOTEQUALS")
           ELSE [g EXCEPT !.r = rhs],
           LAMBDA truth :
      With(Loaded(truth, truth.r), LAMBDA loaded :
      With(Converted(loaded, loaded.r, elem), LAMBDA cast :
      With(IF IsArray(lhs.type) /\ ~IsArray(cast.r.type)
           THEN Emit(cast, "UNIFORM", lhs.type, <<cast.r>>) ELSE cast,
           LAMBDA filled : Store(filled, filled.r, lhs)))))

AssignOf(g, lhs, rhs) ==
  LET lt == lhs.type
      rt == rhs.type
      truncates == Highest({lt[1], rt[1]}) # lt[1]
      fits == lt[2] = rt[2] \/ rt[2] = 1
  IN  CASE fits /\ lt[1] \in Numbers /\ rt[1] \in Numbers ->
             IfOk(WarnIf(truncates, g), LAMBDA h : AssignElements(h, lhs, rhs))
        [] lt = String /\ rt = String ->
             With(Loaded(g, rhs), LAMBDA h : Store(h, h.r, lhs))
        [] OTHER -> Error(g)

AssignTo(g, lhs, rhs) ==
  IF ~lhs.ptr THEN Error(g)
  ELSE With(ToMatrix(g, rhs, lhs.type), LAMBDA h : AssignOf(h, lhs, h.r))
=============================================================================
