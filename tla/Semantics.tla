----------------------------- MODULE Semantics ------------------------------
(***************************************************************************)
(* What a program means for one voxel: an evaluation of its syntax tree,   *)
(* with the operators and functions of Mathematics.  No code is generated, *)
(* and nothing is known of blocks, registers or stacks of values.          *)
(*                                                                         *)
(* A state s has the attributes by token, the externals by name and type,  *)
(* the locals by scope, the value val of what was evaluated last, and the  *)
(* flow: how the last statement was left.                                  *)
(***************************************************************************)
EXTENDS Mathematics, Syntax

Val(type, v) == [type |-> type, v |-> v]

Start(attributes, externals) ==
  [attributes |-> attributes, externals |-> externals, locals |-> << <<>> >>,
   val |-> Val(Void, 0), flow |-> "next"]

Give(s, val) == [s EXCEPT !.val = val]
Truth(s) == s.val.v # 0

-----------------------------------------------------------------------------
(* Types and conversions.                                                  *)

\* A value as one of another type, as an assignment makes it.
As(type, val) ==
  LET Element(v) == IF type[1] = "BOOL" THEN ToBool(v) ELSE ConvertIn(val.type[1], type[1], v)
      dim == Dim(type)
  IN  CASE type = String \/ val.type = Void -> val.v
        [] type # String /\ ~IsArray(type) -> Element(val.v)
        [] IsArray(type) /\ IsArray(val.type) -> [i \in 1..type[2] |-> Element(val.v[i])]
        [] IsArray(type) /\ ~IsArray(val.type) /\ ~IsMatrix(type) ->
             [i \in 1..type[2] |-> Element(val.v)]
        [] OTHER -> MatrixOf(dim, LAMBDA i, j : IF i = j THEN Element(val.v) ELSE 0)

Wider(lt, rt) == <<Highest({lt[1], rt[1]}), IF lt[2] > rt[2] THEN lt[2] ELSE rt[2]>>

\* Arithmetic is not done on bools.
Promote(type) == IF type[1] = "BOOL" THEN <<"INT32", type[2]>> ELSE type

Pairwise(size, a, b, Op(_, _)) ==
  IF size = 1 THEN Op(a, b) ELSE [i \in 1..size |-> Op(a[i], b[i])]

BinaryValue(op, l, r) ==
  LET wide == Wider(l.type, r.type)
      type == IF op \in {"EQUALSEQUALS", "NOTEQUALS"} THEN wide ELSE Promote(wide)
      a == As(type, l)
      b == As(type, r)
      each == Pairwise(type[2], a, b, LAMBDA x, y : Operate(op, type[1], x, y))
      matrix == IsArray(l.type) /\ IsArray(r.type) /\ IsMatrix(wide)
      e == type[1]
      L == [i \in 1..l.type[2] |-> ConvertIn(l.type[1], e, l.v[i])]
      R == [i \in 1..r.type[2] |-> ConvertIn(r.type[1], e, r.v[i])]
  IN  CASE l.type = String -> Val(String, l.v \o r.v)
        [] l.type # String /\ op = "EQUALSEQUALS" -> Val(Scalar("BOOL"), Bool(a = b))
        [] l.type # String /\ op = "NOTEQUALS" -> Val(Scalar("BOOL"), Bool(a # b))
        [] op = "MULTIPLY" /\ matrix /\ l.type[2] = r.type[2] ->
             Val(type, MatrixProduct(e, L, R))
        [] op = "MULTIPLY" /\ matrix /\ l.type[2] > r.type[2] ->
             Val(<<e, r.type[2]>>, TimesColumn(e, L, R))
        [] op = "MULTIPLY" /\ matrix /\ l.type[2] < r.type[2] ->
             Val(<<e, l.type[2]>>, RowTimes(e, L, R))
        [] op \in Relational \ {"EQUALSEQUALS", "NOTEQUALS"} -> Val(Scalar("BOOL"), each)
        [] OTHER -> Val(type, each)

UnaryValue(op, val) ==
  LET type == IF op = "NOT" THEN <<"BOOL", val.type[2]>> ELSE Promote(val.type)
      Element(v) == CASE op = "NOT" -> Bool(v = 0)
                      [] op = "MINUS" -> KeepIn(type[1], -v)
                      [] op = "BITNOT" -> OfBits(type[1], Places(type[1]) \ BitsOf(type[1], v))
  IN  IF op = "PLUS" THEN val
      ELSE Val(type, IF IsArray(type) THEN [i \in 1..type[2] |-> Element(val.v[i])]
                     ELSE Element(val.v))

\* The declaration a call means: the one of its types, or the first whose parameters
\* its arguments convert to; what a function writes to is not converted.
Takes(sig, types) ==
  /\ Len(sig.args) = Len(types)
  /\ \A i \in DOMAIN types :
       \/ types[i] = sig.args[i]
       \/ /\ types[i][1] \in Numbers /\ types[i][2] = sig.args[i][2]
          /\ ~(sig.writes /\ i = 1)

Overload(name, types) ==
  LET sigs == Declarations[name]
      taking == {i \in DOMAIN sigs : Takes(sigs[i], types)}
      exact == {i \in taking : sigs[i].args = types}
      meant == IF exact # {} THEN exact ELSE taking
  IN  sigs[CHOOSE i \in meant : \A j \in meant : i <= j]

CallValue(name, args) ==
  With(Overload(name, [i \in DOMAIN args |-> args[i].type]), LAMBDA sig :
    LET e == IF sig.args = <<>> THEN sig.ret[1] ELSE sig.args[1][1]
    IN  Val(IF sig.writes THEN sig.args[1] ELSE sig.ret,
            Meaning(name, e, [i \in DOMAIN args |-> As(sig.args[i], args[i])])))

-----------------------------------------------------------------------------
(* Variables: a place is a variable and an index, 0 for all of it.         *)

ScopeOf(s, name) ==
  CHOOSE k \in DOMAIN s.locals :
    name \in DOMAIN s.locals[k] /\ \A j \in (k + 1)..Len(s.locals) : name \notin DOMAIN s.locals[j]

Whole(s, n) ==
  CASE n.kind = "Attribute" -> Val(TypeOf[n.data[2]], s.attributes[TokenName(n)])
    [] n.kind = "ExternalVariable" -> Val(TypeOf[n.data[2]], s.externals[n.data])
    [] n.kind = "Local" -> s.locals[ScopeOf(s, n.data[1])][n.data[1]]

Part(whole, index) == IF index = 0 THEN whole ELSE Val(Scalar(whole.type[1]), whole.v[index])

Read(s, n, index) == Give(s, Part(Whole(s, n), index))

\* What a variable is after an assignment, which is also its value.
Assigned(s, n, index, whole) ==
  LET given == Give(s, Part(whole, index))
  IN  IF n.kind = "Attribute" THEN [given EXCEPT !.attributes[TokenName(n)] = whole.v]
      ELSE [given EXCEPT !.locals[ScopeOf(s, n.data[1])][n.data[1]] = whole]

Write(s, n, index, val) ==
  With(Whole(s, n), LAMBDA old :
  With(As(IF index = 0 THEN old.type ELSE Scalar(old.type[1]), val), LAMBDA v :
    Assigned(s, n, index, Val(old.type, IF index = 0 THEN v ELSE [old.v EXCEPT ![index] = v]))))

Declared(s, name, type, v) ==
  [s EXCEPT !.locals[Len(s.locals)] = (name :> Val(type, v)) @@ @]

-----------------------------------------------------------------------------
(* Evaluation.                                                             *)

RECURSIVE Eval(_, _)

\* The values of several expressions, in their order.
EvalAll(s, ns) ==
  FoldLeft(LAMBDA acc, n : LET t == Eval(acc.s, n)
                           IN  [s |-> t, vals |-> Append(acc.vals, t.val)],
           [s |-> s, vals |-> <<>>], ns)

\* The index of a place: row major, from 0 in the program.
Indexed(s, n) ==
  LET in == EvalAll(s, NonNull(SubSeq(n.kids, 1, 2)))
      type == Whole(s, n.kids[3]).type
      i == in.vals[1].v
  IN  [s |-> in.s, of |-> n.kids[3],
       index |-> IF Len(in.vals) = 1 THEN i + 1 ELSE i * Dim(type) + in.vals[2].v + 1]

Place(s, n) ==
  IF n.kind = "ArrayUnpack" THEN Indexed(s, n) ELSE [s |-> s, of |-> n, index |-> 0]

\* The place, then the value, then, where the assignment is compound, the old value.
EvalAssign(s, n) ==
  With(Place(s, n.kids[1]), LAMBDA place :
  With(Eval(place.s, n.kids[2]), LAMBDA t :
  With(IF n.data[1] = "EQUALS" THEN t
       ELSE With(Read(t, place.of, place.index), LAMBDA old :
              Give(old, BinaryValue(n.data[1], old.val, t.val))),
       LAMBDA new : Write(new, place.of, place.index, new.val))))

EvalCrement(s, n) ==
  LET op == IF n.data[1] = "PLUSPLUS" THEN "PLUS" ELSE "MINUS"
  IN  With(Place(s, n.kids[1]), LAMBDA place :
      With(Read(place.s, place.of, place.index), LAMBDA old :
      With(Write(old, place.of, place.index, BinaryValue(op, old.val, Val(Scalar("INT32"), 1))),
           LAMBDA new : IF n.data[2] THEN Give(new, old.val) ELSE new)))

\* Both branches have the wider type, whichever is taken.
EvalTernary(s, n) ==
  LET condition == Eval(s, n.kids[1])
      true == IF IsNull(n.kids[2]) THEN condition ELSE Eval(condition, n.kids[2])
      false == Eval(condition, n.kids[3])
      taken == IF Truth(condition) THEN true ELSE false
      types == <<true.val.type, false.val.type>>
      type == IF types[1] = types[2] THEN types[1] ELSE Wider(types[1], types[2])
  IN  Give(taken, Val(type, As(type, taken.val)))

EvalLogical(s, n) ==
  LET l == Eval(s, n.kids[1])
      r == Eval(l, n.kids[2])
      decided == Truth(l) = (n.data[1] = "OR")
  IN  IF decided THEN Give(l, Val(Scalar("BOOL"), Bool(Truth(l))))
      ELSE Give(r, Val(Scalar("BOOL"), Bool(Truth(r))))

\* Arguments are values, except for the first of a function that writes to it.
EvalCall(s, n) ==
  With(EvalAll(s, n.kids), LAMBDA in :
  With(CallValue(n.data[1], in.vals), LAMBDA val :
    IF n.data[1] \in {"prescale", "postscale"}
    THEN With(Place(in.s, n.kids[1]), LAMBDA place : Write(place.s, place.of, place.index, val))
    ELSE Give(in.s, val)))

EvalPack(s, n) ==
  LET in == EvalAll(s, n.kids)
      e == Highest({in.vals[i].type[1] : i \in DOMAIN in.vals})
  IN  IF Len(n.kids) = 1 THEN in.s
      ELSE Give(in.s, Val(<<e, Len(n.kids)>>, [i \in DOMAIN in.vals |-> As(Scalar(e), in.vals[i])]))

EvalDeclare(s, n) ==
  LET type == TypeOf[n.data[1]]
      name == n.kids[1].data[1]
      init == Eval(s, n.kids[2])
      v == As(type, init.val)
  IN  IF IsNull(n.kids[2]) THEN Declared(s, name, type, Zero(type))
      ELSE Give(Declared(init, name, type, v), Val(type, v))

\* Statements in order, until one leaves the block.
EvalBlock(s, n) ==
  LET inside == [s EXCEPT !.locals = Append(@, <<>>)]
      done == FoldLeft(LAMBDA t, child : IF t.flow = "next" THEN Eval(t, child) ELSE t,
                       inside, n.kids)
  IN  [done EXCEPT !.locals = Front(@)]

RECURSIVE Iterate(_, _)
Iterate(s, n) ==
  LET body == Eval(s, n.kids[2])
      resumed == [body EXCEPT !.flow = "next"]
      tested == Eval(Eval(resumed, n.kids[4]), n.kids[1])
  IN  CASE body.flow = "return" -> body
        [] body.flow = "break" -> resumed
        [] OTHER -> IF Truth(tested) THEN Iterate(tested, n) ELSE tested

\* A loop has a scope of its own, around its initial statement.
EvalLoop(s, n) ==
  LET initial == Eval([s EXCEPT !.locals = Append(@, <<>>)], n.kids[3])
      tested == Eval(initial, n.kids[1])
      done == IF n.data[1] = "DO" THEN Iterate(initial, n)
              ELSE IF Truth(tested) THEN Iterate(tested, n) ELSE tested
  IN  [done EXCEPT !.locals = Front(@)]

EvalConditional(s, n) ==
  LET condition == Eval(s, n.kids[1])
  IN  Eval(condition, IF Truth(condition) THEN n.kids[2] ELSE n.kids[3])

Flow == "RETURN" :> "return" @@ "BREAK" :> "break" @@ "CONTINUE" :> "continue"

EvalSimple(s, n) ==
  LET in == EvalAll(s, n.kids)
  IN  CASE n.kind = "BinaryOperator" -> Give(in.s, BinaryValue(n.data[1], in.vals[1], in.vals[2]))
        [] n.kind = "UnaryOperator" -> Give(in.s, UnaryValue(n.data[1], in.vals[1]))
        [] n.kind = "Cast" ->
             Give(in.s, Val(TypeOf[n.data[1]], As(TypeOf[n.data[1]], in.vals[1])))
        [] n.kind = "CommaOperator" -> in.s
        [] n.kind = "Value" ->
             LET type == TypeOf[n.data[1]]
             IN  Give(s, Val(type, CASE type[1] = "BOOL" -> Bool(n.data[2])
                                     [] type[1] \in Integral -> Wrap(type[1], n.data[2])
                                     [] OTHER -> n.data[2]))

Eval(s, n) ==
  CASE n.kind = "Null" -> s
    [] n.kind = "Tree" -> Eval(s, n.kids[1])
    [] n.kind = "Block" -> EvalBlock(s, n)
    [] n.kind = "StatementList" -> FoldLeft(Eval, s, n.kids)
    [] n.kind = "ConditionalStatement" -> EvalConditional(s, n)
    [] n.kind = "Loop" -> EvalLoop(s, n)
    [] n.kind = "Keyword" -> [s EXCEPT !.flow = Flow[n.data[1]]]
    [] n.kind = "DeclareLocal" -> EvalDeclare(s, n)
    [] n.kind \in Variables -> Read(s, n, 0)
    [] n.kind = "ArrayUnpack" ->
         LET place == Indexed(s, n) IN Read(place.s, place.of, place.index)
    [] n.kind = "AssignExpression" -> EvalAssign(s, n)
    [] n.kind = "Crement" -> EvalCrement(s, n)
    [] n.kind = "TernaryOperator" -> EvalTernary(s, n)
    [] n.kind = "BinaryOperator" /\ n.data[1] \in {"AND", "OR"} -> EvalLogical(s, n)
    [] n.kind = "FunctionCall" -> EvalCall(s, n)
    [] n.kind = "ArrayPack" -> EvalPack(s, n)
    [] OTHER -> EvalSimple(s, n)

\* The attributes after a run of the whole program.
Meant(root, attributes, externals) == Eval(Start(attributes, externals), root)
=============================================================================
