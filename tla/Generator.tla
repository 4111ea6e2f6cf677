----------------------------- MODULE Generator ------------------------------
(***************************************************************************)
(* codegen/ComputeGenerator.cc: the visits that generate a kernel from a   *)
(* tree; codegen/VolumeComputeGenerator.cc and PointComputeGenerator.cc:   *)
(* the kernels of a volume and of a point.                                 *)
(* A traversal takes and leaves a builder whose g.ok is what the C++       *)
(* method returns.                                                         *)
(***************************************************************************)
EXTENDS Expressions, Scanners

LocalName(name) == <<"local", name>>
AttributeName(token) == <<"attribute", token[1], token[2]>>
ExternalName(name, type) == <<"external", name, type>>

PushResult(g, v) == Push1([g EXCEPT !.r = v])
Refuse(g) == [g EXCEPT !.ok = FALSE]
Accept(g) == [g EXCEPT !.ok = TRUE]

RECURSIVE Traverse(_, _)

\* Traverse, and pop the value it has left.
ValueOf(g, n) == IfOk(Traverse(g, n), LAMBDA h : Pop(h))

\* A condition is generated and made a bool.
Condition(g, n) == IfOk(ValueOf(g, n), LAMBDA h : AsBool(h, h.r))

Blocks(g, n) ==
  [g EXCEPT !.blocks = @ \o [i \in 1..n |-> <<>>]]

-----------------------------------------------------------------------------
(* Statements.                                                             *)

\* A statement that fails does not stop the ones after it, except at the limit.
VisitBlock(g, n) ==
  LET inside == [g EXCEPT !.scope = @ + 1]
      done == FoldLeft(LAMBDA h, child :
                         Continue(h, LAMBDA k : LET t == Traverse(k, child)
                                                IN  IF Halted(t) THEN t ELSE NoValues(t)),
                       inside, n.kids)
  IN  Continue(done, LAMBDA h : [EraseTable(h, h.scope) EXCEPT !.scope = g.scope])

VisitConditional(g, n) ==
  LET post == Len(g.blocks) + 1
      then == post + 1
      hasElse == ~IsNull(n.kids[3])
      else == IF hasElse THEN post + 2 ELSE post
      condition == Condition(Blocks(g, IF hasElse THEN 3 ELSE 2), n.kids[1])
      branched == IfOk(condition, LAMBDA h : CondBr(h, h.r, then, else))
      true == Continue(branched, LAMBDA h : Traverse(SetInsertPoint(h, then), n.kids[2]))
      false == Continue(true, LAMBDA h :
                 LET closed == Br(h, post)
                 IN  IF hasElse THEN Traverse(SetInsertPoint(closed, else), n.kids[3])
                     ELSE closed)
  IN  Continue(false, LAMBDA h :
        NoValues(SetInsertPoint(IF hasElse THEN Br(h, post) ELSE h, post)))

\* The iteration is generated before the body, and the condition last.
LoopEntry(g, n, condition, body) ==
  LET initial == Traverse(g, n.kids[3])
      entered == Continue(initial, LAMBDA h : Br(NoValues(h), condition))
      iteration == Continue(entered, LAMBDA h :
        LET there == Blocks(h, 1)
        IN  Traverse(SetInsertPoint(there, Len(there.blocks)), n.kids[4]))
  IN  CASE n.data[1] = "FOR" /\ ~IsNull(n.kids[4]) ->
             Continue(iteration, LAMBDA h : Br(h, condition))
        [] n.data[1] = "FOR" /\ IsNull(n.kids[4]) -> entered
        [] n.data[1] = "DO" -> Br(g, body)
        [] n.data[1] = "WHILE" -> Br(g, condition)

\* The block of the iteration is the first made after the initial statement.
IterationBlock(g, n) ==
  Len(IF IsNull(n.kids[3]) THEN g.blocks ELSE Traverse(g, n.kids[3]).blocks) + 1

VisitLoop(g0, n) ==
  LET g == Blocks([g0 EXCEPT !.scope = @ + 1], 3)
      post == Len(g0.blocks) + 1
      condition == post + 1
      body == post + 2
      next == IF n.data[1] = "FOR" /\ ~IsNull(n.kids[4]) THEN IterationBlock(g, n)
              ELSE condition
      inside == Continue(LoopEntry(g, n, condition, body), LAMBDA h :
        Traverse(SetInsertPoint([h EXCEPT !.loops = Append(@, <<post, next>>)], body), n.kids[2]))
      decided == Continue(inside, LAMBDA h :
        Condition(SetInsertPoint(Br(h, next), condition), n.kids[1]))
      closed == IfOk(decided, LAMBDA h : CondBr(h, h.r, body, post))
  IN  Continue(closed, LAMBDA h :
        [NoValues(EraseTable(SetInsertPoint(h, post), h.scope))
           EXCEPT !.loops = Front(@), !.scope = g0.scope])

InLoop(g, n) == \E m \in ToSet(PathTo(g.root, n.id)) : m.kind = "Loop"

\* Fault: what follows a keyword goes after it in its block.
VisitKeywordInline(g, n) ==
  CASE n.data[1] = "RETURN" -> Effect(g, "RET", <<>>, <<>>)
    [] n.data[1] # "RETURN" /\ ~InLoop(g, n) -> Error(g)
    [] n.data[1] = "BREAK" /\ InLoop(g, n) -> Br(g, Last(g.loops)[1])
    [] n.data[1] = "CONTINUE" /\ InLoop(g, n) -> Br(g, Last(g.loops)[2])

\* What follows a keyword goes to a block nothing branches to.
VisitKeyword(g, n) ==
  LET left == CASE n.data[1] = "RETURN" -> Effect(g, "RET", <<>>, <<>>)
                [] n.data[1] # "RETURN" /\ ~InLoop(g, n) -> Error(g)
                [] n.data[1] = "BREAK" /\ InLoop(g, n) -> Br(g, Last(g.loops)[1])
                [] n.data[1] = "CONTINUE" /\ InLoop(g, n) -> Br(g, Last(g.loops)[2])
  IN  Continue(left, LAMBDA h : LET new == Blocks(h, 1)
                                IN  SetInsertPoint(new, Len(new.blocks)))

\* A local is allocated at the entry.  An initialised declaration leaves its value,
\* for the conditions of loops.
Named(g, n, name, pointer) ==
  LET shadows == Exists(g, name, g.scope - 1)
  IN  IfOk(WarnIf(shadows, InsertName(g, g.scope, name, pointer)), LAMBDA h : ValueOf(h, n.kids[1]))

Initialised(g, n, local) ==
  With(ValueOf(g, n.kids[2]), LAMBDA value :
    IF ~value.ok THEN Continue(value, LAMBDA k : k)
    ELSE IfOk(IfOk(ByValue(value, value.r), LAMBDA k : AssignTo(k, local, k.r)),
              LAMBDA k : PushResult(k, local)))

VisitDeclareLocal(g, n) ==
  LET type == TypeOf[n.data[1]]
      name == LocalName(n.kids[1].data[1])
  IN  With(Alloca(g, type), LAMBDA h :
      With(IF type = String THEN Store(h, Const(String, <<>>), h.r) ELSE h, LAMBDA made :
        IF name \in DOMAIN TableOf(g, g.scope) THEN Error(made)
        ELSE With(Named(made, n, name, h.r), LAMBDA local :
             IF IsNull(n.kids[2]) THEN local
             ELSE IfOk(local, LAMBDA k : Initialised(k, n, k.r)))))

-----------------------------------------------------------------------------
(* Expressions with an order of their own.                                 *)

VisitComma(g, n) ==
  LET start == [g |-> g, value |-> Const(Void, 0), any |-> FALSE, failed |-> FALSE]
      Element(acc, child) ==
        IF Halted(acc.g) THEN acc
        ELSE LET h == ValueOf(acc.g, child)
             IN  IF h.ok THEN [acc EXCEPT !.g = h, !.value = h.r, !.any = TRUE]
                 ELSE [acc EXCEPT !.g = IF Halted(h) THEN h ELSE Accept(h), !.failed = TRUE]
      done == FoldLeft(Element, start, n.kids)
  IN  IF done.failed \/ ~done.any THEN Refuse(done.g) ELSE PushResult(done.g, done.value)

\* One branch of a ternary made of the type of both, before its terminator.
Adapt(g, block, v, elem, size) ==
  LET h == SetBefore(g, block)
      loaded == ByValue(h, v)
  IN  CASE IsScalar(v.type) /\ size = 1 -> Converted(loaded, loaded.r, elem)
        [] IsScalar(v.type) /\ size > 1 -> Promoted(h, v, elem, size)
        [] OTHER -> CastArray(h, v, elem)

Join(g, t, tb, f, fb, block) ==
  LET same == t.type = f.type /\ t.ptr = f.ptr
      numeric == t.type[1] \in Numbers /\ f.type[1] \in Numbers
      fit == 1 \in {t.type[2], f.type[2]} \/ t.type[2] = f.type[2]
      elem == Highest({t.type[1], f.type[1]})
      size == IF IsArray(t.type) THEN t.type[2] ELSE f.type[2]
      Merge(h, a, b) == Push1(Phi(SetInsertPoint(h, block), a, tb, b, fb))
  IN  CASE same /\ t.type = Void -> PushResult(SetInsertPoint(g, block), f)
        [] same /\ t.type # Void -> Merge(g, t, f)
        [] ~same /\ numeric /\ fit ->
             With(Adapt(g, tb, t, elem, size), LAMBDA ta :
             With(Adapt(ta, fb, f, elem, size), LAMBDA fa : Merge(fa, ta.r, fa.r)))
        [] OTHER -> Error(g)

\* A failed condition does not keep the branches from being generated.
VisitTernary(g, n) ==
  LET tb == Len(g.blocks) + 1
      fb == tb + 1
      rb == tb + 2
      True(h, condition) ==
        IF IsNull(n.kids[2]) THEN [SetInsertPoint(h, tb) EXCEPT !.r = condition]
        ELSE ValueOf(SetInsertPoint(h, tb), n.kids[2])
      False(h) ==
        IfOk(Traverse(SetInsertPoint(Br(h, rb), fb), n.kids[3]), LAMBDA k : Pop(Br(k, rb)))
  IN  With(ValueOf(Blocks(g, 3), n.kids[1]), LAMBDA value :
      With(IfOk(IfOk(value, LAMBDA h : AsBool(h, h.r)), LAMBDA h : CondBr(h, h.r, tb, fb)),
           LAMBDA condition :
      IF Halted(condition) THEN Refuse(condition)
      ELSE With(True(condition, value.r), LAMBDA true :
      IF Halted(true) THEN Refuse(true)
      ELSE With(False(true), LAMBDA false :
      IF ~true.ok \/ ~false.ok \/ false.undefined THEN Refuse(false)
      ELSE With(Join(false, true.r, true.at, false.r, false.at, rb), LAMBDA h :
             IF condition.ok THEN h ELSE Refuse(h))))))

\* AND and OR evaluate their right operand in a block of its own.
VisitShortCircuit(g, n) ==
  LET right == Len(g.blocks) + 1
      back == right + 1
      Branch(h) == IF n.data[1] = "AND" THEN CondBr(h, h.r, right, back)
                   ELSE CondBr(h, h.r, back, right)
  IN  With(IfOk(Condition(Blocks(g, 2), n.kids[1]), Branch), LAMBDA lhs :
      IF lhs.undefined \/ AtErrorLimit(lhs.log) THEN Refuse(lhs)
      ELSE With(Condition(SetInsertPoint(lhs, right), n.kids[2]), LAMBDA rhs :
           IF ~lhs.ok \/ ~rhs.ok \/ rhs.undefined THEN Refuse(rhs)
           ELSE Push1(Phi(SetInsertPoint(Br(rhs, back), back), lhs.r, lhs.at, rhs.r, rhs.at))))

VisitBinary(g, n) ==
  With(ValueOf(g, n.kids[1]), LAMBDA lhs :
    IF Halted(lhs) THEN Refuse(lhs)
    ELSE With(ValueOf(lhs, n.kids[2]), LAMBDA rhs :
         IF ~lhs.ok \/ ~rhs.ok THEN Refuse(rhs)
         ELSE IfOk(BinaryExpression(rhs, lhs.r, rhs.r, n.data[1]), Push1)))

-----------------------------------------------------------------------------
(* Visits after the children: their values are on the stack.               *)

\* The value on top stays there; there has to be one as well.
Top(g) == [Pop(g) EXCEPT !.values = g.values]

\* A scalar bool is made an int first, a result is not a pointer to an operand.  What
\* is refused stays on the stack, and the result takes the place of its operand.
UnaryOf(g, v, op) ==
  LET elem == v.type[1]
      refused == \/ elem \notin Numbers
                 \/ elem \in Floating /\ op = "BITNOT"
                 \/ elem \in Floating /\ op = "NOT" /\ IsArray(v.type)
      widened == v.type = Scalar("BOOL") /\ op # "NOT"
      Applied(h) == Emit(h, IF op = "MINUS" THEN "NEG" ELSE op,
                         IF op = "NOT" THEN <<"BOOL", v.type[2]>> ELSE h.r.type, <<h.r>>)
  IN  IF refused THEN Error(g)
      ELSE With(Loaded(g, v), LAMBDA h :
           With(IF widened THEN Converted(h, h.r, "INT32") ELSE h, LAMBDA k :
           With(Applied(k), LAMBDA done :
           With(IF IsArray(v.type) THEN Spill(done, done.r) ELSE done, LAMBDA made :
             PushResult(Pop(made), made.r)))))

\* + leaves what is there.
VisitUnary(g, n) ==
  IF n.data[1] = "PLUS" THEN g
  ELSE IfOk(Top(g), LAMBDA h : UnaryOf(h, h.r, n.data[1]))

\* The left side stays on the stack.
VisitAssign(g, n) ==
  With(Pop(g), LAMBDA right :
  IfOk(Top(right), LAMBDA left :
  With(IF n.data[1] = "EQUALS" THEN [left EXCEPT !.r = right.r]
       ELSE BinaryExpression(left, left.r, right.r, n.data[1]), LAMBDA v :
    IfOk(IfOk(v, LAMBDA k : ByValue(k, k.r)), LAMBDA k : AssignTo(k, left.r, k.r)))))

\* Fault: nothing is left for the enclosing expression.
VisitCrementOnly(g, n) ==
  LET variable == Pop(g)
      pointer == variable.r
      type == pointer.type
      old == Loaded(variable, pointer)
      step == Convert("INT32", type[1], IF n.data[1] = "PLUSPLUS" THEN 1 ELSE -1)
      sum == Emit(old, "PLUS", type, <<old.r, Const(type, step)>>)
  IN  IF ~pointer.ptr \/ ~IsScalar(type) \/ type[1] = "BOOL" THEN Error(g)
      ELSE Store(sum, sum.r, pointer)

VisitCrement(g, n) ==
  LET variable == Pop(g)
      pointer == variable.r
      type == pointer.type
      old == Loaded(variable, pointer)
      step == Convert("INT32", type[1], IF n.data[1] = "PLUSPLUS" THEN 1 ELSE -1)
      sum == Emit(old, "PLUS", type, <<old.r, Const(type, step)>>)
      stored == Store(sum, sum.r, pointer)
  IN  IF ~pointer.ptr \/ ~IsScalar(type) \/ type[1] = "BOOL" THEN Error(g)
      ELSE PushResult(stored, IF n.data[2] THEN old.r ELSE pointer)

\* The values of n children, in their order, each by Op.
PopAll(g, n, Op(_, _)) ==
  FoldLeft(LAMBDA acc, i : LET popped == Pop(acc.g)
                               h == Op(popped, popped.r)
                           IN  [g |-> h, args |-> <<h.r>> \o acc.args],
           [g |-> g, args |-> <<>>], [i \in 1..n |-> i])

Called(g, name, match, args) ==
  CASE match.kind \in {"None", "Size"} -> Error(g)
    [] match.kind = "Explicit" -> Push1(Call(g, name, match.sig, args))
    [] match.kind = "Implicit" ->
         IfOk(Warning(g), LAMBDA h :
           With(Each(h, args, LAMBDA k, v, i : CastArgument(k, v, match.sig.args[i])),
                LAMBDA cast : Push1(Call(cast.g, name, match.sig, cast.args))))

VisitCall(g, n) ==
  LET name == n.data[1]
  IN  IF ~Known(name, FALSE) THEN Error(g)
      ELSE With(PopAll(Wanted(g, name), Len(n.kids), ByValue), LAMBDA in :
             Called(in.g, name, Match(name, [i \in DOMAIN in.args |-> in.args[i].type]), in.args))

\* A value that has the type already is popped all the same.
VisitCast(g, n) ==
  LET popped == Pop(g)
      target == TypeOf[n.data[1]]
      loaded == ByValue(popped, popped.r)
  IN  CASE ~IsScalar(popped.r.type) -> Error(popped)
        [] popped.r.type = target -> popped
        [] OTHER -> Push1(IF target[1] = "BOOL" THEN BoolComparison(loaded, loaded.r)
                          ELSE Converted(loaded, loaded.r, target[1]))

VisitLocal(g, n) ==
  LET name == LocalName(n.data[1])
  IN  IF Exists(g, name, MaxScope(DOMAIN g.tables)) THEN PushResult(g, Find(g, name))
      ELSE Error(g)

\* The indices are below the array; the second of a matrix is the upper one.  The two
\* are combined as they are: binaryOperator takes operands of one type, here int32.
Offset(g, type, indices) ==
  LET int32 == Scalar("INT32")
  IN  CASE Len(indices) = 1 -> [g EXCEPT !.r = indices[1]]
        [] Len(indices) = 2 /\ (\E i \in 1..2 : indices[i].type # int32) ->
             [g EXCEPT !.undefined = TRUE]
        [] OTHER ->
             With(Emit(g, "MULTIPLY", int32, <<indices[1], Const(int32, Dim(type))>>),
                  LAMBDA row : Emit(row, "PLUS", int32, <<row.r, indices[2]>>))

ElementOf(g, pointer, indices) ==
  LET type == pointer.type
      integer == \A i \in DOMAIN indices : indices[i].type[1] \in Integral \cup {"BOOL"}
  IN  IF ~pointer.ptr \/ ~IsArray(type) \/ (Len(indices) = 2 /\ ~IsMatrix(type)) \/ ~integer
      THEN Error(g)
      ELSE IfOk(Offset(g, type, indices), LAMBDA h :
             Push1(Emit(h, "GEP", Scalar(type[1]), <<pointer, h.r>>)))

VisitArrayUnpack(g, n) ==
  With(Pop(g), LAMBDA array :
  With(PopAll(array, IF IsNull(n.kids[2]) THEN 1 ELSE 2, Loaded), LAMBDA in :
    ElementOf(in.g, array.r, in.args)))

\* One element is left as it is; of more, each becomes the highest type.
Packed(g, args) ==
  LET elem == Highest({args[i].type[1] : i \in DOMAIN args})
  IN  With(Each(g, args, LAMBDA h, v, i : Converted(h, v, elem)), LAMBDA cast :
      With(Emit(cast.g, "PACK", <<elem, Len(args)>>, cast.args), LAMBDA h :
        Push1(Spill(h, h.r))))

VisitArrayPack(g, n) ==
  IF Len(n.kids) = 1 THEN g
  ELSE With(PopAll(g, Len(n.kids), Loaded), LAMBDA in :
         IF \A i \in DOMAIN in.args : IsScalar(in.args[i].type) THEN Packed(in.g, in.args)
         ELSE [in.g EXCEPT !.undefined = TRUE])

\* Literals.  One too large for its type warns and wraps; a string is allocated.
VisitValue(g, n) ==
  LET type == TypeOf[n.data[1]]
      v == n.data[2]
  IN  CASE type[1] = "BOOL" -> PushResult(g, Const(type, Bool(v)))
        [] type[1] \in Integral ->
             IfOk(WarnIf(v # Wrap(type[1], v), g),
                  LAMBDA h : PushResult(h, Const(type, Wrap(type[1], v))))
        [] type[1] \in Floating -> PushResult(g, Const(type, v))
        [] type = String -> Push1(Spill(g, Const(type, v)))

VisitExternal(g, n) ==
  LET type == TypeOf[n.data[2]]
      name == ExternalName(n.data[1], n.data[2])
      known == IF name \in DOMAIN TableOf(g, 0) THEN g
               ELSE InsertName(g, 0, name, Pointer(type, name))
  IN  Push1(ByValue(known, Pointer(type, name)))

VisitAttribute(g, n) == PushResult(g, g.tables[1][AttributeName(TokenName(n))])

\* What follows an earlier return goes to a block of its own, the last one.
VisitTree(g) ==
  LET closed == Effect(g, "RET", <<>>, <<>>)
  IN  SetInsertPoint(closed, Len(closed.blocks))

VisitNode(g, n) ==
  CASE n.kind = "Tree" -> VisitTree(g)
    [] n.kind = "StatementList" -> g
    [] n.kind = "Keyword" -> VisitKeyword(g, n)
    [] n.kind = "UnaryOperator" -> VisitUnary(g, n)
    [] n.kind = "AssignExpression" -> VisitAssign(g, n)
    [] n.kind = "Crement" -> VisitCrement(g, n)
    [] n.kind = "FunctionCall" -> VisitCall(g, n)
    [] n.kind = "Cast" -> VisitCast(g, n)
    [] n.kind = "Local" -> VisitLocal(g, n)
    [] n.kind = "ArrayUnpack" -> VisitArrayUnpack(g, n)
    [] n.kind = "ArrayPack" -> VisitArrayPack(g, n)
    [] n.kind = "Value" -> VisitValue(g, n)
    [] n.kind = "ExternalVariable" -> VisitExternal(g, n)
    [] n.kind = "Attribute" -> VisitAttribute(g, n)

\* traverse: most nodes after their children, as long as those succeed.
Traverse(g, n) ==
  CASE n.kind = "Null" -> Accept(g)
    [] n.kind = "Block" -> VisitBlock(Accept(g), n)
    [] n.kind = "CommaOperator" -> VisitComma(Accept(g), n)
    [] n.kind = "ConditionalStatement" -> VisitConditional(Accept(g), n)
    [] n.kind = "TernaryOperator" -> VisitTernary(Accept(g), n)
    [] n.kind = "Loop" -> VisitLoop(Accept(g), n)
    [] n.kind = "DeclareLocal" -> VisitDeclareLocal(Accept(g), n)
    [] n.kind = "BinaryOperator" ->
         IF n.data[1] \in {"AND", "OR"} THEN VisitShortCircuit(Accept(g), n)
         ELSE VisitBinary(Accept(g), n)
    [] OTHER ->
         IfOk(FoldLeft(LAMBDA h, child : IfOk(h, LAMBDA k : Traverse(k, child)),
                       Accept(g), n.kids),
              LAMBDA h : VisitNode(h, n))

-----------------------------------------------------------------------------
(* VolumeComputeGenerator::generate.                                       *)

\* Attributes are allocated and those that are read are filled at the entry.
Prologue(g, registry, get) ==
  LET tokens == SetToSeq(DOMAIN registry)
      pointer == [t \in DOMAIN registry |-> Pointer(TypeOf[t[2]], AttributeName(t))]
      named == FoldLeft(LAMBDA h, t : InsertName(h, 1, AttributeName(t), pointer[t]), g, tokens)
  IN  FoldLeft(LAMBDA h, t : Effect(h, get, <<pointer[t]>>, <<t>>),
               named, SelectSeq(tokens, LAMBDA t : registry[t].read))

UsesOf(g, name) ==
  LET Operands(b) == {<<b, k, i>> : k \in DOMAIN g.blocks[b], i \in 1..2}
  IN  {o \in UNION {Operands(b) : b \in DOMAIN g.blocks} :
         LET args == g.blocks[o[1]][o[2]].args
         IN  /\ o[3] \in DOMAIN args /\ args[o[3]].ptr /\ args[o[3]].const
             /\ args[o[3]].v[1] = name}

\* At a return, the attribute the kernel was called for is written back; one used
\* only once is used by its get alone.
SetVoxel(g, token) ==
  LET pointer == Pointer(TypeOf[token[2]], AttributeName(token))
      then == Len(g.blocks) + 1
      index == Instruct(Blocks(g, 2), "INDEXED", Scalar("BOOL"), FALSE,
                        <<Const(String, token)>>, <<>>)
      branched == SetInsertPoint(CondBr(index, index.r, then, then + 1), then)
      value == ByValue(branched, pointer)
      set == Effect(value, "SETVOXEL", <<value.r>>, <<token>>)
  IN  IF Cardinality(UsesOf(g, pointer.v[1])) = 1 THEN g
      ELSE SetInsertPoint(Br(set, then + 1), then + 1)

Epilogue(g, registry) ==
  LET write == SetToSeq({t \in DOMAIN registry : registry[t].write})
      returns == SelectSeq([b \in DOMAIN g.blocks |-> b],
                   LAMBDA b : g.blocks[b] # <<>> /\ Last(g.blocks[b]).op = "RET")
      Leave(h, b) ==
        Effect(FoldLeft(SetVoxel, SetInsertPoint([h EXCEPT !.blocks[b] = Front(@)], b), write),
               "RET", <<>>, <<>>)
  IN  IF write = <<>> THEN g ELSE FoldLeft(Leave, g, returns)

Kernel(g, registry) ==
  [ok |-> g.ok, undefined |-> g.undefined, log |-> g.log, blocks |-> g.blocks,
   registry |-> registry]

Generated(root, log, preferred, registry, get) ==
  Traverse(Prologue(NewBuilder(log, root, preferred), registry, get), root)

\* Fault: errors of statements before the last are not looked at.
GenerateVolumeAnyway(root, log, preferred) ==
  With(Registry(root), LAMBDA registry :
  With(Generated(root, log, preferred, registry, "GETVOXEL"), LAMBDA g :
    Kernel(IF ~g.ok \/ g.undefined THEN Refuse(g) ELSE Epilogue(g, registry), registry)))

\* Errors can stop the traversal, but do not always.
Failed(g) == ~g.ok \/ g.undefined \/ g.log.errors > 0

\* The kernel and its registry, or ok FALSE in place of a null registry.
GenerateVolume(root, log, preferred) ==
  With(Registry(root), LAMBDA registry :
  With(Generated(root, log, preferred, registry, "GETVOXEL"), LAMBDA g :
    Kernel(IF Failed(g) THEN Refuse(g) ELSE Epilogue(g, registry), registry)))

-----------------------------------------------------------------------------
(* PointComputeGenerator::generate.  The get of a string uses its address  *)
(* for the characters and the size as well.                                *)

\* At a return, every attribute that is written is set at the point.
SetAttribute(g, token) ==
  LET pointer == Pointer(TypeOf[token[2]], AttributeName(token))
      once == pointer.type # String /\ Cardinality(UsesOf(g, pointer.v[1])) = 1
      value == ByValue(g, pointer)
  IN  IF once THEN g ELSE Effect(value, "SETATTRIBUTE", <<value.r>>, <<token>>)

SetAttributes(g, registry) ==
  LET write == SetToSeq({t \in DOMAIN registry : registry[t].write})
      returns == SelectSeq([b \in DOMAIN g.blocks |-> b],
                   LAMBDA b : g.blocks[b] # <<>> /\ Last(g.blocks[b]).op = "RET")
  IN  FoldLeft(LAMBDA h, b : FoldLeft(SetAttribute, SetBefore(h, b), write), g, returns)

GeneratePoint(root, log, preferred) ==
  With(Registry(root), LAMBDA registry :
  With(Generated(root, log, preferred, registry, "GETATTRIBUTE"), LAMBDA g :
    Kernel(IF Failed(g) THEN Refuse(g) ELSE SetAttributes(g, registry), registry)))
=============================================================================
