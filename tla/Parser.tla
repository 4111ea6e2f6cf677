------------------------------- MODULE Parser -------------------------------
(***************************************************************************)
(* The generated parser, grammar/generated/axparser.cc, over the rules of  *)
(* Grammar and the lexemes of Lexer.  A parse is a record: the stack       *)
(* (yyss, yyvs and yyls together), the lookahead (yychar, yylval, yylloc), *)
(* the place of the lexer in the code, *tree, and the addresses given out  *)
(* (next) and not yet deleted (live).  A location is <<first, last>>, in   *)
(* lexemes.  Exhaustion of memory is left out.                             *)
(***************************************************************************)
EXTENDS Grammar, Lexer, Logger

NoToken == "YYEMPTY"

NewParse(code, lloc) ==
  [code |-> code, pos |-> 1, look |-> NoToken, lval |-> 0, lloc |-> lloc,
   stack |-> << [symbol |-> "", state |-> StartState, val |-> Null, loc |-> lloc] >>,
   tree |-> Null, next |-> 1, live |-> {}, twice |-> FALSE, status |-> "parsing"]

State(p) == Last(p.stack).state

-----------------------------------------------------------------------------
(* Reading: one lexeme of a call of yylex.                                 *)

Decided(p, what) == p.status = "parsing" /\ Decision(State(p), p.look) = what
NeedsToken(p) == Decided(p, "read")

ReadLexeme(p) ==
  IF p.pos > Len(p.code)
  THEN [p EXCEPT !.look = EndOfCode.token, !.lval = EndOfCode.val]
  ELSE LET read == [p EXCEPT !.pos = @ + 1, !.lloc = <<@[2], @[2] + 1>>]
           found == TokenOf(p.code[p.pos])
       IN  IF Skipped(p.code[p.pos]) THEN read
           ELSE [read EXCEPT !.look = found.token, !.lval = found.val]

\* What is said of the lexeme, before its token is returned.
LogLexeme(p, l) ==
  IF p.pos > Len(p.code) THEN l
  ELSE LET warned == IF LexWarning(p.code[p.pos]) THEN LogWarning(l) ELSE l
       IN  IF LexError(p.code[p.pos]) /\ ~warned.thrown THEN LogError(warned) ELSE warned

-----------------------------------------------------------------------------
(* Shifting.                                                               *)

Push(p, symbol, val, loc) ==
  [p EXCEPT !.stack =
     Append(@, [symbol |-> symbol, state |-> Goto(State(p), symbol), val |-> val,
                loc |-> loc])]

CanShift(p) == Decided(p, "shift")

\* The state behind $end is YYFINAL: the parse is accepted on entering it.
Shift(p) ==
  LET pushed == Push(p, p.look, p.lval, p.lloc)
  IN  [pushed EXCEPT !.look = NoToken,
                     !.status = IF p.look = "$end" THEN "accepted" ELSE @]

-----------------------------------------------------------------------------
(* Reducing: the semantic actions.  v and l are the values and locations   *)
(* of the right hand side, at is @$, n the first unused address.  A result *)
(* is $$ and the locations of the nodes made, in the order of addresses.   *)

Result(val, made) == [val |-> val, made |-> made]

LiteralType ==
  "L_INT32" :> "INT32" @@ "L_INT64" :> "INT64" @@ "L_FLOAT" :> "FLOAT" @@
  "L_DOUBLE" :> "DOUBLE" @@ "L_STRING" :> "STRING" @@ "TRUE" :> "BOOL" @@ "FALSE" :> "BOOL"

StatementAction(r, v, l, at, n) ==
  CASE r.act = "EmptyTree" -> Result(Tree(n, Block(n + 1, <<>>)), <<at>>)
    [] r.act = "Tree" -> Result(Tree(n, v[1]), <<l[1]>>)
    [] r.act = "AddStatement" -> Result(Add(v[1], v[2]), <<>>)
    [] r.act = "NewBlock" -> Result(Block(n, <<v[1]>>), <<at>>)
    [] r.act = "EmptyBlock" -> Result(Block(n, <<>>), <<at>>)
    [] r.act = "Keyword" -> Result(Keyword(n, r.rhs[1]), <<at>>)
    [] r.act = "Same" -> Result(v[1], <<>>)
    [] r.act = "Inner" -> Result(v[2], <<>>)
    [] r.act = "Nothing" -> Result(Null, <<>>)

\* The declarations after the first take its type, and its location.
DeclareAction(r, v, l, at, n) ==
  CASE r.act = "Declare" ->
         Result(DeclareLocal(n, v[1], Local(n + 1, v[2]), Null), <<l[1], l[2]>>)
    [] r.act = "DeclareInit" ->
         Result(DeclareLocal(n, v[1], Local(n + 1, v[2]), v[4]), <<l[1], l[2]>>)
    [] r.act \in {"NewDecl", "NewDeclInit"} ->
         Result(StatementList(n, << v[1], DeclareLocal(n + 1, v[1].data[1],
                  Local(n + 2, v[3]), IF Len(v) = 5 THEN v[5] ELSE Null) >>),
                <<at, l[1], l[3]>>)
    [] r.act \in {"AddDecl", "AddDeclInit"} ->
         Result(Add(v[1], DeclareLocal(n, v[1].kids[1].data[1],
                  Local(n + 1, v[3]), IF Len(v) = 5 THEN v[5] ELSE Null)),
                <<l[1], l[3]>>)

ControlAction(r, v, l, at, n) ==
  CASE r.act = "If" -> Result(ConditionalStatement(n, v[3], v[5], Null), <<at>>)
    [] r.act = "IfElse" -> Result(ConditionalStatement(n, v[3], v[5], v[7]), <<at>>)
    [] r.act = "For" /\ ~IsNull(v[5]) -> Result(Loop(n, "FOR", v[5], v[9], v[3], v[7]), <<at>>)
    [] r.act = "For" /\ IsNull(v[5]) ->
         Result(Loop(n, "FOR", Value(n + 1, "BOOL", TRUE), v[9], v[3], v[7]), <<at, at>>)
    [] r.act = "Do" -> Result(Loop(n, "DO", v[5], v[2], Null, Null), <<at>>)
    [] r.act = "While" -> Result(Loop(n, "WHILE", v[3], v[5], Null, Null), <<at>>)

\* Lists of expressions (ExpList) are sequences that do not own a node yet.
CallAction(r, v, l, at, n) ==
  CASE r.act = "NewList" -> Result(<<v[1], v[3]>>, <<>>)
    [] r.act = "AddToList" -> Result(Append(v[1], v[3]), <<>>)
    [] r.act = "Comma" -> Result(CommaOperator(n, v[1]), <<at>>)
    [] r.act = "Array" -> Result(ArrayPack(n, v[2]), <<l[1]>>)
    [] r.act = "NewCall" -> Result(FunctionCall(n, v[1], <<v[3]>>), <<l[1]>>)
    [] r.act = "EmptyCall" -> Result(FunctionCall(n, v[1], <<>>), <<l[1]>>)
    [] r.act = "AddArgument" -> Result(Add(v[1], v[3]), <<>>)
    [] r.act = "Cast" -> Result(Cast(n, v[3], v[1]), <<l[1]>>)

OperatorAction(r, v, l, at, n) ==
  CASE r.act = "Assign" ->
         Result(AssignExpression(n, v[1], v[3], CompoundOperator[r.rhs[2]]), <<l[1]>>)
    [] r.act = "Binary" -> Result(BinaryOperator(n, v[1], v[3], r.rhs[2]), <<l[1]>>)
    [] r.act = "Ternary" -> Result(TernaryOperator(n, v[1], v[3], v[5]), <<l[1]>>)
    [] r.act = "ShortTernary" -> Result(TernaryOperator(n, v[1], Null, v[4]), <<l[1]>>)
    [] r.act = "Unary" -> Result(UnaryOperator(n, v[2], r.rhs[1]), <<l[1]>>)
    [] r.act = "PreCrement" -> Result(Crement(n, v[2], r.rhs[1], FALSE), <<l[1]>>)
    [] r.act = "PostCrement" -> Result(Crement(n, v[1], r.rhs[2], TRUE), <<l[1]>>)

VariableAction(r, v, l, at, n) ==
  CASE r.act = "Component" ->
         LET index == CASE r.rhs[2] = "DOT_X" -> 0 [] r.rhs[2] = "DOT_Y" -> 1
                        [] r.rhs[2] = "DOT_Z" -> 2
         IN  Result(ArrayUnpack(n, v[1], Value(n + 1, "INT32", index), Null), <<l[1], l[2]>>)
    [] r.act = "Index" -> Result(ArrayUnpack(n, v[1], v[3], Null), <<l[1]>>)
    [] r.act = "MatrixIndex" -> Result(ArrayUnpack(n, v[1], v[3], v[5]), <<l[1]>>)
    [] r.act = "TypedAttribute" -> Result(Attribute(n, v[3], v[1], FALSE), <<at>>)
    [] r.act = "InferredAttribute" -> Result(Attribute(n, v[2], "FLOAT", TRUE), <<at>>)
    [] r.act = "SigilAttribute" ->
         Result(Attribute(n, v[2], SigilType[r.rhs[1]], FALSE), <<at>>)
    [] r.act = "TypedExternal" -> Result(ExternalVariable(n, v[3], v[1]), <<at>>)
    [] r.act = "InferredExternal" -> Result(ExternalVariable(n, v[2], "FLOAT"), <<at>>)
    [] r.act = "SigilExternal" ->
         Result(ExternalVariable(n, v[2], SigilType[r.rhs[1]]), <<at>>)
    [] r.act = "Local" -> Result(Local(n, v[1]), <<at>>)
    [] r.act = "Literal" /\ LiteralType[r.rhs[1]] = "BOOL" ->
         Result(Value(n, "BOOL", r.rhs[1] = "TRUE"), <<l[1]>>)
    [] r.act = "Literal" /\ LiteralType[r.rhs[1]] # "BOOL" ->
         Result(Value(n, LiteralType[r.rhs[1]], v[1]), <<l[1]>>)
    [] r.act = "Type" -> Result(r.rhs[1], <<>>)

Perform(r, v, l, at, n) ==
  CASE r.act \in {"EmptyTree", "Tree", "AddStatement", "NewBlock", "EmptyBlock", "Keyword",
                  "Same", "Inner", "Nothing"} -> StatementAction(r, v, l, at, n)
    [] r.act \in {"Declare", "DeclareInit", "NewDecl", "NewDeclInit", "AddDecl",
                  "AddDeclInit"} -> DeclareAction(r, v, l, at, n)
    [] r.act \in {"If", "IfElse", "For", "Do", "While"} -> ControlAction(r, v, l, at, n)
    [] r.act \in {"NewList", "AddToList", "Comma", "Array", "NewCall", "EmptyCall",
                  "AddArgument", "Cast"} -> CallAction(r, v, l, at, n)
    [] r.act \in {"Assign", "Binary", "Ternary", "ShortTernary", "Unary", "PreCrement",
                  "PostCrement"} -> OperatorAction(r, v, l, at, n)
    [] OTHER -> VariableAction(r, v, l, at, n)

CanReduce(p) == Decided(p, "reduce")

DefaultRule(p) == Rules[Row(State(p)).rule]

\* yyreduce by rule r.  The location of an empty right hand side is the end of what is
\* before it.
Reduction(p, r) ==
  LET rest == SubSeq(p.stack, 1, Len(p.stack) - Len(r.rhs))
      popped == SubSeq(p.stack, Len(rest) + 1, Len(p.stack))
      loc == IF popped = <<>> THEN <<Last(rest).loc[2], Last(rest).loc[2]>>
             ELSE <<popped[1].loc[1], Last(popped).loc[2]>>
      done == Perform(r, [i \in DOMAIN popped |-> popped[i].val],
                      [i \in DOMAIN popped |-> popped[i].loc[1]], loc[1], p.next)
  IN  [rule |-> r, rest |-> rest, loc |-> loc, done |-> done]

\* The tree of an empty program makes its own block, without a location.
NewAddresses(p, red) ==
  p.next..(p.next + Len(red.done.made) - IF red.rule.act = "EmptyTree" THEN 0 ELSE 1)

Reduce(p, red) ==
  LET new == NewAddresses(p, red)
      base == [p EXCEPT !.stack = red.rest, !.next = @ + Cardinality(new),
                        !.live = @ \cup new,
                        !.tree = IF red.rule.lhs = "tree" THEN red.done.val ELSE @]
  IN  Push(base, red.rule.lhs, red.done.val, red.loc)

\* Fault: of the nodes made by one action, only the first is told to the logger.
LogReductionFirst(p, red, l) ==
  IF red.done.made = <<>> THEN l
  ELSE [l EXCEPT !.locations = @ @@ (p.next :> red.done.made[1])]

LogReduction(p, red, l) ==
  [l EXCEPT !.locations =
     @ @@ [a \in p.next..(p.next + Len(red.done.made) - 1) |-> red.done.made[a - p.next + 1]]]

-----------------------------------------------------------------------------
(* Errors.  No rule has an error token: the whole stack is popped.         *)

IsError(p) == Decided(p, "error")

\* Fault: the tree has a destructor as well.
UnownedButTree == {"", "type", "scalar_type", "vector_type", "matrix_type"}

\* The symbols without a destructor: *tree owns what the symbol of the tree points to.
Unowned == {"", "tree", "type", "scalar_type", "vector_type", "matrix_type"}

\* Fault: there is no destructor for lists of expressions.
DestroyedButLists(entry) ==
  IF entry.symbol \in Unowned \cup {"comma_operator"} \/ entry.symbol \notin NonTerminals
  THEN {} ELSE Ids(entry.val)

\* yydestruct: the addresses the %destructor of a symbol deletes.
Destroyed(entry) ==
  IF entry.symbol \in Unowned \/ entry.symbol \notin NonTerminals THEN {}
  ELSE IF entry.symbol = "comma_operator" THEN UNION {Ids(n) : n \in ToSet(entry.val)}
  ELSE Ids(entry.val)

RECURSIVE Unwind(_)
Unwind(p) ==
  IF Len(p.stack) = 1 THEN [p EXCEPT !.status = "aborted", !.look = NoToken]
  ELSE LET gone == Destroyed(Last(p.stack))
       IN  Unwind([p EXCEPT !.stack = Front(@), !.live = @ \ gone,
                            !.twice = @ \/ ~(gone \subseteq p.live)])

\* yyerrlab: axerror is called first; if its handler throws, nothing is destroyed.
Fail(p, l) == IF LogError(l).thrown THEN [p EXCEPT !.status = "thrown"] ELSE Unwind(p)
=============================================================================
