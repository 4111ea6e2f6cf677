------------------------------ MODULE Printer -------------------------------
(***************************************************************************)
(* ReprintVisitor of ast/PrintTree.cc: a tree printed as code.  The text   *)
(* is a sequence of the lexemes the lexer will cut it into; blanks and     *)
(* indents are left out, and matter only where there is none: two signs    *)
(* without a blank between them are one lexeme.                            *)
(***************************************************************************)
EXTENDS Syntax, Lexer, Values

Inverse1(table, token) == CHOOSE text \in DOMAIN table : table[text] = token

\* typeStringFromToken: the names that are not another name of a type.
TypeString(type) ==
  CASE type = "INT16" -> "int16"
    [] type = "INT32" -> "int32"
    [] type = "VEC3F" -> "vec3f"
    [] type = "MAT3F" -> "mat3f"
    [] type = "MAT4F" -> "mat4f"
    [] OTHER -> Inverse1(TypeNames, type)

OperatorName(op) == Inverse1(Operators, op)

\* The stream prints a whole floating point number without a point.
Number(token, v) ==
  CHOOSE text \in DOMAIN Literals :
    Literals[text].token = token /\ Literals[text].val = v /\ ~Literals[text].short

ReprintValue(type, v) ==
  CASE type = "BOOL" -> IF v THEN <<"true">> ELSE <<"false">>
    [] type \in Floating /\ v % Unit[type] = 0 ->
         <<Number("L_INT32", v \div Unit[type])>> \o (IF type = "FLOAT" THEN <<"f">> ELSE <<>>)
    [] OTHER -> <<Number("L_" \o type, v)>>

Separated(texts, separator) ==
  FlattenSeq([i \in DOMAIN texts |-> IF i = 1 THEN texts[i] ELSE <<separator>> \o texts[i]])

\* A sign and what is printed right after it.
Prefixed(op, text) ==
  LET next == Head(text)
      twice == op \o op
  IN  CASE op \in {"+", "-"} /\ next = op -> <<twice>> \o Tail(text)
        [] op \in {"+", "-"} /\ next = twice -> <<twice, op>> \o Tail(text)
        [] OTHER -> <<op>> \o text

Variable(n, at) ==
  IF n.data[2] = "INT16" THEN <<"int16@", n.data[1]>>
  ELSE <<TypeString(n.data[2]), at, n.data[1]>>

\* Fault: an operand is printed bare.
Bare(text) == text

Enclosed(text) == <<"(">> \o text \o <<")">>

RECURSIVE Reprint(_)

ReprintAll(ns, separator) == Separated([i \in DOMAIN ns |-> Reprint(ns[i])], separator)

\* A list of declarations has the type once; others are statements in a row.
ReprintList(n) ==
  LET Other(d) == Reprint(d.kids[1]) \o
                    (IF IsNull(d.kids[2]) THEN <<>> ELSE <<"=">> \o Reprint(d.kids[2]))
  IN  CASE Len(n.kids) = 0 -> <<>>
        [] Len(n.kids) = 1 -> Reprint(n.kids[1]) \o <<";">>
        [] Len(n.kids) > 1 /\ n.kids[1].kind = "DeclareLocal" ->
             Separated([i \in DOMAIN n.kids |->
                          IF i = 1 THEN Reprint(n.kids[1]) ELSE Other(n.kids[i])], ",")
        [] OTHER -> ReprintAll(n.kids, ";")

ReprintBlock(n) ==
  <<"{">> \o
  FlattenSeq([i \in DOMAIN n.kids |->
    Reprint(n.kids[i]) \o
    (IF n.kids[i].kind \in {"ConditionalStatement", "Loop"} THEN <<>> ELSE <<";">>)])
  \o <<"}">>

ReprintLoop(n) ==
  LET condition == Reprint(n.kids[1])
      body == Reprint(n.kids[2])
  IN  CASE n.data[1] = "FOR" ->
             <<"for", "(">> \o Reprint(n.kids[3]) \o <<";">> \o condition \o <<";">>
               \o Reprint(n.kids[4]) \o <<")">> \o body
        [] n.data[1] = "DO" -> <<"do">> \o body \o <<"while", "(">> \o condition \o <<")">>
        [] n.data[1] = "WHILE" -> <<"while", "(">> \o condition \o <<")">> \o body

ReprintConditional(n) ==
  <<"if", "(">> \o Reprint(n.kids[1]) \o <<")">> \o Reprint(n.kids[2])
    \o (IF IsNull(n.kids[3]) THEN <<>> ELSE <<"else">> \o Reprint(n.kids[3]))

\* Binary expressions are put in parentheses, no other operator is.
ReprintOperator(n) ==
  CASE n.kind = "AssignExpression" ->
         Reprint(n.kids[1])
           \o <<IF n.data[1] = "EQUALS" THEN "=" ELSE OperatorName(n.data[1]) \o "=">>
           \o Reprint(n.kids[2])
    [] n.kind = "Crement" ->
         LET op == OperatorName(n.data[1])
         IN  IF n.data[2] THEN Append(Reprint(n.kids[1]), op) ELSE <<op>> \o Reprint(n.kids[1])
    [] n.kind = "UnaryOperator" -> Prefixed(OperatorName(n.data[1]), Reprint(n.kids[1]))
    [] n.kind = "BinaryOperator" ->
         Enclosed(Reprint(n.kids[1]) \o <<OperatorName(n.data[1])>> \o Reprint(n.kids[2]))
    [] n.kind = "TernaryOperator" ->
         Reprint(n.kids[1]) \o <<"?">> \o Reprint(n.kids[2]) \o <<":">> \o Reprint(n.kids[3])

Reprint(n) ==
  CASE n.kind = "Null" -> <<>>
    [] n.kind = "Tree" -> Reprint(n.kids[1])
    [] n.kind = "Block" -> ReprintBlock(n)
    [] n.kind = "StatementList" -> ReprintList(n)
    [] n.kind = "ConditionalStatement" -> ReprintConditional(n)
    [] n.kind = "Loop" -> ReprintLoop(n)
    [] n.kind = "CommaOperator" -> Enclosed(ReprintAll(n.kids, ","))
    [] n.kind = "Cast" -> <<TypeString(n.data[1])>> \o Enclosed(Reprint(n.kids[1]))
    [] n.kind = "FunctionCall" -> <<n.data[1]>> \o Enclosed(ReprintAll(n.kids, ","))
    [] n.kind = "ArrayPack" -> <<"{">> \o ReprintAll(n.kids, ",") \o <<"}">>
    [] n.kind = "ArrayUnpack" ->
         Reprint(n.kids[3]) \o <<"[">> \o ReprintAll(NonNull(SubSeq(n.kids, 1, 2)), ",") \o <<"]">>
    [] n.kind = "DeclareLocal" ->
         <<TypeString(n.data[1])>> \o Reprint(n.kids[1])
           \o (IF IsNull(n.kids[2]) THEN <<>> ELSE <<"=">> \o Reprint(n.kids[2]))
    [] n.kind = "Attribute" -> Variable(n, "@")
    [] n.kind = "ExternalVariable" -> Variable(n, "$")
    [] n.kind = "Local" -> <<n.data[1]>>
    [] n.kind = "Keyword" -> <<Inverse1(Keywords, n.data[1])>>
    [] n.kind = "Value" -> ReprintValue(n.data[1], n.data[2])
    [] OTHER -> ReprintOperator(n)
=============================================================================
