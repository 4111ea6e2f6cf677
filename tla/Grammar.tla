------------------------------ MODULE Grammar -------------------------------
(***************************************************************************)
(* The rules of grammar/axparser.y and the tables bison makes of them.     *)
(*                                                                         *)
(* A state of the generated parser is a set of items <<rule, dot>>, and    *)
(* yytable, yycheck, yydefact, yypgoto and yydefgoto are the operators     *)
(* Decision and Goto on such sets.  Every state of the generated tables    *)
(* has at most one reduction, its default, taken on every token it cannot  *)
(* shift, and taken without a lookahead where nothing can be shifted.      *)
(***************************************************************************)
EXTENDS Integers, SequencesExt, TLC

Rule(lhs, rhs, act) == [lhs |-> lhs, rhs |-> rhs, act |-> act]

\* One rule for each of some tokens, the token put where the rule says.
Family(lhs, Rhs(_), act, tokens) ==
  [i \in DOMAIN tokens |-> Rule(lhs, Rhs(tokens[i]), act)]

Units(lhs, syms) == Family(lhs, LAMBDA s : <<s>>, "Same", syms)

StatementRules ==
  << Rule("$accept", <<"tree", "$end">>, "Accept"),
     Rule("tree", <<>>, "EmptyTree"),
     Rule("tree", <<"body">>, "Tree"),
     Rule("body", <<"body", "statement">>, "AddStatement"),
     Rule("body", <<"body", "block">>, "AddStatement"),
     Rule("body", <<"statement">>, "NewBlock"),
     Rule("body", <<"block">>, "NewBlock"),
     Rule("block", <<"LCURLY", "body", "RCURLY">>, "Inner"),
     Rule("block", <<"LCURLY", "RCURLY">>, "EmptyBlock"),
     Rule("statement", <<"expressions", "SEMICOLON">>, "Same"),
     Rule("statement", <<"declarations", "SEMICOLON">>, "Same"),
     Rule("statement", <<"conditional_statement">>, "Same"),
     Rule("statement", <<"loop">>, "Same"),
     Rule("statement", <<"RETURN", "SEMICOLON">>, "Keyword"),
     Rule("statement", <<"BREAK", "SEMICOLON">>, "Keyword"),
     Rule("statement", <<"CONTINUE", "SEMICOLON">>, "Keyword"),
     Rule("statement", <<"SEMICOLON">>, "Nothing") >>

ExpressionRules ==
  << Rule("expressions", <<"expression">>, "Same"),
     Rule("expressions", <<"comma_operator">>, "Comma"),
     Rule("comma_operator", <<"expression", "COMMA", "expression">>, "NewList"),
     Rule("comma_operator", <<"comma_operator", "COMMA", "expression">>, "AddToList") >>
  \o Units("expression",
       <<"binary_expression", "unary_expression", "ternary_expression",
         "assign_expression", "function_call_expression", "literal", "external",
         "post_crement", "array", "variable_reference">>)
  \o << Rule("expression", <<"LPARENS", "expressions", "RPARENS">>, "Inner") >>

DeclarationRules ==
  << Rule("declaration", <<"type", "IDENTIFIER">>, "Declare"),
     Rule("declaration", <<"type", "IDENTIFIER", "EQUALS", "expression">>, "DeclareInit"),
     Rule("declaration_list",
          <<"declaration", "COMMA", "IDENTIFIER", "EQUALS", "expression">>, "NewDeclInit"),
     Rule("declaration_list", <<"declaration", "COMMA", "IDENTIFIER">>, "NewDecl"),
     Rule("declaration_list",
          <<"declaration_list", "COMMA", "IDENTIFIER", "EQUALS", "expression">>, "AddDeclInit"),
     Rule("declaration_list", <<"declaration_list", "COMMA", "IDENTIFIER">>, "AddDecl") >>
  \o Units("declarations", <<"declaration", "declaration_list">>)

ControlRules ==
  << Rule("block_or_statement", <<"block">>, "Same"),
     Rule("block_or_statement", <<"statement">>, "NewBlock"),
     Rule("conditional_statement",
          <<"IF", "LPARENS", "expressions", "RPARENS", "block_or_statement">>, "If"),
     Rule("conditional_statement",
          <<"IF", "LPARENS", "expressions", "RPARENS", "block_or_statement",
            "ELSE", "block_or_statement">>, "IfElse"),
     Rule("loop_condition", <<"expressions">>, "Same"),
     Rule("loop_condition", <<"declaration">>, "Same"),
     Rule("loop_condition_optional", <<"loop_condition">>, "Same"),
     Rule("loop_condition_optional", <<>>, "Nothing"),
     Rule("loop_init", <<"expressions">>, "Same"),
     Rule("loop_init", <<"declarations">>, "Same"),
     Rule("loop_init", <<>>, "Nothing"),
     Rule("loop_iter", <<"expressions">>, "Same"),
     Rule("loop_iter", <<>>, "Nothing"),
     Rule("loop", <<"FOR", "LPARENS", "loop_init", "SEMICOLON",
                    "loop_condition_optional", "SEMICOLON", "loop_iter", "RPARENS",
                    "block_or_statement">>, "For"),
     Rule("loop", <<"DO", "block_or_statement", "WHILE", "LPARENS", "loop_condition",
                    "RPARENS">>, "Do"),
     Rule("loop", <<"WHILE", "LPARENS", "loop_condition", "RPARENS",
                    "block_or_statement">>, "While") >>

CallRules ==
  << Rule("function_start_expression", <<"IDENTIFIER", "LPARENS", "expression">>, "NewCall"),
     Rule("function_start_expression",
          <<"function_start_expression", "COMMA", "expression">>, "AddArgument"),
     Rule("function_call_expression", <<"IDENTIFIER", "LPARENS", "RPARENS">>, "EmptyCall"),
     Rule("function_call_expression", <<"function_start_expression", "RPARENS">>, "Same"),
     Rule("function_call_expression",
          <<"scalar_type", "LPARENS", "expression", "RPARENS">>, "Cast") >>

\* A compound assignment holds the operator it applies.
CompoundOperator ==
  "PLUSEQUALS" :> "PLUS" @@ "MINUSEQUALS" :> "MINUS" @@ "MULTIPLYEQUALS" :> "MULTIPLY" @@
  "DIVIDEEQUALS" :> "DIVIDE" @@ "MODULOEQUALS" :> "MODULO" @@ "BITANDEQUALS" :> "BITAND" @@
  "BITXOREQUALS" :> "BITXOR" @@ "BITOREQUALS" :> "BITOR" @@
  "SHIFTLEFTEQUALS" :> "SHIFTLEFT" @@ "SHIFTRIGHTEQUALS" :> "SHIFTRIGHT" @@
  "EQUALS" :> "EQUALS"

AssignTokens ==
  <<"EQUALS", "PLUSEQUALS", "MINUSEQUALS", "MULTIPLYEQUALS", "DIVIDEEQUALS",
    "MODULOEQUALS", "BITANDEQUALS", "BITXOREQUALS", "BITOREQUALS", "SHIFTLEFTEQUALS",
    "SHIFTRIGHTEQUALS">>

BinaryTokens ==
  <<"PLUS", "MINUS", "MULTIPLY", "DIVIDE", "MODULO", "SHIFTLEFT", "SHIFTRIGHT",
    "BITAND", "BITOR", "BITXOR", "AND", "OR", "EQUALSEQUALS", "NOTEQUALS", "MORETHAN",
    "LESSTHAN", "MORETHANOREQUAL", "LESSTHANOREQUAL">>

AssignRules ==
  Family("assign_expression", LAMBDA t : <<"variable_reference", t, "expression">>,
         "Assign", AssignTokens)

BinaryRules ==
  Family("binary_expression", LAMBDA t : <<"expression", t, "expression">>, "Binary",
         BinaryTokens)

OperatorRules ==
  << Rule("ternary_expression",
          <<"expression", "QUESTION", "expression", "COLON", "expression">>, "Ternary"),
     Rule("ternary_expression",
          <<"expression", "QUESTION", "COLON", "expression">>, "ShortTernary") >>
  \o Family("unary_expression", LAMBDA t : <<t, "expression">>, "Unary",
            <<"PLUS", "MINUS", "BITNOT", "NOT">>)
  \o Family("pre_crement", LAMBDA t : <<t, "variable_reference">>, "PreCrement",
            <<"PLUSPLUS", "MINUSMINUS">>)
  \o Family("post_crement", LAMBDA t : <<"variable_reference", t>>, "PostCrement",
            <<"PLUSPLUS", "MINUSMINUS">>)

ReferenceRules ==
  Units("variable_reference", <<"variable", "pre_crement">>)
  \o Family("variable_reference", LAMBDA t : <<"variable", t>>, "Component",
            <<"DOT_X", "DOT_Y", "DOT_Z">>)
  \o << Rule("variable_reference", <<"variable", "LSQUARE", "expression", "RSQUARE">>, "Index"),
        Rule("variable_reference",
             <<"variable", "LSQUARE", "expression", "COMMA", "expression", "RSQUARE">>,
             "MatrixIndex"),
        Rule("array", <<"LCURLY", "comma_operator", "RCURLY">>, "Array") >>
  \o Units("variable", <<"attribute", "local">>)

\* The types the one-token prefixes stand for.
SigilType ==
  "I16_AT" :> "INT16" @@ "I_AT" :> "INT32" @@ "F_AT" :> "FLOAT" @@ "V_AT" :> "VEC3F" @@
  "S_AT" :> "STRING" @@ "M3F_AT" :> "MAT3F" @@ "M4F_AT" :> "MAT4F" @@
  "I_DOLLAR" :> "INT32" @@ "F_DOLLAR" :> "FLOAT" @@ "V_DOLLAR" :> "VEC3F" @@
  "S_DOLLAR" :> "STRING"

VariableRules ==
  << Rule("attribute", <<"type", "AT", "IDENTIFIER">>, "TypedAttribute"),
     Rule("attribute", <<"AT", "IDENTIFIER">>, "InferredAttribute") >>
  \o Family("attribute", LAMBDA t : <<t, "IDENTIFIER">>, "SigilAttribute",
            <<"I16_AT", "I_AT", "F_AT", "V_AT", "S_AT", "M3F_AT", "M4F_AT">>)
  \o << Rule("external", <<"type", "DOLLAR", "IDENTIFIER">>, "TypedExternal"),
        Rule("external", <<"DOLLAR", "IDENTIFIER">>, "InferredExternal") >>
  \o Family("external", LAMBDA t : <<t, "IDENTIFIER">>, "SigilExternal",
            <<"I_DOLLAR", "F_DOLLAR", "V_DOLLAR", "S_DOLLAR">>)
  \o << Rule("local", <<"IDENTIFIER">>, "Local") >>

LiteralTokens ==
  <<"L_INT32", "L_INT64", "L_FLOAT", "L_DOUBLE", "L_STRING", "TRUE", "FALSE">>

TypeRules ==
  Units("type", <<"scalar_type", "vector_type", "matrix_type">>)
  \o << Rule("type", <<"STRING">>, "Type") >>
  \o Family("matrix_type", LAMBDA t : <<t>>, "Type", <<"MAT3F", "MAT3D", "MAT4F", "MAT4D">>)
  \o Family("scalar_type", LAMBDA t : <<t>>, "Type",
            <<"BOOL", "INT32", "INT64", "FLOAT", "DOUBLE">>)
  \o Family("vector_type", LAMBDA t : <<t>>, "Type",
            <<"VEC2I", "VEC2F", "VEC2D", "VEC3I", "VEC3F", "VEC3D", "VEC4I", "VEC4F",
              "VEC4D">>)

Rules ==
  StatementRules \o ExpressionRules \o DeclarationRules \o ControlRules \o CallRules
  \o AssignRules \o BinaryRules \o OperatorRules \o ReferenceRules \o VariableRules
  \o Family("literal", LAMBDA t : <<t>>, "Literal", LiteralTokens) \o TypeRules

-----------------------------------------------------------------------------
\* %left and %right, from the loosest level to the tightest.
Precedence ==
  LET levels ==
        << {"COMMA"}, {"QUESTION", "COLON"} \cup DOMAIN CompoundOperator, {"OR"}, {"AND"},
           {"BITOR"}, {"BITXOR"}, {"BITAND"}, {"EQUALSEQUALS", "NOTEQUALS"},
           {"MORETHAN", "LESSTHAN", "MORETHANOREQUAL", "LESSTHANOREQUAL"},
           {"SHIFTLEFT", "SHIFTRIGHT"}, {"PLUS", "MINUS"},
           {"MULTIPLY", "DIVIDE", "MODULO"}, {"UMINUS"},
           {"NOT", "BITNOT", "PLUSPLUS", "MINUSMINUS"}, {"LCURLY", "RCURLY"},
           {"LPARENS", "RPARENS"}, {"LOWER_THAN_ELSE"}, {"ELSE"} >>
  IN  [t \in UNION ToSet(levels) |-> CHOOSE n \in DOMAIN levels : t \in levels[n]]

RightAssociative == Precedence["EQUALS"]

\* A rule has the precedence of its last terminal unless %prec names another.  The
\* start of a call has none here: no token that may follow it can be shifted instead.
RulePrecedence(r) ==
  LET terminals == SelectSeq(r.rhs, LAMBDA s : s \in DOMAIN Precedence)
  IN  CASE r.rhs = <<"MINUS", "expression">> -> Precedence["UMINUS"]
        [] r.act = "If" -> Precedence["LOWER_THAN_ELSE"]
        [] r.act = "NewCall" \/ terminals = <<>> \/ Last(r.rhs) = "IDENTIFIER" -> 0
        [] OTHER -> Precedence[Last(terminals)]

NonTerminals == {r.lhs : r \in ToSet(Rules)}

\* The nonterminals with which something derived from a may begin.
Leftmost ==
  LET heads == [a \in NonTerminals |->
                  {r.rhs[1] : r \in {q \in ToSet(Rules) : q.lhs = a /\ q.rhs # <<>>}}]
      RECURSIVE Grow(_)
      Begins(s) == UNION {heads[a] : a \in s \cap DOMAIN heads}
      Grow(s) == IF Begins(s) \subseteq s THEN s ELSE Grow(s \cup Begins(s))
  IN  [a \in DOMAIN heads |-> Grow({a})]

FirstItems ==
  LET leftmost == Leftmost
  IN  [a \in NonTerminals |->
         {<<n, 0>> : n \in {m \in DOMAIN Rules : Rules[m].lhs \in leftmost[a]}}]

SymbolAt(rhs, dot) == IF dot < Len(rhs) THEN rhs[dot + 1] ELSE "none"
NextSymbol(item) == SymbolAt(Rules[item[1]].rhs, item[2])

ClosureOf(kernel, symbols) ==
  kernel \cup UNION {FirstItems[a] : a \in symbols \cap NonTerminals}
Closure(kernel) == ClosureOf(kernel, {NextSymbol(i) : i \in kernel})

Goto(kernel, symbol) ==
  {<<i[1], i[2] + 1>> : i \in {j \in Closure(kernel) : NextSymbol(j) = symbol}}

StartState == {<<1, 0>>}

-----------------------------------------------------------------------------
(* A row of the tables: the symbols a state has a transition for, and the  *)
(* rule it reduces by default, 0 where there is none (yydefact).           *)

RowOf(symbols, complete) ==
  [symbols |-> symbols \ {"none"},
   rule |-> IF complete = {} THEN 0 ELSE CHOOSE n \in complete : TRUE]

RowOfItems(items) ==
  RowOf({NextSymbol(i) : i \in items},
        {i[1] : i \in {j \in items : NextSymbol(j) = "none"}})

Row(kernel) == RowOfItems(Closure(kernel))

\* Precedence decides between a shift and the default reduction.
PrefersShift(precedence, token) ==
  IF precedence = 0 \/ token \notin DOMAIN Precedence THEN TRUE
  ELSE IF Precedence[token] # precedence THEN Precedence[token] > precedence
  ELSE precedence = RightAssociative

\* What the parser does in a state: with no token to shift it reduces, and the
\* lookahead is not read (yypact_value_is_default).
Decide(row, token) ==
  CASE row.symbols \subseteq NonTerminals -> "reduce"
    [] ~(row.symbols \subseteq NonTerminals) /\ token = "YYEMPTY" -> "read"
    [] OTHER ->
         IF token \in row.symbols
              /\ PrefersShift(IF row.rule = 0 THEN 0 ELSE RulePrecedence(Rules[row.rule]), token)
         THEN "shift" ELSE IF row.rule # 0 THEN "reduce" ELSE "error"

Decision(kernel, token) == Decide(Row(kernel), token)
=============================================================================
