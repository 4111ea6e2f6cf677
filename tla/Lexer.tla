------------------------------- MODULE Lexer --------------------------------
(***************************************************************************)
(* The lexer, grammar/axlexer.l: lexemes to tokens.  Code is a sequence of *)
(* lexemes, the longest matches flex cuts it into; blanks and comments are *)
(* left out.  A lexeme of digits has the value Literals gives it: strtoull *)
(* and strtof are the C library's.                                         *)
(***************************************************************************)
EXTENDS Integers, Sequences, TLC

CONSTANT Literals   \* text -> [token, val, range, short]: range is errno = ERANGE,
                    \* short is the suffix s

Punctuation ==
  ";" :> "SEMICOLON" @@ "@" :> "AT" @@ "$" :> "DOLLAR" @@ "," :> "COMMA" @@
  "?" :> "QUESTION" @@ ":" :> "COLON" @@ "(" :> "LPARENS" @@ ")" :> "RPARENS" @@
  "{" :> "LCURLY" @@ "}" :> "RCURLY" @@ "[" :> "LSQUARE" @@ "]" :> "RSQUARE" @@
  ".x" :> "DOT_X" @@ ".y" :> "DOT_Y" @@ ".z" :> "DOT_Z" @@
  ".r" :> "DOT_X" @@ ".g" :> "DOT_Y" @@ ".b" :> "DOT_Z"

Operators ==
  "+" :> "PLUS" @@ "-" :> "MINUS" @@ "*" :> "MULTIPLY" @@ "/" :> "DIVIDE" @@
  "%" :> "MODULO" @@ "<<" :> "SHIFTLEFT" @@ ">>" :> "SHIFTRIGHT" @@
  "&" :> "BITAND" @@ "|" :> "BITOR" @@ "^" :> "BITXOR" @@ "~" :> "BITNOT" @@
  "==" :> "EQUALSEQUALS" @@ "!=" :> "NOTEQUALS" @@ ">" :> "MORETHAN" @@
  "<" :> "LESSTHAN" @@ ">=" :> "MORETHANOREQUAL" @@ "<=" :> "LESSTHANOREQUAL" @@
  "++" :> "PLUSPLUS" @@ "--" :> "MINUSMINUS" @@
  "&&" :> "AND" @@ "||" :> "OR" @@ "!" :> "NOT"

Assignments ==
  "=" :> "EQUALS" @@ "+=" :> "PLUSEQUALS" @@ "-=" :> "MINUSEQUALS" @@
  "*=" :> "MULTIPLYEQUALS" @@ "/=" :> "DIVIDEEQUALS" @@ "%=" :> "MODULOEQUALS" @@
  "&=" :> "BITANDEQUALS" @@ "^=" :> "BITXOREQUALS" @@ "|=" :> "BITOREQUALS" @@
  "<<=" :> "SHIFTLEFTEQUALS" @@ ">>=" :> "SHIFTRIGHTEQUALS"

\* The prefixes of attributes and external variables.
Sigils ==
  "v@" :> "V_AT" @@ "f@" :> "F_AT" @@ "i@" :> "I_AT" @@ "s@" :> "S_AT" @@
  "int16@" :> "I16_AT" @@ "3@" :> "M3F_AT" @@ "4@" :> "M4F_AT" @@
  "v$" :> "V_DOLLAR" @@ "f$" :> "F_DOLLAR" @@ "i$" :> "I_DOLLAR" @@ "s$" :> "S_DOLLAR"

Keywords ==
  "if" :> "IF" @@ "else" :> "ELSE" @@ "true" :> "TRUE" @@ "false" :> "FALSE" @@
  "return" :> "RETURN" @@ "for" :> "FOR" @@ "do" :> "DO" @@ "while" :> "WHILE" @@
  "break" :> "BREAK" @@ "continue" :> "CONTINUE"

TypeNames ==
  "bool" :> "BOOL" @@ "int" :> "INT32" @@ "int32" :> "INT32" @@ "int64" :> "INT64" @@
  "float" :> "FLOAT" @@ "double" :> "DOUBLE" @@ "string" :> "STRING" @@
  "vec2i" :> "VEC2I" @@ "vec2f" :> "VEC2F" @@ "vec2d" :> "VEC2D" @@
  "vec3i" :> "VEC3I" @@ "vec3f" :> "VEC3F" @@ "vec3d" :> "VEC3D" @@
  "vec4i" :> "VEC4I" @@ "vec4f" :> "VEC4F" @@ "vec4d" :> "VEC4D" @@
  "mat3f" :> "MAT3F" @@ "mat3d" :> "MAT3D" @@ "mat4f" :> "MAT4F" @@ "mat4d" :> "MAT4D" @@
  "vector" :> "VEC3F" @@ "matrix" :> "MAT4F" @@ "matrix3" :> "MAT3F"

\* Still accepted, with a warning.
Deprecated ==
  "vectorint" :> "VEC3I" @@ "vectorfloat" :> "VEC3F" @@ "vectordouble" :> "VEC3D" @@
  "short" :> "INT32" @@ "long" :> "INT64"

Reserved ==
  {"case", "char", "class", "const", "def", "default", "enum", "extern", "friend",
   "function", "inline", "int16", "private", "protected", "signed", "sizeof",
   "static", "struct", "switch", "template", "this", "typedef", "uniform", "union",
   "unsigned", "until", "virtual", "void", "byte", "flt", "flt16", "flt32", "flt64",
   "int8", "half"}

\* Characters no rule accepts.
Stray == {"#", "\\", "`", "'", "."}

Fixed ==
  Punctuation @@ Operators @@ Assignments @@ Sigils @@ Keywords @@ TypeNames @@ Deprecated

\* The rules that only log an error and scan on: no token is returned.
Skipped(text) == text \in Reserved \cup Stray

\* What yylex returns for a lexeme: the token and yylval.
TokenOf(text) ==
  IF text \in DOMAIN Fixed THEN [token |-> Fixed[text], val |-> 0]
  ELSE IF text \in DOMAIN Literals
  THEN [token |-> Literals[text].token, val |-> Literals[text].val]
  ELSE [token |-> "IDENTIFIER", val |-> text]

\* What yylex logs on the way to a token: an integer out of range is an error and
\* keeps its value, a floating point number out of range only a warning.
OutOfRange(text) == text \in DOMAIN Literals /\ Literals[text].range

LexError(text) ==
  \/ Skipped(text)
  \/ OutOfRange(text) /\ Literals[text].token \in {"L_INT32", "L_INT64"}

LexWarning(text) ==
  \/ text \in DOMAIN Deprecated
  \/ text \in DOMAIN Literals /\ Literals[text].short
  \/ OutOfRange(text) /\ Literals[text].token \in {"L_FLOAT", "L_DOUBLE"}

EndOfCode == [token |-> "$end", val |-> 0]
=============================================================================
