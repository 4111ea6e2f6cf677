------------------------------ MODULE MCAxRun -------------------------------
(***************************************************************************)
(* Programs for AxRun, as the lexemes of their code, on one voxel whose    *)
(* attributes have the values of one of two inputs.  The widths of the     *)
(* integers are small; FLOAT counts halves and DOUBLE quarters.            *)
(***************************************************************************)
EXTENDS AxRun

CONSTANTS t1, t2

MCBits == "INT16" :> 3 @@ "INT32" :> 6 @@ "INT64" :> 9

MCLiterals ==
  "\"x\"" :> [token |-> "L_STRING", val |-> <<"x">>, range |-> FALSE, short |-> FALSE] @@
  "0" :> [token |-> "L_INT32", val |-> 0, range |-> FALSE, short |-> FALSE] @@
  "0.5f" :> [token |-> "L_FLOAT", val |-> 1, range |-> FALSE, short |-> FALSE] @@
  "1" :> [token |-> "L_INT32", val |-> 1, range |-> FALSE, short |-> FALSE] @@
  "1.5f" :> [token |-> "L_FLOAT", val |-> 3, range |-> FALSE, short |-> FALSE] @@
  "1s" :> [token |-> "L_INT32", val |-> 1, range |-> FALSE, short |-> TRUE] @@
  "2" :> [token |-> "L_INT32", val |-> 2, range |-> FALSE, short |-> FALSE] @@
  "2.5f" :> [token |-> "L_FLOAT", val |-> 5, range |-> FALSE, short |-> FALSE] @@
  "3" :> [token |-> "L_INT32", val |-> 3, range |-> FALSE, short |-> FALSE] @@
  "3l" :> [token |-> "L_INT64", val |-> 3, range |-> FALSE, short |-> FALSE] @@
  "4" :> [token |-> "L_INT32", val |-> 4, range |-> FALSE, short |-> FALSE] @@
  "9" :> [token |-> "L_INT32", val |-> 9, range |-> FALSE, short |-> FALSE] @@
  "99l" :> [token |-> "L_INT64", val |-> 99, range |-> TRUE, short |-> FALSE]

-----------------------------------------------------------------------------
(* Programs that compile.                                                  *)

Sums ==
  <<"i@", "a", "+=", "i@", "b", "+", "(", "i@", "a", "%", "3", ")", ";", "i@", "c", "=",
    "-", "i@", "a", "%", "4", ";", "i@", "b", "++", ";", "--", "i@", "c", ";">>
BitTricks ==
  <<"i@", "a", "<<=", "1", ";", "i@", "b", "=", "i@", "a", ">>", "1", "&", "3", "|", "4",
    "^", "1", ";", "i@", "c", "=", "!", "i@", "a", "+", "~", "i@", "b", ";">>
EarlyReturn ==
  <<"if", "(", "i@", "a", ">", "0", ")", "{", "i@", "b", "=", "1", ";", "return", ";", "}",
    "else", "i@", "b", "=", "2", ";", "i@", "c", "=", "i@", "a", "*", "3", ";">>
ForLoop ==
  <<"for", "(", "int", "i", "=", "0", ",", "j", "=", "3", ";", "i", "<", "j", ";", "++",
    "i", ",", "--", "j", ")", "{", "if", "(", "i@", "a", "==", "i", ")", "continue", ";",
    "i@", "a", "+=", "j", ";", "}">>
DoLoop ==
  <<"do", "{", "i@", "a", "--", ";", "if", "(", "i@", "a", "==", "2", ")", "break", ";",
    "}", "while", "(", "i@", "a", ">", "0", ")", ";">>
WhileLoop ==
  <<"int", "i", "=", "0", ";", "while", "(", "i", "<", "4", "&&", "i@", "b", "<", "0", ")",
    "{", "i", "++", ";", "if", "(", "i", "==", "3", ")", "break", ";", "i@", "a", "+=", "i",
    ">", "1", "||", "i@", "b", ";", "}">>
Forever ==
  <<"int", "a", "=", "1", ";", "for", "(", ";", ";", ")", "{", "a", "++", ";", "if", "(",
    "a", ">", "3", ")", "break", ";", "}", "i@", "a", "=", "a", ";">>
Shadows ==
  <<"int", "a", "=", "i@", "a", ",", "b", "=", "i@", "b", ";", "{", "int", "a", "=", "3",
    ";", "b", "+=", "a", ";", "}", "i@", "c", "=", "a", "*", "b", ";">>
Ternaries ==
  <<"i@", "a", "=", "(", "i@", "b", "++", ",", "i@", "c", ")", "+", "1", ";", "i@", "b",
    "=", "i@", "c", "?", ":", "3", ";", "@", "f", "=", "i@", "a", "?", "@", "f", ":", "i@",
    "c", ";">>
Vectors ==
  <<"v@", "v", "=", "v@", "v", "*", "2", "+", "{", "1", ",", "2.5f", ",", "3", "}", ";",
    "v@", "w", ".x", "=", "v@", "v", ".y", ";", "v@", "w", "[", "2", "]", "+=", "1", ";">>
Comparisons ==
  <<"i@", "a", "=", "v@", "v", "==", "v@", "w", ";", "i@", "b", "=", "v@", "v", "!=", "v@",
    "w", ";", "v@", "v", "=", "-", "v@", "w", ";">>
Products ==
  <<"@", "f", "=", "dot", "(", "v@", "v", ",", "v@", "w", ")", "+", "lengthsq", "(", "v@",
    "w", ")", ";", "v@", "v", "=", "cross", "(", "v@", "v", ",", "v@", "w", ")", ";">>
Bounds ==
  <<"@", "f", "=", "lerp", "(", "@", "f", ",", "@", "g", ",", "0.5f", ")", ";", "@", "g",
    "=", "clamp", "(", "@", "f", ",", "0", ",", "1", ")", "+", "min", "(", "@", "f", ",",
    "@", "g", ")", "*", "max", "(", "i@", "a", ",", "2", ")", ";">>
Mixed ==
  <<"@", "f", "=", "max", "(", "0.5f", ",", "0", ")", ";", "i@", "a", "=", "i@", "b", ">=",
    "i@", "b", ";", "i@", "c", "=", "i@", "b", "<=", "i@", "b", ";">>
Signs ==
  <<"@", "f", "=", "fit", "(", "@", "f", ",", "0", ",", "2", ",", "-", "1", ",", "1", ")",
    ";", "i@", "a", "=", "sign", "(", "i@", "b", ")", "+", "signbit", "(", "@", "g", ")",
    ";", "i@", "b", "=", "abs", "(", "i@", "b", ")", ";">>
Moduli ==
  <<"i@", "a", "=", "truncatemod", "(", "i@", "b", ",", "2", ")", "+", "floormod", "(",
    "i@", "b", ",", "2", ")", "*", "2", "+", "euclideanmod", "(", "i@", "b", ",", "2", ")",
    "*", "4", ";">>
Matrices ==
  <<"3@", "m", "=", "3@", "m", "*", "3@", "n", ";", "v@", "v", "=", "3@", "n", "*", "v@",
    "v", ";", "v@", "w", "=", "v@", "w", "*", "3@", "m", ";">>
Determinants ==
  <<"@", "f", "=", "determinant", "(", "3@", "m", ")", ";", "@", "g", "=", "trace", "(",
    "3@", "n", ")", ";", "3@", "n", "=", "transpose", "(", "3@", "m", ")", ";">>
Homogeneous ==
  <<"@", "f", "=", "determinant", "(", "4@", "m", ")", ";", "4@", "n", "=", "identity4", "(",
    ")", "+", "4@", "m", ";">>
Diagonals ==
  <<"3@", "m", "=", "diag", "(", "v@", "v", ")", ";", "v@", "w", "=", "diag", "(", "3@",
    "n", ")", ";", "3@", "n", "=", "identity3", "(", ")", "*", "2", "+", "3@", "m", ";">>
Transforms ==
  <<"prescale", "(", "4@", "m", ",", "v@", "v", ")", ";", "postscale", "(", "4@", "m", ",",
    "v@", "w", ")", ";", "v@", "w", "=", "4@", "m", "*", "v@", "v", ";", "@", "f", "=",
    "trace", "(", "4@", "m", ")", ";">>
Strings ==
  <<"s@", "s", "=", "s@", "r", "+", "\"x\"", ";", "string", "t", ";", "t", "=", "s@", "s",
    ";", "t", "+=", "t", ";", "s@", "r", "=", "t", ";">>
Casts ==
  <<"i@", "a", "=", "int", "(", "@", "f", ")", "+", "int", "(", "1.5f", ")", ";", "@", "g",
    "=", "float", "(", "i@", "a", ")", ";", "bool", "@", "d", "=", "bool", "(", "@", "f",
    ")", ";", "int64", "@", "e", "=", "i@", "a", "*", "3l", ";">>
Custom ==
  <<"i@", "a", "=", "$", "k", "+", "i$", "j", ";", "@", "f", "=", "$", "k", "*", "2", ";">>
Promotions ==
  <<"float", "a", "=", "1.5f", ";", "i@", "a", "=", "a", "++", ">", "1", ";", "@", "g", "=",
    "a", ";", "i@", "c", "=", "-", "(", "i@", "a", "==", "1", ")", ";">>
Components ==
  <<"3@", "m", "[", "1", ",", "2", "]", "=", "@", "f", "/", "2", ";", "i@", "b", "/=", "2",
    ";", "i@", "c", "=", "3@", "m", "[", "0", ",", "1", "]", ">=", "@", "g", ";">>
Narrow ==
  <<"int16@", "h", "=", "v@", "v", ".z", "<=", "i@", "a", ";", "int16@", "h", "-=", "2", ";">>

(* Programs that mean something else on points, or only there.             *)

Defaults ==
  <<"@", "P", "+=", "v@", "v", ";", "@", "v", ".x", "=", "@", "Cd", "[", "1", "]", ";", "if",
    "(", "i@", "a", ">", "0", ")", "return", ";", "@", "Cd", "=", "@", "N", "*", "i@", "a",
    ";">>
Explicit ==
  <<"@", "P", "=", "{", "1", ",", "2", ",", "3", "}", ";", "f@", "P", "=", "1", ";">>
Iteration ==
  <<"for", "(", "int", "i", "=", "0", ";", "i", "<", "2", ";", "@", "P", ")", "i", "++",
    ";">>

(* A short one, and programs with an error or a warning each.              *)

Copy ==
  <<"i@", "a", "=", "i@", "b", ";">>
Unfinished ==
  <<"i@", "a", "=", "(", "i@", "b">>
Unclosed ==
  <<"for", "(", "int", "i", "=", "{", "1", ",", "i@", "a", ";", "i@", "b", ";">>
StrayMark ==
  <<"i@", "a", "=", "1", ";", "#", "i@", "b", "=", "2", ";">>
TwoErrors ==
  <<"i@", "a", "=", "b", ";", "i@", "b", "=", "foo", "(", "1", ")", ";">>
Ambiguous ==
  <<"@", "a", "=", "i@", "a", ";">>
OldNames ==
  <<"long", "x", "=", "1s", ";", "i@", "a", "=", "x", ";">>
TooLong ==
  <<"i@", "a", "=", "99l", ";">>
NoOperand ==
  <<"i@", "a", "=", "-", "prescale", "(", "4@", "m", ",", "v@", "v", ")", ";">>
SameAssign ==
  <<"i@", "a", "=", "int", "(", "i@", "a", ")", ";">>
SameType ==
  <<"int", "a", "=", "int", "(", "i@", "a", ")", ";">>
ReturnFirst ==
  <<"if", "(", "i@", "a", ">", "0", ")", "return", ";", "i@", "c", "=", "9", ";">>
Carried ==
  <<"for", "(", "int", "i", "=", "0", ";", "i", "<", "2", ";", "++", "i", ")", "{", "i@",
    "a", "=", "i@", "b", ";", "i@", "b", "=", "i@", "c", ";", "}">>

-----------------------------------------------------------------------------
(* Inputs.                                                                 *)

\* Two values of each type; which one a name has depends on the input.
Samples ==
  "BOOL" :> <<1, 0>> @@ "INT16" :> <<2, -1>> @@ "INT32" :> <<5, -3>> @@ "INT64" :> <<7, -2>> @@
  "FLOAT" :> <<6, -2>> @@ "VEC3F" :> <<<<2, 4, -6>>, <<4, 2, 0>>>> @@
  "MAT3F" :> <<<<2, 4, 0, 2, -2, 6, 0, 4, 2>>, <<0, 2, 4, 4, -2, 2, 0, 0, 2>>>> @@
  "MAT4F" :> <<<<2, 4, 0, 2, -2, 6, 0, 4, 2, 2, 2, 0, 0, 0, 4, 2>>,
               <<2, 0, 0, 4, 0, 2, 2, 0, 0, -2, 4, 2, 4, 0, 2, 2>>>> @@
  "STRING" :> <<<<"p">>, <<"q">>>>

MCTokens ==
  ({"a", "b", "c"} \X {"INT32"}) \cup ({"a", "f", "g"} \X {"FLOAT"}) \cup
  ({"v", "w", "P", "Cd", "N"} \X {"VEC3F"}) \cup ({"v", "P", "Cd", "N"} \X {"FLOAT"}) \cup ({"m", "n"} \X {"MAT3F", "MAT4F"}) \cup
  ({"s", "r"} \X {"STRING"}) \cup {<<"d", "BOOL">>, <<"e", "INT64">>, <<"h", "INT16">>}

FirstNames == {"a", "f", "v", "m", "s", "d", "e", "h", "P", "N"}

MCInputs ==
  "one" :> [a \in MCTokens |-> Samples[a[2]][IF a[1] \in FirstNames THEN 1 ELSE 2]] @@
  "two" :> [a \in MCTokens |-> Samples[a[2]][IF a[1] \in FirstNames THEN 2 ELSE 1]]

-----------------------------------------------------------------------------
(* Scripts.                                                                *)

MCCall(op, code, implementations, data) ==
  [op |-> op, code |-> code, valid |-> TRUE, limit |-> 0, wae |-> FALSE, inputs |-> DOMAIN MCInputs,
   implementations |-> implementations, data |-> data, grids |-> <<"volume">>]

On(grids, call) == [call EXCEPT !.grids = grids]
Invalid(call) == [call EXCEPT !.valid = FALSE]

Plain(op) == MCCall(op, <<>>, {}, <<>>)
Either == {"IR", "C"}
NoData == <<>>
Data == <<"k", "FLOAT">> :> 3
OtherData == <<"k", "INT32">> :> 3

\* t1 makes the calls, after initialize and from there alone.
Alone(calls) == t1 :> <<Plain("initialize")>> \o calls @@ t2 :> <<>>

\* Every program on both inputs, and printed again; the ones that call functions under
\* both implementations of each.  The C one of a matrix product is left to a run of its own.
Plainly ==
  {Sums, BitTricks, EarlyReturn, ForLoop, DoLoop, WhileLoop, Forever, Shadows, Ternaries,
   Vectors, Comparisons, Strings, Casts, Promotions, Components,
   Narrow}
Calling == {Products, Bounds, Mixed, Signs, Moduli, Determinants, Homogeneous,
            Diagonals, Transforms}

ProgramScripts ==
  {Alone(<<MCCall("compile", p, {"IR"}, NoData), Plain("reprint")>>) : p \in Plainly} \cup
  {Alone(<<MCCall("compile", p, Either, NoData), Plain("reprint")>>) : p \in Calling} \cup
  {Alone(<<MCCall("compile", Matrices, {"IR"}, NoData), Plain("reprint")>>),
   Alone(<<MCCall("compile", Custom, {"IR"}, NoData), MCCall("run", Custom, {"IR"}, Data),
           MCCall("compile", Custom, {"IR"}, OtherData), Plain("reprint")>>)}

\* Points: attributes of every kind, returns, and the tree printed as it was parsed.
PointScripts ==
  {Alone(<<On(<<"points">>, MCCall("compile", p, {"IR"}, NoData)), Plain("reprint")>>) :
     p \in {Defaults, EarlyReturn, ForLoop, Ternaries, Vectors, Strings, Transforms,
            Components, OldNames}} \cup
  {Alone(<<On(<<"points">>, Invalid(MCCall("compile", Explicit, {"IR"}, NoData))),
           Invalid(MCCall("compile", Defaults, {"IR"}, NoData))>>),
   Alone(<<On(<<"points">>, MCCall("run", Custom, Either, Data)),
           On(<<"points">>, MCCall("compile", Custom, {"IR"}, OtherData))>>),
   Alone(<<On(<<>>, MCCall("run", Copy, {"IR"}, NoData)),
           On(<<"points", "volume">>, MCCall("run", Copy, {"IR"}, NoData)),
           On(<<"volume", "volume">>, MCCall("run", Copy, {"IR"}, NoData)),
           On(<<"points", "points">>, MCCall("run", Copy, {"IR"}, NoData))>>),
   Alone(<<MCCall("run", Iteration, {"IR"}, NoData),
           On(<<"points">>, MCCall("run", Iteration, {"IR"}, NoData))>>)}

\* Errors of every stage, without a limit, and at a limit of one with warnings as errors.
Faulty == {Unfinished, Unclosed, StrayMark, TwoErrors, Ambiguous, TooLong, NoOperand}
Warned == {OldNames}

Strict(call) == [Invalid(call) EXCEPT !.limit = 1, !.wae = TRUE]

FaultScripts ==
  {Alone(<<Invalid(MCCall("compile", p, {"IR"}, NoData))>>) : p \in Faulty} \cup
  {Alone(<<MCCall("compile", p, {"IR"}, NoData)>>) : p \in Warned} \cup
  {Alone(<<Strict(MCCall("compile", p, {"IR"}, NoData))>>) : p \in Faulty \cup Warned}

\* Two threads: a parse that throws between parses that do not, a compilation that races
\* initialize, and a shutdown.
ThreadScripts ==
  {t1 :> <<call, MCCall("compile", Copy, {"IR"}, NoData)>> @@
   t2 :> <<Plain("initialize"), MCCall("run", Copy, {"C"}, NoData), call>> :
     call \in {Invalid(MCCall("parse", p, {}, NoData)) : p \in {Unfinished, StrayMark}} \cup
                {MCCall("parse", <<>>, {}, NoData)}} \cup
  {t1 :> <<Plain("initialize"), Plain("uninitialize"), Plain("initialize")>> @@
   t2 :> <<Plain("initialize"), Plain("uninitialize")>>}

\* ax::run, of code that compiles and of code that does not.
RunScripts ==
  {Alone(<<call>>) : call \in {MCCall("run", Copy, {"IR"}, NoData)} \cup
                            {Invalid(MCCall("run", p, {"IR"}, NoData)) : p \in {Unfinished, TwoErrors}}}

MCScripts ==
  RunScripts \cup ProgramScripts \cup PointScripts \cup FaultScripts \cup ThreadScripts

\* One call each, for the runs that look at one behaviour of the code.
CastScripts == {Alone(<<MCCall("compile", p, {"IR"}, NoData)>>) : p \in {Copy, SameType, SameAssign}}
DependencyScripts ==
  {Alone(<<MCCall("compile", p, {"IR"}, NoData)>>) : p \in {ReturnFirst, Carried}}
=============================================================================
