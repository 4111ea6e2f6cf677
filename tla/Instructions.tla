---------------------------- MODULE Instructions ----------------------------
(***************************************************************************)
(* The kernel under construction: llvm's builder as codegen/ uses it, with *)
(* the symbol tables of codegen/SymbolTable.h.                             *)
(*                                                                         *)
(* A builder g has basic blocks of instructions and an insertion point.    *)
(* Every operator that makes a value leaves it in g.r.  An operand is a    *)
(* constant or the number of a register; the address of the i-th element   *)
(* of an alloca is <<alloca, i>> and of the whole of it <<alloca, 0>>.     *)
(* Arrays and strings are moved whole, where the code goes element by      *)
(* element; the characters of a string are part of its value.              *)
(***************************************************************************)
EXTENDS Values, Logger

Const(type, v) == [type |-> type, ptr |-> FALSE, const |-> TRUE, v |-> v]
Pointer(type, name) == [type |-> type, ptr |-> TRUE, const |-> TRUE, v |-> <<name, 0>>]
Register(type, ptr, n) == [type |-> type, ptr |-> ptr, const |-> FALSE, v |-> n]

NewBuilder(log, root, preferred) ==
  [blocks |-> << <<>> >>, at |-> 1, before |-> FALSE, regs |-> 0, allocas |-> 0,
   r |-> Const(Void, 0), ok |-> TRUE, values |-> <<>>, undefined |-> FALSE, scope |-> 1,
   tables |-> (0 :> <<>>), loops |-> <<>>, log |-> log, root |-> root,
   preferred |-> preferred, created |-> {}]

-----------------------------------------------------------------------------
(* Instructions.                                                           *)

Terminators == {"BR", "CONDBR", "RET"}

\* types and vals are those of the operands; type is the one of the result.
Compute(op, type, types, vals) ==
  LET from == types[1]
      a == vals[1]
  IN  CASE op = "CONVERT" -> ConvertTo(from, type[1], a)
        [] op = "BOOL" -> ToBool(a)
        [] op = "NEG" -> Elementwise(from, LAMBDA e : NegateOf(from[1], e), a)
        [] op = "NOT" -> Elementwise(from, LAMBDA e : Bool(e = 0), a)
        [] op = "BITNOT" -> Elementwise(from, LAMBDA e : ComplementOf(from[1], e), a)
        [] op = "UNIFORM" -> Uniform(type[2], a)
        [] op = "DIAGONAL" -> Diagonal(Dim(type), a)
        [] op = "PACK" -> vals
        [] op = "ALL" -> Bool(\A i \in DOMAIN a : a[i] = 1)
        [] op = "ANY" -> Bool(\E i \in DOMAIN a : a[i] = 1)
        [] op = "CONCAT" -> a \o vals[2]
        [] op = "GEP" -> <<a[1], vals[2] + 1>>
        [] OTHER ->
             Elements(type[2], LAMBDA i :
               ScalarOp(op, from[1], At(a, from[2], i), At(vals[2], types[2][2], i)))

Insert(g, instruction) ==
  [g EXCEPT !.blocks[g.at] = IF g.before THEN Append(Front(@), instruction) \o <<Last(@)>>
                             ELSE Append(@, instruction)]

Instruct(g, op, type, ptr, args, to) ==
  [Insert(g, [op |-> op, dst |-> g.regs + 1, type |-> type, args |-> args, to |-> to])
     EXCEPT !.regs = g.regs + 1, !.r = Register(type, ptr, g.regs + 1)]

\* The builder folds an operation on constants.
Emit(g, op, type, args) ==
  IF \E i \in DOMAIN args : ~args[i].const
  THEN Instruct(g, op, type, op = "GEP", args, <<>>)
  ELSE LET v == Compute(op, type, [i \in DOMAIN args |-> args[i].type],
                        [i \in DOMAIN args |-> args[i].v])
       IN  [g EXCEPT !.r = [Const(type, v) EXCEPT !.ptr = (op = "GEP")]]

Effect(g, op, args, to) ==
  Insert(g, [op |-> op, dst |-> 0, type |-> Void, args |-> args, to |-> to])

Load(g, address) == Instruct(g, "LOAD", address.type, FALSE, <<address>>, <<>>)
Store(g, v, address) == Effect(g, "STORE", <<v, address>>, <<>>)

\* What an operand is worth: a pointer is loaded.
Loaded(g, v) == IF v.ptr THEN Load(g, v) ELSE [g EXCEPT !.r = v]

\* insertStaticAlloca; of an array, and what it holds.
Alloca(g, type) ==
  LET name == <<"alloca", g.allocas + 1>>
  IN  [g EXCEPT !.allocas = @ + 1, !.r = Pointer(type, name)]

Spill(g, v) ==
  LET a == Alloca(g, v.type)
  IN  [Store(a, v, a.r) EXCEPT !.r = a.r]

\* arithmeticConversion and arrayCast to an element type, of a loaded value.
Converted(g, v, elem) ==
  IF v.type[1] = elem THEN [g EXCEPT !.r = v]
  ELSE Emit(g, "CONVERT", <<elem, v.type[2]>>, <<v>>)

BoolComparison(g, v) == Emit(g, "BOOL", Scalar("BOOL"), <<v>>)

SetInsertPoint(g, block) == [g EXCEPT !.at = block, !.before = FALSE]
SetBefore(g, block) == [g EXCEPT !.at = block, !.before = TRUE]
Br(g, to) == Effect(g, "BR", <<>>, <<to>>)
CondBr(g, condition, true, false) == Effect(g, "CONDBR", <<condition>>, <<true, false>>)
Phi(g, v1, from1, v2, from2) ==
  Instruct(g, IF v1.ptr THEN "PHIPTR" ELSE "PHI", v1.type, v1.ptr, <<v1, v2>>, <<from1, from2>>)

-----------------------------------------------------------------------------
(* The value stack, mValues.                                               *)

Push1(g) == [g EXCEPT !.values = Append(@, g.r)]

\* Popping an empty stack is undefined: what comes back is not a value of the
\* program.
Pop(g) ==
  IF g.values = <<>> THEN [g EXCEPT !.undefined = TRUE, !.r = Const(Scalar("INT32"), 0)]
  ELSE [g EXCEPT !.values = Front(@), !.r = Last(g.values)]

NoValues(g) == [g EXCEPT !.values = <<>>]

-----------------------------------------------------------------------------
(* Symbol tables: by scope, of which 0 is global.                          *)

\* find: from a scope outward; the innermost existing one where none is given.
Scopes(g, name, start) ==
  {s \in DOMAIN g.tables : s <= start /\ name \in DOMAIN g.tables[s]}

MaxScope(scopes) == CHOOSE s \in scopes : \A t \in scopes : t <= s

Exists(g, name, start) == Scopes(g, name, start) # {}
Find(g, name) ==
  LET s == MaxScope(Scopes(g, name, MaxScope(DOMAIN g.tables)))
  IN  g.tables[s][name]

TableOf(g, scope) == IF scope \in DOMAIN g.tables THEN g.tables[scope] ELSE <<>>

InsertName(g, scope, name, v) ==
  [g EXCEPT !.tables = (scope :> ((name :> v) @@ TableOf(g, scope))) @@ @]

EraseTable(g, scope) ==
  [g EXCEPT !.tables = [s \in DOMAIN @ \ {scope} |-> @[s]]]
=============================================================================
