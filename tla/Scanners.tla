------------------------------ MODULE Scanners ------------------------------
(***************************************************************************)
(* The analyses of ast/Scanners.cc: which variables a tree reads and       *)
(* writes, and on which others the value of a variable depends.  The       *)
(* registry of compiler/AttributeRegistry.h is made of their results.      *)
(***************************************************************************)
EXTENDS Syntax

\* A node and its parents up to the root.
Parents(root, n) == PathTo(root, n.id)

-----------------------------------------------------------------------------
(* Accesses.                                                               *)

\* What one parent says of the variable below it.
ReadsThrough(parent, child) ==
  CASE parent.kind = "AssignExpression" ->
         parent.kids[1] # child \/ parent.data[1] # "EQUALS"
    [] parent.kind = "DeclareLocal" -> FALSE
    [] OTHER -> TRUE

\* Fault: an argument of a call is not taken to be written.
WritesThroughNoCalls(parent, child) ==
  CASE parent.kind = "Crement" -> TRUE
    [] parent.kind = "AssignExpression" -> parent.kids[1] = child
    [] parent.kind = "DeclareLocal" -> parent.kids[1] = child /\ ~IsNull(parent.kids[2])
    [] OTHER -> FALSE

WritesThrough(parent, child) ==
  CASE parent.kind = "Crement" -> TRUE
    [] parent.kind = "AssignExpression" -> parent.kids[1] = child
    [] parent.kind = "DeclareLocal" -> parent.kids[1] = child /\ ~IsNull(parent.kids[2])
    [] parent.kind = "FunctionCall" -> TRUE
    [] OTHER -> FALSE

\* catalogueVariables: how a variable is used.  A plain statement of a block is a
\* parent too, and makes every variable below it read.
AccessOf(root, var) ==
  LET path == Parents(root, var)
      steps == 1..(Len(path) - 1)
  IN  [read |-> \E i \in steps : ReadsThrough(path[i + 1], path[i]),
       write |-> \E i \in steps : WritesThrough(path[i + 1], path[i])]

\* catalogueAttributeTokens: the accesses of each attribute put together.
AttributeAccesses(root) ==
  LET attributes == ToSet(Collect(root, {"Attribute"}))
      Of(token) == {AccessOf(root, a) : a \in {b \in attributes : TokenName(b) = token}}
  IN  [token \in {TokenName(a) : a \in attributes} |->
         [read |-> \E a \in Of(token) : a.read, write |-> \E a \in Of(token) : a.write]]

-----------------------------------------------------------------------------
(* The order of uses.                                                      *)

\* VariableDependencyVisitor: as PostOrder, but a loop of any type is taken to be
\* its initial, its condition, its iteration and then its body.
LoopOrder(loop) == <<loop.kids[3], loop.kids[1], loop.kids[4], loop.kids[2]>>

RECURSIVE DependencyOrder(_)
DependencyOrder(n) ==
  IF IsNull(n) THEN <<>>
  ELSE LET kids == IF n.kind = "Loop" THEN LoopOrder(n) ELSE n.kids
       IN  FlattenSeq([i \in DOMAIN kids |-> DependencyOrder(kids[i])]) \o <<n>>

\* UseVisitor<false>: the children in reverse, and a do loop from its condition.
ReverseLoopOrder(loop) ==
  IF loop.data[1] = "DO" THEN <<loop.kids[1], loop.kids[2]>> ELSE Reverse(LoopOrder(loop))

RECURSIVE ReverseOrder(_)
ReverseOrder(n) ==
  IF IsNull(n) THEN <<>>
  ELSE LET kids == IF n.kind = "Loop" THEN ReverseLoopOrder(n) ELSE Reverse(n.kids)
       IN  FlattenSeq([i \in DOMAIN kids |-> ReverseOrder(kids[i])]) \o <<n>>

SameVariable(u, v) ==
  /\ u.kind = v.kind
  /\ IF v.kind = "Attribute" THEN TokenName(u) = TokenName(v) ELSE u.data[1] = v.data[1]

LastUse(root, token) ==
  LET uses == SelectSeq(ReverseOrder(root),
                LAMBDA n : n.kind = "Attribute" /\ TokenName(n) = token)
  IN  uses[1]

\* Fault: what a variable was given before this use is not looked at.
UsageAt(root, var) == {var}

\* The occurrences of a variable up to and including one of them.
UsageUpTo(root, var) ==
  LET uses == SelectSeq(DependencyOrder(root),
                LAMBDA n : n.kind \in Variables /\ SameVariable(n, var))
      last == CHOOSE i \in DOMAIN uses : uses[i].id = var.id
  IN  {uses[i] : i \in 1..last}

-----------------------------------------------------------------------------
(* Dependencies.                                                           *)

VariablesIn(n) == ToSet(Collect(n, Variables))

\* The part of a condition that decides: of a comma operator, its last element.
Decides(parent) ==
  LET condition == parent.kids[1]
  IN  IF parent.kind = "Loop" /\ condition.kind = "CommaOperator"
      THEN condition.kids[Len(condition.kids)] ELSE condition

\* What a use under the i-th node of its path to the root depends on.  A condition
\* counts only for a use already seen, lower on the path, to be written.
Brings(path, i) ==
  LET parent == path[i + 1]
      child == path[i]
      written == \E k \in 1..(i - 1) : WritesThrough(path[k + 1], path[k])
  IN  CASE parent.kind = "Crement" -> {path[1]}
        [] parent.kind \in {"ConditionalStatement", "TernaryOperator", "Loop"} ->
             IF child # parent.kids[1] /\ written THEN VariablesIn(Decides(parent)) ELSE {}
        [] parent.kind = "AssignExpression" /\ child = parent.kids[1] ->
             VariablesIn(parent.kids[2])
               \cup IF parent.data[1] # "EQUALS" THEN {path[1]} ELSE {}
        [] parent.kind = "DeclareLocal" /\ child = parent.kids[1] ->
             VariablesIn(parent.kids[2])
        [] parent.kind = "FunctionCall" -> UNION {VariablesIn(a) : a \in ToSet(parent.kids)}
        [] OTHER -> {}

DirectDependencies(root, var) ==
  IF var.kind = "ExternalVariable" THEN {}
  ELSE UNION {LET path == Parents(root, use)
              IN  UNION {Brings(path, i) : i \in 1..(Len(path) - 1)} :
                use \in UsageUpTo(root, var)}

\* variableDependencies: what can be reached from a use, each variable once.
VariableDependencies(root, var) ==
  LET RECURSIVE Reach(_, _)
      Reach(todo, found) ==
        IF todo = {} THEN found
        ELSE LET next == UNION {DirectDependencies(root, v) : v \in todo}
             IN  Reach(next \ found, found \cup next)
  IN  Reach({var}, {})

AttributeDependencyTokens(root, token) ==
  {TokenName(d) : d \in {e \in VariableDependencies(root, LastUse(root, token)) :
                           e.kind = "Attribute"}}

-----------------------------------------------------------------------------
\* AttributeRegistry::create: for each attribute its accesses, the attributes its
\* value depends on and those that depend on it.
Registry(root) ==
  LET accesses == AttributeAccesses(root)
      depends == [t \in DOMAIN accesses |-> AttributeDependencyTokens(root, t)]
  IN  [t \in DOMAIN accesses |->
         [read |-> accesses[t].read, write |-> accesses[t].write,
          dependencies |-> depends[t],
          uses |-> {u \in DOMAIN accesses : t \in depends[u]}]]
=============================================================================
