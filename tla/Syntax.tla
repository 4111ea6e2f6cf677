------------------------------- MODULE Syntax -------------------------------
(***************************************************************************)
(* The abstract syntax tree of ast/AST.h and the visits of ast/Visitor.h.  *)
(*                                                                         *)
(* A node is a record: its address (id), its class (kind), the members it  *)
(* does not own (data, a tuple) and the nodes it owns (kids), in the order *)
(* of the class's child(i), with Null for a child that is absent.  A node  *)
(* owns its children through unique_ptr, so a tree is a nested value; the  *)
(* parent pointer that setParent keeps is the node found one step up the   *)
(* path from the root.                                                     *)
(***************************************************************************)
EXTENDS Integers, SequencesExt

Node(id, kind, data, kids) ==
  [id |-> id, kind |-> kind, data |-> data, kids |-> kids]

Null == Node(0, "Null", <<>>, <<>>)

IsNull(n) == n.kind = "Null"

NonNull(ns) == SelectSeq(ns, LAMBDA n : ~IsNull(n))

(* The classes, one operator each: what is owned, and in which order.      *)

Tree(id, block) == Node(id, "Tree", <<>>, <<block>>)
Block(id, stmts) == Node(id, "Block", <<>>, NonNull(stmts))
StatementList(id, stmts) == Node(id, "StatementList", <<>>, NonNull(stmts))
CommaOperator(id, exprs) == Node(id, "CommaOperator", <<>>, NonNull(exprs))
Loop(id, type, condition, body, initial, iteration) ==
  Node(id, "Loop", <<type>>, <<condition, body, initial, iteration>>)
ConditionalStatement(id, condition, true, false) ==
  Node(id, "ConditionalStatement", <<>>, <<condition, true, false>>)
BinaryOperator(id, lhs, rhs, op) == Node(id, "BinaryOperator", <<op>>, <<lhs, rhs>>)
TernaryOperator(id, condition, true, false) ==
  Node(id, "TernaryOperator", <<>>, <<condition, true, false>>)
\* op is EQUALS when the assignment is not compound.
AssignExpression(id, lhs, rhs, op) ==
  Node(id, "AssignExpression", <<op>>, <<lhs, rhs>>)
Crement(id, expr, op, post) == Node(id, "Crement", <<op, post>>, <<expr>>)
UnaryOperator(id, expr, op) == Node(id, "UnaryOperator", <<op>>, <<expr>>)
Cast(id, expr, type) == Node(id, "Cast", <<type>>, <<expr>>)
FunctionCall(id, name, args) == Node(id, "FunctionCall", <<name>>, NonNull(args))
Keyword(id, keyw) == Node(id, "Keyword", <<keyw>>, <<>>)
ArrayUnpack(id, expr, component0, component1) ==
  Node(id, "ArrayUnpack", <<>>, <<component0, component1, expr>>)
ArrayPack(id, exprs) == Node(id, "ArrayPack", <<>>, NonNull(exprs))
Attribute(id, name, type, inferred) ==
  Node(id, "Attribute", <<name, type, inferred>>, <<>>)
ExternalVariable(id, name, type) == Node(id, "ExternalVariable", <<name, type>>, <<>>)
Local(id, name) == Node(id, "Local", <<name>>, <<>>)
DeclareLocal(id, type, local, init) ==
  Node(id, "DeclareLocal", <<type>>, <<local, init>>)
Value(id, type, val) == Node(id, "Value", <<type, val>>, <<>>)

\* addStatement of a block or a list and append of a call: null is ignored.
Add(n, child) == [n EXCEPT !.kids = NonNull(Append(@, child))]

Variables == {"Attribute", "ExternalVariable", "Local"}

\* Attribute::tokenname: the name with the type, the identity of an attribute.
TokenName(n) == <<n.data[1], n.data[2]>>

-----------------------------------------------------------------------------
(* Visits.  Visitor::defaultTraversal with postOrderNodes: the children in *)
(* order, then the node.                                                   *)

RECURSIVE PostOrder(_)
PostOrder(n) ==
  IF IsNull(n) THEN <<>>
  ELSE FlattenSeq([i \in DOMAIN n.kids |-> PostOrder(n.kids[i])]) \o <<n>>

\* collectNodeTypes and visitNodeType over a set of classes.
Collect(n, kinds) == SelectSeq(PostOrder(n), LAMBDA m : m.kind \in kinds)

RECURSIVE Ids(_)
Ids(n) ==
  IF IsNull(n) THEN {} ELSE {n.id} \cup UNION {Ids(n.kids[i]) : i \in DOMAIN n.kids}

\* Node::parent up to the root: the node with this address, then its parent,
\* and so on.
RECURSIVE PathTo(_, _)
PathTo(root, id) ==
  IF root.id = id THEN <<root>>
  ELSE LET holders == {i \in DOMAIN root.kids : id \in Ids(root.kids[i])}
       IN  Append(PathTo(root.kids[CHOOSE i \in holders : TRUE], id), root)

\* The tree with the node at each address replaced by Op of it: what a visitor
\* that edits through replacechild leaves.
RECURSIVE MapNodes(_, _)
MapNodes(Op(_), n) ==
  IF IsNull(n) THEN n
  ELSE Op([n EXCEPT !.kids = [i \in DOMAIN n.kids |-> MapNodes(Op, n.kids[i])]])

\* A deep copy has the shape of its original: the addresses are left out.
Shape(n) == MapNodes(LAMBDA m : [m EXCEPT !.id = 0], n)
=============================================================================
