------------------------------ MODULE Compiler ------------------------------
(***************************************************************************)
(* compiler/Compiler.cc: what compile does with a tree besides generating  *)
(* a kernel from it.  Points are compiled from a copy of the tree, whose   *)
(* attributes without a type are given the ones usual for points.          *)
(***************************************************************************)
EXTENDS Generator, FiniteSets

\* verifyTypedAccesses: an error for each variable that is met with another type
\* than the first of its name; attributes, then external variables.
TypeErrors(root, kind) ==
  LET nodes == Collect(root, {kind})
      First(name) == SelectSeq(nodes, LAMBDA n : n.data[1] = name)[1].data[2]
  IN  Cardinality({i \in DOMAIN nodes : nodes[i].data[2] # First(nodes[i].data[1])})

VerifyTypedAccesses(root, log) ==
  FoldLeft(LAMBDA l, i : LogError(l), log,
           [i \in 1..(TypeErrors(root, "Attribute") + TypeErrors(root, "ExternalVariable")) |-> i])

\* registerExternalGlobals: what the custom data lacks is added, as zero; a value
\* of the same name and another type is refused.
ExternalsOf(root) == {e.data : e \in ToSet(Collect(root, {"ExternalVariable"}))}

DataMismatch(root, data) ==
  \E e \in ExternalsOf(root), d \in DOMAIN data : e[1] = d[1] /\ e[2] # d[2]

Externals(root, data) ==
  [e \in ExternalsOf(root) |-> IF e \in DOMAIN data THEN data[e] ELSE Zero(TypeOf[e[2]])]

-----------------------------------------------------------------------------
(* PointDefaultModifier.                                                   *)

AutoVecAttribs == {"P", "v", "N", "Cd"}

Inferred(n) == n.kind = "Attribute" /\ n.data[3] /\ n.data[1] \in AutoVecAttribs

\* The copy and the replacements are nodes of their own: none has an address of the tree.
Copied(root) ==
  LET past == MaxScope(Ids(root))
  IN  MapNodes(LAMBDA n : [n EXCEPT !.id = @ + past], root)

PointTree(root) ==
  MapNodes(LAMBDA n : IF Inferred(n) THEN Attribute(n.id, n.data[1], "VEC3F", TRUE) ELSE n,
           Copied(root))

\* Loop::replacechild gives the iteration of a loop itself as its parent: the next
\* walk from there to the root, of the scanners or the logger, never ends.
Endless(root) == \E loop \in ToSet(Collect(root, {"Loop"})) : Inferred(loop.kids[4])
=============================================================================
