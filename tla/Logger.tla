------------------------------- MODULE Logger -------------------------------
(***************************************************************************)
(* compiler/Logger.cc as a value: the counts, the limit, and the source    *)
(* locations of the nodes of a tree.  The error handler is given by the    *)
(* caller and may throw, as the one of the parse without a logger does;    *)
(* then the count is not advanced.                                         *)
(***************************************************************************)
EXTENDS Syntax, TLC

NoLocation == 0

NewLogger(maxErrors, warningsAsErrors, throws) ==
  [errors |-> 0, warnings |-> 0, maxErrors |-> maxErrors, wae |-> warningsAsErrors,
   throws |-> throws, thrown |-> FALSE, tree |-> Null, locations |-> <<>>]

AtErrorLimit(l) == l.maxErrors > 0 /\ l.errors >= l.maxErrors

\* Logger::error.  Nothing is said past the limit; the handler is called first.
LogError(l) ==
  IF AtErrorLimit(l) THEN l
  ELSE IF l.throws THEN [l EXCEPT !.thrown = TRUE]
  ELSE [l EXCEPT !.errors = @ + 1]

\* What error and warning return: whether to go on.
GoOn(l) == ~l.thrown /\ ~AtErrorLimit(l)

LogWarning(l) ==
  IF l.wae THEN LogError(l) ELSE [l EXCEPT !.warnings = @ + 1]

WarningGoesOn(l) == ~l.wae \/ GoOn(l)

-----------------------------------------------------------------------------
(* Where an error is.  Locations are those of the nodes the parser made; a *)
(* node of a copy is looked up by its position in the tree of the logger.  *)

\* Fault: children that are absent are not counted.
ChildIdxPresent(parent, child) ==
  CHOOSE i \in DOMAIN NonNull(parent.kids) : NonNull(parent.kids)[i] = child

ChildIdx(parent, child) == CHOOSE i \in DOMAIN parent.kids : parent.kids[i] = child

PathStackFromNode(root, n) ==
  LET path == Reverse(PathTo(root, n.id))
  IN  [i \in 1..(Len(path) - 1) |-> ChildIdx(path[i], path[i + 1])]

\* A path that leaves the tree ends at a null pointer.
NodeFromPathStack(path, tree) ==
  FoldLeft(LAMBDA n, i : IF i \in DOMAIN n.kids THEN n.kids[i] ELSE Null, tree, path)

LocationOf(l, n) == IF n.id \in DOMAIN l.locations THEN l.locations[n.id] ELSE NoLocation

NodeToCodeLocation(l, root, n) ==
  LocationOf(l, NodeFromPathStack(PathStackFromNode(root, n), l.tree))
=============================================================================
