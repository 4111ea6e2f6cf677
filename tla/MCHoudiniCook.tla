--------------------------- MODULE MCHoudiniCook ----------------------------
(***************************************************************************)
(* Snippets, parameters and sessions that differ in each way the cache has *)
(* to tell apart: a snippet that reads a channel and a $ name, one that    *)
(* needs the VEX registry and deletes points, one that is no valid AX, and *)
(* one that does not parse.                                                *)
(***************************************************************************)
EXTENDS HoudiniCook, TLC

CONSTANTS path, var, one, two

MCSnippet(h, parses, valid, vex, dollars, deletes) ==
    [hash |-> h, parses |-> parses, valid |-> valid, vex |-> vex, channels |-> {path},
     dollars |-> dollars, deletes |-> deletes]

MCSnippets == {
    MCSnippet(1, TRUE, TRUE, FALSE, {var}, FALSE),
    MCSnippet(2, TRUE, TRUE, TRUE, {}, TRUE),
    MCSnippet(3, TRUE, FALSE, FALSE, {var}, TRUE),
    MCSnippet(4, FALSE, FALSE, FALSE, {}, FALSE) }

MCParams == {
    [hscript |-> TRUE, vex |-> TRUE, target |-> "POINTS"],
    [hscript |-> TRUE, vex |-> FALSE, target |-> "POINTS"],
    [hscript |-> FALSE, vex |-> TRUE, target |-> "VOLUMES"] }

\* The path is no variable; the variable is no channel, and has a value of its own.
MCSessions ==
    { [channels |-> path :> c @@ var :> NotFound, variables |-> path :> NotFound @@ var :> v] :
        c \in {NotFound, one}, v \in {NotFound, Mismatch, two} }
=============================================================================
