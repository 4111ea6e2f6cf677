---------------------------- MODULE PointKernels ----------------------------
(***************************************************************************)
(* What PointExecutable::execute promises of the points of a grid: the     *)
(* kernel runs once over each point of the execution group (over every     *)
(* point if there is none), one point's run after the other within a leaf; *)
(* what a run edits is visible to that run at once and stays; nothing else *)
(* changes any point; and an execution that fails has run no kernel.       *)
(***************************************************************************)
CONSTANTS Group, Str, Coord, Point

VARIABLES groups,    \* the groups that exist
          member,    \* group -> its points
          string,    \* point -> its string attribute
          position,  \* point -> its world position
          todo,      \* the points the kernel has yet to finish
          started    \* some leaf has been opened and the execution has not ended

vars == <<groups, member, string, position, todo, started>>

Init ==
    /\ groups \subseteq Group
    /\ member \in [Group -> SUBSET Point]
    /\ string \in [Point -> Str]
    /\ position \in [Point -> Coord]
    /\ todo = {}
    /\ started = FALSE

\* The selected points are all points or the members of one group.
Begin ==
    /\ todo = {} /\ ~ started
    /\ \/ todo' = Point
       \/ \E g \in groups : todo' = member[g]
    /\ UNCHANGED <<groups, member, string, position, started>>

Open ==
    /\ started' = TRUE
    /\ UNCHANGED <<groups, member, string, position, todo>>

Add(p, g) ==
    /\ started /\ p \in todo
    /\ groups' = groups \cup {g}
    /\ member' = [member EXCEPT ![g] = @ \cup {p}]
    /\ UNCHANGED <<string, position, todo, started>>

Remove(p, g) ==
    /\ started /\ p \in todo
    /\ member' = [member EXCEPT ![g] = @ \ {p}]
    /\ UNCHANGED <<groups, string, position, todo, started>>

\* The end of the kernel of a point, which stores the attributes it assigned.
Return(p) ==
    /\ started /\ p \in todo
    /\ todo' = todo \ {p}
    /\ \E s \in Str : string' = [string EXCEPT ![p] = s]
    /\ \E x \in Coord : position' = [position EXCEPT ![p] = x]
    /\ UNCHANGED <<groups, member, started>>

Abort ==
    /\ ~ started
    /\ todo' = {}
    /\ UNCHANGED <<groups, member, string, position, started>>

Finish ==
    /\ todo = {}
    /\ started' = FALSE
    /\ UNCHANGED <<groups, member, string, position, todo>>

Next ==
    \/ Begin \/ Open \/ Abort \/ Finish
    \/ \E p \in Point : Return(p) \/ \E g \in Group : Add(p, g) \/ Remove(p, g)

Spec == Init /\ [][Next]_vars
=============================================================================
