----------------------------- MODULE LeafEdits ------------------------------
(***************************************************************************)
(* What a kernel is promised of the edits it makes on one leaf: group      *)
(* names denote independent sets of points that come into being with their *)
(* first member, and a string attribute read returns what was last         *)
(* written to that point, whatever the leaf does to store either.          *)
(***************************************************************************)
CONSTANTS Group, StrArray, Str, Point

VARIABLES created,   \* the groups some point has been added to
          member,    \* group -> the points that belong to it
          string     \* string attribute -> point -> the value a read returns

vars == <<created, member, string>>

Init ==
    /\ created = {}
    /\ member = [g \in Group |-> {}]
    /\ string \in [StrArray -> [Point -> Str]]

AddToGroup(g, p) ==
    /\ created' = created \cup {g}
    /\ member' = [member EXCEPT ![g] = @ \cup {p}]
    /\ UNCHANGED string

RemoveFromGroup(g, p) ==
    /\ g \in created
    /\ member' = [member EXCEPT ![g] = @ \ {p}]
    /\ UNCHANGED <<created, string>>

SetString(a, p, s) ==
    /\ string' = [string EXCEPT ![a][p] = s]
    /\ UNCHANGED <<created, member>>

Next ==
    \/ \E g \in Group, p \in Point : AddToGroup(g, p) \/ RemoveFromGroup(g, p)
    \/ \E a \in StrArray, p \in Point, s \in Str : SetString(a, p, s)

Spec == Init /\ [][Next]_vars
=============================================================================
