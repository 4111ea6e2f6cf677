-------------------------- MODULE MCPointExecution --------------------------
\* Small instances of PointExecution: three leaves, one of them empty.
EXTENDS PointExecution, TLC

CONSTANTS keep, made

Access(name, type, writes) == [name |-> name, type |-> type, writes |-> writes]

\* A kernel that writes P, one that reads P and writes the string, and one that
\* reads P and an attribute of the name of the temporary.
MCRegistries == {
    <<Access("P", "vec3f", TRUE)>>,
    <<Access("P", "vec3f", FALSE), Access("s", "string", TRUE)>>,
    <<Access("P", "vec3f", FALSE), Access("__P", "float", FALSE)>> }

MCGridAttrs == {
    "P" :> "vec3f",
    ("P" :> "vec3f") @@ ("s" :> "float"),
    ("P" :> "vec3f") @@ ("__P" :> "float"),
    ("P" :> "vec3f") @@ ("__P" :> "vec3f") }

MCTempNames == <<"__P", "__P1", "__P2", "__P3">>

MCPointCount == <<2, 0, 1>>
MCNoGroups == {EmptyMap}
MCGridGroups == {keep :> {<<1, 1>>, <<3, 0>>}, (keep :> {}) @@ (made :> {<<1, 0>>})}
=============================================================================
