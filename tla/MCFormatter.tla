----------------------------- MODULE MCFormatter ------------------------------
(***************************************************************************)
(* Objects with two keys and two levels, every target of up to two keys,   *)
(* every list of up to two fields, every mapping of the two keys.          *)
(***************************************************************************)
EXTENDS Formatter

FieldNames == {"a", "b"}
MCNoGroup == "none"

SubsetFunctions(S, T) == UNION {[D -> T] : D \in SUBSET S}

\* Every leaf has a value of its own.
Below(v) == {Leaf(v)} \cup {Dict([k \in D |-> Leaf(v + (IF k = "a" THEN 1 ELSE 2))]) : D \in SUBSET FieldNames}
Objects == {Dict(f) : f \in {g \in SubsetFunctions(FieldNames, Below(1) \cup Below(4)) :
                                \A k \in DOMAIN g : g[k] \in Below(IF k = "a" THEN 1 ELSE 4)}}

FieldPaths == {<<k>> : k \in FieldNames} \cup {<<k, l>> : k, l \in FieldNames}
Targets == {<<>>, <<"a">>, <<"a", "b">>}
FieldLists == BoundedSeq(FieldPaths, 2)

Mappings == SubsetFunctions(FieldNames, {<<"a">>, <<"b">>, <<"c">>, <<"c", "d">>})

Entities(inputs, targets, allows, denies, mappings, groups) ==
    [input : inputs, target : targets, allow : allows, deny : denies,
     mapping : mappings, group : groups]

\* A formatter with an allow list or a deny list, and one that renames.
FormatterSetups ==
    Entities(Objects, Targets, FieldLists, {<<>>}, {<<>>}, {MCNoGroup})
    \cup Entities(Objects, Targets, {<<>>}, FieldLists, {<<>>}, {MCNoGroup})
    \cup Entities(Objects, {<<>>, <<"a">>}, {<<>>, <<<<"a">>>>}, {<<>>}, Mappings, {MCNoGroup, "g"})
=============================================================================
