------------------------------ MODULE Formatter -------------------------------
(***************************************************************************)
(* What happens to the decoded data of a backend before it is merged       *)
(* (proxy/formatter.go): the target is taken out of it, the fields are     *)
(* filtered by a list of allowed or denied ones, renamed, and put under    *)
(* the group.  The lists become trees when the backend is configured; the  *)
(* renaming goes through a Go map, in any order.                           *)
(*                                                                         *)
(* An object is a tree: a leaf, or a function from keys to trees.  A field *)
(* is a path of keys ("a.b" is <<"a", "b">>).                              *)
(***************************************************************************)
EXTENDS Integers, Sequences, FiniteSets, SequencesExt

CONSTANTS
    Setups,     \* the backends and their data
    NoGroup     \* the group of a backend without one

Leaf(v) == [dict |-> FALSE, val |-> v, kids |-> <<>>]
Dict(f) == [dict |-> TRUE, val |-> 0, kids |-> f]
Empty == Dict(<<>>)

Put(t, key, sub) ==
    Dict([k \in DOMAIN t.kids \cup {key} |-> IF k = key THEN sub ELSE t.kids[k]])
Drop(t, key) == Dict([k \in DOMAIN t.kids \ {key} |-> t.kids[k]])

VARIABLES
    setup,   \* the backend (target, allow, deny, mapping, group), the data it
             \* has sent, fixed
    data,    \* entity.Data
    todo,    \* the keys of the mapping that the loop has not come to
    formatterPc \* what runs next

formatterVars == <<setup, data, todo, formatterPc>>

FormatterTypeOK ==
    /\ data.dict
    /\ todo \subseteq DOMAIN setup.mapping
    /\ formatterPc \in {"target", "filter", "mapping", "group", "done"}

FormatterInit ==
    /\ setup \in Setups
    /\ data = setup.input
    /\ todo = {}
    /\ formatterPc = "target"

-----------------------------------------------------------------------------
(* Target                                                                  *)

\* A target that is taken for an object, whatever it is.
RECURSIVE AnyTarget(_, _)
AnyTarget(t, path) ==
    IF path = <<>> THEN t
    ELSE IF Head(path) \in DOMAIN t.kids THEN AnyTarget(t.kids[Head(path)], Tail(path)) ELSE Empty

\* A target that is not there leaves what was found on the way to it.
RECURSIVE AsFarAsItGoes(_, _)
AsFarAsItGoes(t, path) ==
    IF path # <<>> /\ Head(path) \in DOMAIN t.kids /\ t.kids[Head(path)].dict
    THEN AsFarAsItGoes(t.kids[Head(path)], Tail(path))
    ELSE t

\* The object at the target, or an empty one.
RECURSIVE extractTarget(_, _)
extractTarget(t, path) ==
    IF path = <<>> THEN t
    ELSE IF Head(path) \in DOMAIN t.kids /\ t.kids[Head(path)].dict
    THEN extractTarget(t.kids[Head(path)], Tail(path))
    ELSE Empty

ExtractTarget ==
    /\ formatterPc = "target"
    /\ data' = extractTarget(data, setup.target)
    /\ formatterPc' = "filter"
    /\ UNCHANGED <<setup, todo>>

-----------------------------------------------------------------------------
(* Allowed and denied fields                                               *)

\* buildDictPath and the leaf of a field: what is in the way makes place.
RECURSIVE AllowField(_, _)
AllowField(tree, path) ==
    LET key == Head(path)
    IN  IF Len(path) = 1 THEN Put(tree, key, Leaf(0))
        ELSE Put(tree, key,
                 AllowField(IF key \in DOMAIN tree.kids /\ tree.kids[key].dict
                            THEN tree.kids[key] ELSE Empty, Tail(path)))

\* Objects that stay when all their fields have gone.
RECURSIVE PruneLeaves(_, _)
PruneLeaves(allowed, t) ==
    LET Sub(k) == PruneLeaves(allowed.kids[k], t.kids[k])
        kept == {k \in DOMAIN t.kids \cap DOMAIN allowed.kids :
                     allowed.kids[k].dict => t.kids[k].dict}
    IN  Dict([k \in kept |-> IF allowed.kids[k].dict THEN Sub(k) ELSE t.kids[k]])

\* What is left of t; nothing is left of an object without allowed fields.
RECURSIVE AllowlistPrune(_, _)
AllowlistPrune(allowed, t) ==
    LET Sub(k) == AllowlistPrune(allowed.kids[k], t.kids[k])
        kept == {k \in DOMAIN t.kids \cap DOMAIN allowed.kids :
                     allowed.kids[k].dict => t.kids[k].dict /\ Sub(k) # Empty}
    IN  Dict([k \in kept |-> IF allowed.kids[k].dict THEN Sub(k) ELSE t.kids[k]])

\* Denied fields that make place for a field below them.
RECURSIVE DenyLast(_, _)
DenyLast(tree, path) ==
    LET key == Head(path)
    IN  IF Len(path) = 1 THEN Put(tree, key, Leaf(0))
        ELSE Put(tree, key,
                 DenyLast(IF key \in DOMAIN tree.kids /\ tree.kids[key].dict
                          THEN tree.kids[key] ELSE Empty, Tail(path)))

\* buildDenyTree: a denied field swallows those below it.
RECURSIVE buildDenyTree(_, _)
buildDenyTree(tree, path) ==
    LET key == Head(path)
        known == key \in DOMAIN tree.kids
    IN  IF Len(path) = 1 THEN Put(tree, key, Leaf(0))
        ELSE IF known /\ ~tree.kids[key].dict THEN tree
        ELSE Put(tree, key, buildDenyTree(IF known THEN tree.kids[key] ELSE Empty, Tail(path)))

RECURSIVE recDelete(_, _)
recDelete(denied, t) ==
    IF ~t.dict THEN t
    ELSE LET kept == {k \in DOMAIN t.kids : k \in DOMAIN denied.kids => denied.kids[k].dict}
         IN  Dict([k \in kept |-> IF k \in DOMAIN denied.kids
                                  THEN recDelete(denied.kids[k], t.kids[k]) ELSE t.kids[k]])

\* A list of allowed fields takes the place of one of denied fields.
PropertyFilter(t) ==
    IF setup.allow # <<>>
    THEN AllowlistPrune(FoldLeft(AllowField, Empty, setup.allow), t)
    ELSE recDelete(FoldLeft(buildDenyTree, Empty, setup.deny), t)

Filter ==
    /\ formatterPc = "filter"
    /\ data' = PropertyFilter(data)
    /\ todo' = IF data' = Empty THEN {} ELSE DOMAIN setup.mapping
    /\ formatterPc' = "mapping"
    /\ UNCHANGED setup

-----------------------------------------------------------------------------
(* Mapping and group                                                       *)

\* A field that moves to its new name; then the old one is deleted.
Renamed(t, from, to) ==
    IF from \in DOMAIN t.kids THEN Drop(Put(t, to, t.kids[from]), from) ELSE t

\* The next key of the Go map, in an order of its own; only the first key of a
\* new name counts.
Rename ==
    /\ formatterPc = "mapping"
    /\ \E from \in todo :
           /\ data' = Renamed(data, from, Head(setup.mapping[from]))
           /\ todo' = todo \ {from}
    /\ UNCHANGED <<setup, formatterPc>>

EndMapping ==
    /\ formatterPc = "mapping" /\ todo = {}
    /\ formatterPc' = "group"
    /\ UNCHANGED <<setup, data, todo>>

\* The group holds whatever is left, be it nothing.
Group ==
    /\ formatterPc = "group"
    /\ data' = IF setup.group = NoGroup THEN data ELSE Dict([k \in {setup.group} |-> data])
    /\ formatterPc' = "done"
    /\ UNCHANGED <<setup, todo>>

FormatterFinished == formatterPc = "done" /\ UNCHANGED formatterVars

FormatterNext == ExtractTarget \/ Filter \/ Rename \/ EndMapping \/ Group \/ FormatterFinished

FormatterSpec == FormatterInit /\ [][FormatterNext]_formatterVars

-----------------------------------------------------------------------------
(* What the configuration says, by paths                                   *)

\* The fields of an object, at every depth, with what is there.
RECURSIVE Fields(_)
Fields(t) ==
    UNION {{<<<<k>>, t.kids[k].dict, t.kids[k].val>>}
               \cup {<<<<k>> \o f[1], f[2], f[3]>> : f \in Fields(t.kids[k])} : k \in DOMAIN t.kids}

\* The fields below the target.
Targeted ==
    {<<SubSeq(f[1], Len(setup.target) + 1, Len(f[1])), f[2], f[3]>> :
        f \in {g \in Fields(setup.input) : IsStrictPrefix(setup.target, g[1])}}

Listed(list, path) == \E l \in Range(list) : IsPrefix(l, path)

\* A field is allowed with all that is below it and the objects above it.
Allowed(fields) ==
    {f \in fields : \E g \in fields : IsPrefix(f[1], g[1]) /\ Listed(setup.allow, g[1])}

\* A field is denied with all that is below it.
Denied(fields) == {f \in fields : ~Listed(setup.deny, f[1])}

Filtered == IF setup.allow # <<>> THEN Allowed(Targeted) ELSE Denied(Targeted)

\* Every field of the first level under its new name.
NewName(key) == IF key \in DOMAIN setup.mapping THEN Head(setup.mapping[key]) ELSE key
RenamedFields == {<<<<NewName(Head(f[1]))>> \o Tail(f[1]), f[2], f[3]>> : f \in Filtered}

Grouped(fields) ==
    IF setup.group = NoGroup THEN fields
    ELSE {<<<<setup.group>>, TRUE, 0>>} \cup {<<<<setup.group>> \o f[1], f[2], f[3]>> : f \in fields}

EntityKeys == {Head(f[1]) : f \in Filtered}

\* No field is listed twice, once as a part of another one.
ListIsPlain == \A k, l \in Range(setup.allow) : ~IsStrictPrefix(k, l)

\* No new name is the name of a field, old or new, of another one or its own.
MappingIsPlain ==
    \A k \in DOMAIN setup.mapping :
        /\ NewName(k) \notin EntityKeys \cup DOMAIN setup.mapping
        /\ \A l \in DOMAIN setup.mapping \ {k} : NewName(l) # NewName(k)

-----------------------------------------------------------------------------
(* Properties                                                              *)

(***************************************************************************)
(* The data that is merged is what the configuration says of it, whatever  *)
(* the order in which fields are denied and renamed, and whatever is       *)
(* missing. Provided that no allowed field is a part of another one listed *)
(* after it and that no new name is the name of a field: then the result   *)
(* depends on the order of the list, or of a Go map (formatter.go:61-225). *)
(***************************************************************************)
FormatIsAsConfigured ==
    (formatterPc = "done" /\ ListIsPlain /\ MappingIsPlain) => Fields(data) = Grouped(RenamedFields)

Values(fields) == {f[3] : f \in {g \in fields : ~g[2]}}

(***************************************************************************)
(* No value leaves the gateway that is denied, or that is not allowed, not *)
(* even with overlapping lists or under another name                       *)
(* (formatter.go:97-225).                                                  *)
(***************************************************************************)
NothingLeaks == formatterPc \in {"mapping", "group", "done"} => Values(Fields(data)) \subseteq Values(Filtered)

(***************************************************************************)
(* The formatter keeps what it was asked for and lets nothing else out.    *)
(***************************************************************************)
FormatterIsExact == FormatIsAsConfigured /\ NothingLeaks
=============================================================================
