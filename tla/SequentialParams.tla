--------------------------- MODULE SequentialParams ---------------------------
(***************************************************************************)
(* The lookup of a dotted replacement, Resp0_a.b.c, in the data of an      *)
(* earlier response of a sequential endpoint (proxy/merging.go:338-377):   *)
(* a walk from object to object by all keys but the last, and then the     *)
(* last one.  The data are a tree, the set of the paths that exist in it;  *)
(* an inner node is an object and a leaf is anything else but an object    *)
(* (an empty one, in which nothing is found, is left out).                 *)
(***************************************************************************)
EXTENDS Integers, Sequences, FiniteSets, SequencesExt

CONSTANTS DataKeys, Depth \* of the data

ASSUME DepthAssumption == Depth \in Nat

AllPaths == UNION {[1 .. n -> DataKeys] : n \in 1 .. Depth}

VARIABLES
    tree,    \* the data of the response, fixed
    source,  \* the keys of the replacement, fixed
    lookupPc, \* "walk", "last" or "done"
    level,   \* data: the path of the object the walk has come to
    param    \* the path of the value that the param holds, <<>> without one

lookupVars == <<tree, source, lookupPc, level, param>>

IsTree(t) == \A p \in t : Len(p) > 1 => Front(p) \in t
IsObject(p) == \E q \in tree : Len(q) = Len(p) + 1 /\ IsPrefix(p, q)

LookupTypeOK ==
    /\ IsTree(tree) /\ source \in AllPaths
    /\ lookupPc \in {"walk", "last", "done"}
    /\ level = <<>> \/ (level \in tree /\ IsObject(level))
    /\ param = <<>> \/ param \in tree

LookupInit ==
    /\ tree \in {t \in SUBSET AllPaths : IsTree(t)}
    /\ source \in AllPaths
    /\ lookupPc = "walk" /\ level = <<>> /\ param = <<>>

\* One turn of the loop: it ends before the last key, and at a key that is
\* missing or is no object.
Walk ==
    /\ lookupPc = "walk"
    /\ LET k == Len(level) + 1
           found == Append(level, source[k])
       IN  IF k < Len(source) /\ found \in tree /\ IsObject(found)
           THEN level' = found /\ UNCHANGED lookupPc
           ELSE lookupPc' = "last" /\ UNCHANGED level
    /\ UNCHANGED <<tree, source, param>>

\* The first key instead of the last.
LookUpFirst ==
    /\ lookupPc = "last"
    /\ LET found == Append(level, Head(source))
       IN  param' = IF found \in tree THEN found ELSE <<>>
    /\ lookupPc' = "done"
    /\ UNCHANGED <<tree, source, level>>

LookUp ==
    /\ lookupPc = "last"
    /\ LET found == Append(level, Last(source))
       IN  param' = IF found \in tree THEN found ELSE <<>>
    /\ lookupPc' = "done"
    /\ UNCHANGED <<tree, source, level>>

LookupFinished == lookupPc = "done" /\ UNCHANGED lookupVars

LookupNext == Walk \/ LookUp \/ LookupFinished

LookupSpec == LookupInit /\ [][LookupNext]_lookupVars

-----------------------------------------------------------------------------
(* Properties                                                              *)

(***************************************************************************)
(* A value that exists is found, at any depth (merging_test.go:216-218).   *)
(***************************************************************************)
PathsAreFollowed == (lookupPc = "done" /\ source \in tree) => param = source

(***************************************************************************)
(* A param that is not at its path has its last key, in the innermost      *)
(* object that the path leads to: the walk has followed as much of the     *)
(* path as there is (merging.go:343-353, 374).                             *)
(***************************************************************************)
NoFurtherThanThePath ==
    (lookupPc = "done" /\ param # <<>>) =>
        /\ Last(param) = Last(source)
        /\ IsPrefix(Front(param), source)
        /\ (param # source) =>
               LET next == SubSeq(source, 1, Len(param))
               IN  next \notin tree \/ ~IsObject(next)

(***************************************************************************)
(* The lookup finds what is there, and what it finds otherwise is at least *)
(* on the way (merging.go:333-405).                                        *)
(***************************************************************************)
LookupIsSound == PathsAreFollowed /\ NoFurtherThanThePath
=============================================================================
