-------------------------- MODULE MCRequestSharing --------------------------
(***************************************************************************)
(* Endpoints of two backends.  The first one may send two concurrent calls.*)
(***************************************************************************)
EXTENDS RequestSharing

Each(x, y) == <<x, y>>

\* What the two backends may be: every mix of GraphQL operations and methods.
MCSharing ==
    {c \in [sequential : BOOLEAN, deep : BOOLEAN, hasBody : BOOLEAN,
            calls : {Each(1, 1), Each(2, 1)},
            graphql : [Parts -> {"none", "query", "mutation"}],
            get : [Parts -> BOOLEAN],
            dropsHeaders : {Each(FALSE, FALSE), Each(TRUE, FALSE)},
            dropsQuery : {Each(FALSE, FALSE), Each(TRUE, TRUE)}] :
        /\ c.dropsHeaders[1] = c.dropsQuery[1]
        /\ c.hasBody => c.deep     \* the others share it, see CloningIsEnough
        /\ \A p \in Parts : c.get[p] => c.graphql[p] # "none"}

\* Deep clones, and a first backend whose GraphQL operation is sent with GET.
GetConfigs ==
    {[sequential |-> FALSE, deep |-> TRUE, hasBody |-> FALSE,
      calls |-> Each(1, 1), graphql |-> Each("query", "none"),
      get |-> Each(TRUE, FALSE), dropsHeaders |-> Each(FALSE, FALSE),
      dropsQuery |-> Each(FALSE, FALSE)]}
=============================================================================
