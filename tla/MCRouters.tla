------------------------------ MODULE MCRouters -------------------------------
(***************************************************************************)
(* Services of up to three endpoints on two paths.                         *)
(***************************************************************************)
EXTENDS Routers

MCPaths == {"/p", "/q"}
MCEndpoints ==
    {[path |-> p, method |-> m, builds |-> b, backends |-> IF m = "post" THEN 2 ELSE 1] :
         p \in MCPaths, m \in {"GET", "post", "HEAD"}, b \in BOOLEAN}
        \cup {[path |-> "/p", method |-> "get", builds |-> TRUE, backends |-> 1]}
=============================================================================
