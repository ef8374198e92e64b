------------------------------ MODULE MCServer -------------------------------
(***************************************************************************)
(* The services Server is checked on: without TLS, with pairs of the new   *)
(* and of the old format and of both, with no pair and with broken ones.   *)
(***************************************************************************)
EXTENDS Server

TLS(k, l, w) == [tls |-> TRUE, keys |-> k, legacy |-> l, maxWait |-> w]

MCServices ==
    {[tls |-> FALSE, keys |-> <<>>, legacy |-> NoPair, maxWait |-> w] : w \in {0, 1}}
    \cup {TLS(<<"good">>, "other", 0), TLS(<<>>, "good", 1), TLS(<<>>, NoPair, 0),
          TLS(<<"good", "noPrivate">>, NoPair, 0), TLS(<<"good">>, "noPublic", 0),
          TLS(<<>>, "unreadable", 0)}
=============================================================================
