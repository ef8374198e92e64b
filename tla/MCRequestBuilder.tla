-------------------------- MODULE MCRequestBuilder ----------------------------
(***************************************************************************)
(* Every list of up to two of three headers and one query string.          *)
(***************************************************************************)
EXTENDS RequestBuilder

MCHeaders == {"Content-Type", "User-Agent", "X-Forwarded-Via"}
MCQueries == {"a"}
MCParams == {"userId", "userid"}
=============================================================================
