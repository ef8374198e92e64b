---------------------------- MODULE RequestBuilder ----------------------------
(***************************************************************************)
(* From a client's request to the one that goes to the proxy               *)
(* (router/mux/endpoint.go:115-165, router/gin/endpoint.go:123-181): the   *)
(* params, under the names the extractor of each router gives them, the    *)
(* headers of the endpoint's list, one after the other, those the router   *)
(* adds, and the query strings.                                            *)
(*                                                                         *)
(* The value of a header is who wrote it; that of a query string or of a   *)
(* param is its name.  Init of the configuration has put the listed        *)
(* headers in their canonical form.                                        *)
(***************************************************************************)
EXTENDS Integers, Sequences, FiniteSets, SequencesExt

CONSTANTS
    Headers,   \* those of a client
    Queries,   \* its query strings
    Params,    \* names of the params of an endpoint's path
    MaxList    \* bound on the length of an endpoint's lists

ASSUME MaxListAssumption == MaxList \in Nat \ {0}

Extractors == {"gin", "noop", "chi", "gorilla"}   \* httptreemux does as gorilla

DefaultHeaders == <<"Content-Type">>   \* server.HeadersToSend
Asterisk == "*"

\* The first letter, or that of each word with the others in lower case.
Capitalised(name) == CASE name = "userId" -> "UserId" [] name = "userid" -> "Userid"
                       [] OTHER -> "Id"
TitleOfWords(name) == CASE name \in {"userId", "userid"} -> "Userid" [] OTHER -> "Id"

ASSUME ParamsAssumption == Params \subseteq {"id", "userId", "userid"}

VARIABLES
    extractor,    \* of the router, fixed
    toPass,       \* the endpoint's headers, fixed
    queryString,  \* and query strings, fixed
    path,         \* the names of the params in its path, fixed
    forwarded,    \* what the client has sent, fixed: headers and query strings
    builderPc,    \* "params", "headers", "forwarded", "query" or "built"
    index,        \* in the list
    client,       \* the headers of the client's request
    params, headers, query,   \* of the request that is built
    shared        \* its headers are the client's: one map

builderVars == <<extractor, toPass, queryString, path, forwarded, builderPc, index, client, params, headers,
                 query, shared>>

\* The lists of an endpoint, without repetitions.
Lists(S) == {l \in UNION {[1 .. n -> S \cup {Asterisk}] : n \in 0 .. MaxList} :
                \A i, j \in DOMAIN l : l[i] = l[j] => i = j}

Added == {"X-Forwarded-For", "X-Forwarded-Host", "User-Agent", "X-Forwarded-Via"}
IsHeaders(f) ==
    DOMAIN f \subseteq Headers \cup Added /\ \A h \in DOMAIN f : f[h] \in {"client", "router"}

BuilderTypeOK ==
    /\ extractor \in Extractors
    /\ builderPc \in {"params", "headers", "forwarded", "query", "built"}
    /\ index \in 1 .. MaxList + 1
    /\ IsHeaders(client) /\ IsHeaders(headers)
    /\ \A p \in DOMAIN params : params[p] \in path
    /\ query \subseteq forwarded.queries
    /\ shared \in BOOLEAN

BuilderInit ==
    /\ extractor \in Extractors
    /\ toPass \in Lists(Headers) /\ queryString \in Lists(Queries)
    /\ path \in SUBSET Params
    /\ forwarded \in [headers : SUBSET Headers, queries : SUBSET Queries]
    /\ builderPc = "params" /\ index = 1
    /\ client = [h \in forwarded.headers |-> "client"]
    /\ params = <<>> /\ headers = <<>> /\ query = {} /\ shared = FALSE

BuilderFixed == UNCHANGED <<extractor, toPass, queryString, path, forwarded>>

-----------------------------------------------------------------------------

Key(name) == IF extractor = "gorilla" THEN TitleOfWords(name) ELSE Capitalised(name)

\* The params under their keys: of two with one key either may stay, they are
\* in a map.  The extractor of the plain mux has none.
ExtractParams ==
    /\ builderPc = "params"
    /\ LET names == IF extractor = "noop" THEN {} ELSE path
       IN  params' \in {f \in [{Key(n) : n \in names} -> names] :
                            \A k \in DOMAIN f : Key(f[k]) = k}
    /\ builderPc' = "headers"
    /\ UNCHANGED <<index, client, headers, query, shared>> /\ BuilderFixed

headersToSend == IF toPass = <<>> THEN DefaultHeaders ELSE toPass

\* One turn of the loop over the list; the asterisk ends it, with the map of
\* the client's request instead of the one that was being filled.
PassHeader ==
    /\ builderPc = "headers" /\ index <= Len(headersToSend)
    /\ LET k == headersToSend[index]
       IN  IF k = Asterisk
           THEN headers' = client /\ shared' = TRUE /\ builderPc' = "forwarded" /\ index' = 1
           ELSE /\ headers' = IF k \in DOMAIN client
                              THEN [h \in DOMAIN headers \cup {k} |->
                                        IF h = k THEN client[k] ELSE headers[h]]
                              ELSE headers
                /\ index' = index + 1
                /\ UNCHANGED <<builderPc, shared>>
    /\ UNCHANGED <<client, params, query>> /\ BuilderFixed

HeadersEnd ==
    /\ builderPc = "headers" /\ index > Len(headersToSend)
    /\ builderPc' = "forwarded" /\ index' = 1
    /\ UNCHANGED <<client, params, headers, query, shared>> /\ BuilderFixed

\* The client's address and host, and the User-Agent: the client's own when
\* there is one, which the router then puts its name next to.
Forwarded(f) ==
    LET added == {"X-Forwarded-For", "X-Forwarded-Host"}
                     \cup {IF "User-Agent" \in DOMAIN f THEN "X-Forwarded-Via" ELSE "User-Agent"}
    IN  [h \in DOMAIN f \cup added |-> IF h \in added THEN "router" ELSE f[h]]

\* One map for both requests.
ForwardShared ==
    /\ builderPc = "forwarded"
    /\ headers' = Forwarded(headers) /\ client' = Forwarded(client)
    /\ builderPc' = "query"
    /\ UNCHANGED <<index, params, query, shared>> /\ BuilderFixed

Forward ==
    /\ builderPc = "forwarded"
    /\ headers' = Forwarded(headers)
    /\ client' = IF shared THEN headers' ELSE client
    /\ builderPc' = "query"
    /\ UNCHANGED <<index, params, query, shared>> /\ BuilderFixed

PassQuery ==
    /\ builderPc = "query" /\ index <= Len(queryString)
    /\ LET k == queryString[index]
       IN  IF k = Asterisk THEN query' = forwarded.queries /\ builderPc' = "built" /\ UNCHANGED index
           ELSE /\ query' = query \cup ({k} \cap forwarded.queries)
                /\ index' = index + 1 /\ UNCHANGED builderPc
    /\ UNCHANGED <<client, params, headers, shared>> /\ BuilderFixed

QueryEnds ==
    /\ builderPc = "query" /\ index > Len(queryString)
    /\ builderPc' = "built"
    /\ UNCHANGED <<index, client, params, headers, query, shared>> /\ BuilderFixed

BuilderFinished == builderPc = "built" /\ UNCHANGED builderVars

BuilderNext == \/ ExtractParams \/ PassHeader \/ HeadersEnd \/ Forward
               \/ PassQuery \/ QueryEnds \/ BuilderFinished

BuilderSpec == BuilderInit /\ [][BuilderNext]_builderVars

-----------------------------------------------------------------------------
(* Properties                                                              *)

\* What a list lets through of what was sent.
Asked(list, S) == IF Asterisk \in ToSet(list) THEN S ELSE ToSet(list) \cap S

\* What the router writes whatever the client has sent.
Overwritten ==
    {"X-Forwarded-For", "X-Forwarded-Host"}
        \cup IF "User-Agent" \in Asked(headersToSend, forwarded.headers) THEN {"X-Forwarded-Via"}
             ELSE {"User-Agent"}

(***************************************************************************)
(* "HeadersToPass defines the list of headers to pass to the backends"     *)
(* (config.go:246): the client's headers that are on the list, all of them *)
(* with an asterisk anywhere in it, and no other.  The address and the     *)
(* host are the router's own, and it names itself, next to the client's    *)
(* User-Agent or in its place (mux/endpoint.go:118-140,                    *)
(* gin/endpoint.go:134-156).                                               *)
(***************************************************************************)
HeadersAsListed ==
    (builderPc = "built") =>
        /\ {h \in DOMAIN headers : headers[h] = "client"}
               = Asked(headersToSend, forwarded.headers) \ Overwritten
        /\ {h \in DOMAIN headers : headers[h] = "router"} = Overwritten

(***************************************************************************)
(* The same for "list of query string params to be extracted from the URI" *)
(* (config.go:242).                                                        *)
(***************************************************************************)
QueriesAsListed == (builderPc = "built") => query = Asked(queryString, forwarded.queries)

(***************************************************************************)
(* The client's request is left as it came unless the endpoint asks for    *)
(* all of its headers: only then is its map the one the router and all the *)
(* middlewares write to (mux/endpoint.go:122, gin/endpoint.go:138).        *)
(***************************************************************************)
ClientRequestIsKept ==
    (Asterisk \notin ToSet(toPass)) => client = [h \in forwarded.headers |-> "client"]

(***************************************************************************)
(* A backend finds every param it may name: its url pattern has been       *)
(* written with the params capitalised (config.go:664), and so are those   *)
(* of gin and chi.                                                         *)
(***************************************************************************)
ParamsHaveTheirKeys ==
    (builderPc = "built" /\ extractor \in {"gin", "chi"}) =>
        /\ DOMAIN params = {Capitalised(n) : n \in path}
        /\ \A n \in path : params[Capitalised(n)] = n

(***************************************************************************)
(* The proxy's request is the client's, restricted to what the endpoint    *)
(* lists, under the names that the backends use.                           *)
(***************************************************************************)
RequestIsAsListed ==
    /\ HeadersAsListed /\ QueriesAsListed
    /\ ClientRequestIsKept /\ ParamsHaveTheirKeys
=============================================================================
