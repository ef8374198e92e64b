--------------------------- MODULE RequestSharing ---------------------------
(***************************************************************************)
(* Who may touch which part of a request at the same time.  One request of *)
(* the router is cloned by the merger for each backend (shallowly or with  *)
(* CloneRequest), cloned again by the concurrent middleware for each call, *)
(* and read and written by the middlewares of the backend stack on the     *)
(* goroutines of those calls (proxy/factory.go, newStack).                 *)
(*                                                                         *)
(* Go maps are references: a request says for each of its headers, params, *)
(* query and body whose object it is, by the actor the object was made for.*)
(* An actor is <<part, call>>: <<0, 0>> is the merger, <<p, 0>> the        *)
(* goroutine of part p down to the concurrent middleware, <<p, c>> a call. *)
(*                                                                         *)
(* Everything that reads or writes a shared object is one action; two      *)
(* actors race when both can take conflicting actions in the same state.   *)
(***************************************************************************)
EXTENDS Integers, FiniteSets

CONSTANTS NumParts,   \* backends of the endpoint
          MaxCalls,   \* bound on ConcurrentCalls
          SharingConfigs \* endpoint configurations, [Config]

Parts  == 1 .. NumParts
Merger == <<0, 0>>
Actors == {Merger} \cup (Parts \X (0 .. MaxCalls))
Kinds  == {"headers", "params", "query", "body"}
Client == 0           \* tag of the query strings of the client

(***************************************************************************)
(* sequential: the merger; deep: the clones come from CloneRequest (some   *)
(* backend is unsafe, or force_deep_clone); hasBody: the client sent one.  *)
(* Per backend: calls is ConcurrentCalls; graphql is the operation of its  *)
(* GraphQL options and get their method; dropsHeaders and dropsQuery say   *)
(* that the filters of the backend do not let everything pass.             *)
(***************************************************************************)
Config ==
    [sequential : BOOLEAN, deep : BOOLEAN, hasBody : BOOLEAN,
     calls : [Parts -> 1 .. MaxCalls],
     graphql : [Parts -> {"none", "query", "mutation"}],
     get : [Parts -> BOOLEAN],
     dropsHeaders : [Parts -> BOOLEAN], dropsQuery : [Parts -> BOOLEAN]]

ASSUME ConfigsAssumption ==
    /\ NumParts \in Nat /\ NumParts >= 2
    /\ MaxCalls \in Nat \ {0}
    /\ SharingConfigs \subseteq Config

VARIABLES
    conf,   \* the configuration of the endpoint (never changes)
    pos,    \* [Actors -> Pos], what each actor does next
    next,   \* [Actors -> Nat], the part or call it spawns next
    req,    \* [Actors -> [Kinds -> Actors]], the objects of its request
    tags,   \* [Actors -> SUBSET (Parts \cup {Client})], per query map
    full,   \* [Actors -> BOOLEAN], per body: not read yet
    url,    \* [Actors -> SUBSET ...], the query in the URL of each call
    sent    \* [Actors -> SUBSET Sent], what each call sent, if anything

sharingVars == <<conf, pos, next, req, tags, full, url, sent>>

Pos == {"off", "params", "clone", "await", "qfilter", "build", "spawn",
        "balance", "filter", "graphql", "http", "ok", "failed"}

Sent == [tags : SUBSET (Parts \cup {Client}), whole : BOOLEAN]

SharingTypeOK ==
    /\ conf \in SharingConfigs
    /\ pos \in [Actors -> Pos]
    /\ next \in [Actors -> Nat]
    /\ next[Merger] \in 1 .. NumParts + 1
    /\ \A p \in Parts : next[<<p, 0>>] \in 1 .. conf.calls[p] + 1
    /\ req \in [Actors -> [Kinds -> Actors]]
    /\ tags \in [Actors -> SUBSET (Parts \cup {Client})]
    /\ full \in [Actors -> BOOLEAN]
    /\ url \in [Actors -> SUBSET (Parts \cup {Client})]
    /\ sent \in [Actors -> SUBSET Sent]

SharingInit ==
    /\ conf \in SharingConfigs
    /\ pos = [a \in Actors |-> IF a = Merger THEN "clone" ELSE "off"]
    /\ next = [a \in Actors |-> 1]
    /\ req = [a \in Actors |-> [k \in Kinds |-> Merger]]
    /\ tags = [a \in Actors |-> {Client}]
    /\ full = [a \in Actors |-> conf.hasBody]
    /\ url = [a \in Actors |-> {}]
    /\ sent = [a \in Actors |-> {}]

-----------------------------------------------------------------------------
(* Cloning.  Each operator gives the new values of req and full when actor *)
(* a makes a clone of its request for actor b.                             *)

\* Request.Clone: the clone shares everything.
Clone(a, b) ==
    /\ req' = [req EXCEPT ![b] = req[a]]
    /\ UNCHANGED full

\* A CloneRequest that does not restore the body of the original.
CloneRequestDraining(a, b) ==
    LET left == full[req[a]["body"]]
    IN  /\ req' = [req EXCEPT ![b] = [k \in Kinds |->
                                        IF k = "query" THEN req[a]["query"]
                                                       ELSE b]]
        /\ full' = [x \in Actors |->
                      IF x = b THEN left
                      ELSE full[x] /\ x # req[a]["body"]]

(***************************************************************************)
(* CloneRequest: new headers and params, the same query; the body is read  *)
(* and both requests get a new one with what was left of it.               *)
(***************************************************************************)
CloneRequest(a, b) ==
    LET left == full[req[a]["body"]]
    IN  /\ req' = [req EXCEPT ![a]["body"] = a,
                              ![b] = [k \in Kinds |->
                                        IF k = "query" THEN req[a]["query"]
                                                       ELSE b]]
        /\ full' = [x \in Actors |->
                      IF x \in {a, b} THEN left
                      ELSE full[x] /\ x # req[a]["body"]]

\* Every call gets a clone but the last one, which gets the request itself.
ClonesNext(a) == next[a] < conf.calls[a[1]]

-----------------------------------------------------------------------------
(* The objects an actor may touch in the action it is about to take (the   *)
(* filters are optional; they read the map even if they drop nothing).     *)

Touch(a, kind, mode) == {[obj |-> <<kind, req[a][kind]>>, write |-> mode = "w"]}

CloneTouches(a) == Touch(a, "headers", "r") \cup Touch(a, "params", "r")
                     \cup (IF conf.hasBody THEN Touch(a, "body", "w") ELSE {})

GraphQLTouches(a) ==
    IF conf.graphql[a[1]] = "none" THEN {}
    ELSE Touch(a, "headers", "w")
           \cup (IF conf.graphql[a[1]] = "query" THEN Touch(a, "params", "r")
                 ELSE IF conf.hasBody THEN Touch(a, "body", "w") ELSE {})
           \cup (IF conf.get[a[1]] THEN Touch(a, "query", "w") ELSE {})

Touches(a) ==
    CASE pos[a] = "params"  -> Touch(a, "params", "w")
      [] pos[a] = "clone"   -> IF conf.deep THEN CloneTouches(a) ELSE {}
      [] pos[a] = "qfilter" -> Touch(a, "query", "r")
      [] pos[a] = "build"   -> Touch(a, "params", "r")
      [] pos[a] = "spawn"   -> IF ClonesNext(a) THEN CloneTouches(a) ELSE {}
      [] pos[a] = "balance" -> Touch(a, "query", "r")
      [] pos[a] = "filter"  -> Touch(a, "headers", "r")
      [] pos[a] = "graphql" -> GraphQLTouches(a)
      [] pos[a] = "http"    -> Touch(a, "headers", "r")
                                 \cup (IF conf.hasBody THEN Touch(a, "body", "w")
                                                       ELSE {})
      [] OTHER              -> {}

SharingStep(a, p) == pos' = [pos EXCEPT ![a] = p]

-----------------------------------------------------------------------------
(* The merger.                                                             *)

\* sequentialMerge writes the resolved replacements into request.Params.
WriteParams ==
    /\ pos[Merger] = "params"
    /\ SharingStep(Merger, "clone")
    /\ UNCHANGED <<conf, next, req, tags, full, url, sent>>

\* reqCloner(request), and the call of the next part.
LaunchPart ==
    /\ pos[Merger] = "clone"
    /\ LET p == next[Merger] IN
        /\ IF conf.deep THEN CloneRequest(Merger, <<p, 0>>)
                        ELSE Clone(Merger, <<p, 0>>)
        /\ pos' = [pos EXCEPT ![<<p, 0>>] = "qfilter",
                              ![Merger] = IF conf.sequential \/ p = NumParts
                                          THEN "await" ELSE "clone"]
        /\ next' = [next EXCEPT ![Merger] = p + 1]
    /\ UNCHANGED <<conf, tags, url, sent>>

\* The sequential merger goes on once the part it called has returned, if
\* its response is complete.
NextPart ==
    /\ pos[Merger] = "await"
    /\ next[Merger] <= NumParts
    /\ pos[<<next[Merger] - 1, 0>>] = "ok"
    /\ SharingStep(Merger, "params")
    /\ UNCHANGED <<conf, next, req, tags, full, url, sent>>

\* Every part launched has returned and none is left to launch.
MergerReturns ==
    /\ pos[Merger] = "await"
    /\ \A p \in 1 .. next[Merger] - 1 : pos[<<p, 0>>] \in {"ok", "failed"}
    /\ next[Merger] > NumParts \/ pos[<<next[Merger] - 1, 0>>] = "failed"
    /\ SharingStep(Merger, "ok")
    /\ UNCHANGED <<conf, next, req, tags, full, url, sent>>

-----------------------------------------------------------------------------
(* A part, down to the concurrent middleware.                              *)

\* NewFilterQueryStringsMiddleware: a new map when something is dropped.
FilterQuery(p) ==
    LET a == <<p, 0>> IN
    /\ pos[a] = "qfilter"
    /\ SharingStep(a, "build")
    /\ IF conf.dropsQuery[p]
       THEN /\ req' = [req EXCEPT ![a]["query"] = a]
            /\ tags' = [tags EXCEPT ![a] = tags[req[a]["query"]] \cap {Client}]
       ELSE UNCHANGED <<req, tags>>
    /\ UNCHANGED <<conf, next, full, url, sent>>

\* GeneratePath reads the params; Path and Method are fields of its own.
BuildPath(p) ==
    LET a == <<p, 0>> IN
    /\ pos[a] = "build"
    /\ SharingStep(a, "spawn")
    /\ UNCHANGED <<conf, next, req, tags, full, url, sent>>

\* The concurrent middleware starts a call; a single call gets the request.
SpawnCall(p) ==
    LET a == <<p, 0>>
        b == <<p, next[a]>>
    IN  /\ pos[a] = "spawn" /\ next[a] <= conf.calls[p]
        /\ IF ClonesNext(a) THEN CloneRequest(a, b) ELSE Clone(a, b)
        /\ pos' = [pos EXCEPT ![b] = "balance"]
        /\ next' = [next EXCEPT ![a] = @ + 1]
        /\ UNCHANGED <<conf, tags, url, sent>>

\* It returns with the first success, or when every call has failed.  (It also
\* returns when the context ends, but so does the merger then.)
PartReturns(p) ==
    LET a == <<p, 0>>
        calls == {p} \X (1 .. conf.calls[p])
    IN  /\ pos[a] = "spawn" /\ next[a] > conf.calls[p]
        /\ \/ /\ \E b \in calls : pos[b] = "ok"
              /\ SharingStep(a, "ok")
           \/ /\ \A b \in calls : pos[b] = "failed"
              /\ SharingStep(a, "failed")
        /\ UNCHANGED <<conf, next, req, tags, full, url, sent>>

-----------------------------------------------------------------------------
(* A call a = <<p, c>>, c > 0, from the load balancer down.                *)

\* newLoadBalancedMiddleware: the URL with the query as it is now, or no host.
Balance(a) ==
    /\ pos[a] = "balance"
    /\ \/ /\ url' = [url EXCEPT ![a] = tags[req[a]["query"]]]
          /\ SharingStep(a, "filter")
       \/ /\ SharingStep(a, "failed")
          /\ UNCHANGED url
    /\ UNCHANGED <<conf, next, req, tags, full, sent>>

\* NewFilterHeadersMiddleware: a new map when something is dropped.
FilterHeaders(a) ==
    /\ pos[a] = "filter"
    /\ SharingStep(a, "graphql")
    /\ req' = IF conf.dropsHeaders[a[1]]
              THEN [req EXCEPT ![a]["headers"] = a] ELSE req
    /\ UNCHANGED <<conf, next, tags, full, url, sent>>

(***************************************************************************)
(* NewGraphQLMiddleware: a new body; the headers are written; with GET the *)
(* operation is added to the query.  A mutation is built from the body.    *)
(***************************************************************************)
GraphQLSends(a) ==
    /\ pos[a] = "graphql"
    /\ conf.graphql[a[1]] # "none"
    /\ conf.graphql[a[1]] = "mutation" => full[req[a]["body"]]
    /\ SharingStep(a, "http")
    /\ req' = [req EXCEPT ![a]["body"] = a]
    /\ full' = [x \in Actors |->
                  IF x = a THEN TRUE
                  ELSE full[x] /\ ~(conf.graphql[a[1]] = "mutation"
                                      /\ x = req[a]["body"])]
    /\ tags' = IF conf.get[a[1]]
               THEN [tags EXCEPT ![req[a]["query"]] = @ \cup {a[1]}] ELSE tags
    /\ UNCHANGED <<conf, next, url, sent>>

\* The operation cannot be built from the body: malformed, or nothing in it.
GraphQLFails(a) ==
    /\ pos[a] = "graphql"
    /\ conf.graphql[a[1]] = "mutation"
    /\ SharingStep(a, "failed")
    /\ UNCHANGED <<conf, next, req, tags, full, url, sent>>

NoGraphQL(a) ==
    /\ pos[a] = "graphql"
    /\ conf.graphql[a[1]] = "none"
    /\ SharingStep(a, "http")
    /\ UNCHANGED <<conf, next, req, tags, full, url, sent>>

\* NewHTTPProxyDetailed sends the request: URL, headers and what is left of
\* the body, and the backend answers or fails.
SendHTTP(a) ==
    LET operation == IF conf.graphql[a[1]] # "none" /\ ~conf.get[a[1]]
                     THEN {a[1]} ELSE {}
        b == req[a]["body"]
    IN  /\ pos[a] = "http"
        /\ sent' = [sent EXCEPT ![a] = {[tags  |-> url[a] \cup operation,
                                         whole |-> full[b]]}]
        /\ full' = [full EXCEPT ![b] = FALSE]
        /\ \E p \in {"ok", "failed"} : SharingStep(a, p)
        /\ UNCHANGED <<conf, next, req, tags, url>>

-----------------------------------------------------------------------------
\* The merger has returned and no call is running.
SharingFinished ==
    /\ pos[Merger] = "ok"
    /\ \A a \in Actors : pos[a] \in {"off", "ok", "failed"}
    /\ UNCHANGED sharingVars

CallStep(a) == \/ Balance(a) \/ FilterHeaders(a) \/ GraphQLSends(a)
               \/ GraphQLFails(a) \/ NoGraphQL(a) \/ SendHTTP(a)

SharingNext ==
    \/ WriteParams \/ LaunchPart \/ NextPart \/ MergerReturns
    \/ \E p \in Parts : FilterQuery(p) \/ BuildPath(p) \/ SpawnCall(p)
                          \/ PartReturns(p)
    \/ \E a \in Parts \X (1 .. MaxCalls) : CallStep(a)
    \/ SharingFinished

SharingSpec == SharingInit /\ [][SharingNext]_sharingVars

-----------------------------------------------------------------------------
(* Properties                                                              *)

Conflict(x, y) == x.obj = y.obj /\ (x.write \/ y.write)

Races(a, b) == \E x \in Touches(a), y \in Touches(b) : Conflict(x, y)

(***************************************************************************)
(* No two goroutines are ever about to touch the same map or body while one*)
(* of them writes it (a Go map written while it is read stops the program).*)
(***************************************************************************)
NoRace == \A a, b \in Actors : a # b => ~Races(a, b)

NoGraphQLBackend == \A p \in Parts : conf.graphql[p] = "none"
NoGraphQLGet     == \A p \in Parts : conf.graphql[p] # "none" => ~conf.get[p]

(***************************************************************************)
(* An endpoint is free of races if none of its backends is a GraphQL one,  *)
(* whatever the clones, or if its clones are deep and no GraphQL operation *)
(* is sent with GET (the rule of merging.go:60 completed with what         *)
(* CloneRequest leaves shared, request.go:54).  A body must be cloned: it  *)
(* is not if all the backends use GET or HEAD (merging.go:263-267).        *)
(***************************************************************************)
CloningIsEnough ==
    /\ conf.hasBody => conf.deep
    /\ NoGraphQLBackend \/ (conf.deep /\ NoGraphQLGet)
    => NoRace

(***************************************************************************)
(* With deep clones every call that is sent carries the whole body of the  *)
(* client, or the GraphQL operation made from it, however many clones of   *)
(* clones there are (request.go:72-95).                                    *)
(***************************************************************************)
BodiesAreWhole ==
    (conf.deep /\ conf.hasBody) =>
        \A a \in Actors : \A s \in sent[a] : s.whole

(***************************************************************************)
(* The URL of a call holds the query strings of the client and at most its *)
(* own backend's operation, never another backend's, as long as the GraphQL*)
(* backends that use GET have a query map of their own (balancing.go:102,  *)
(* graphql.go:103, query_strings_filter.go:47).                            *)
(***************************************************************************)
UrlsDoNotMix ==
    (\A p \in Parts : conf.get[p] => conf.dropsQuery[p]) =>
        \A a \in Actors : url[a] \subseteq {Client, a[1]}

(***************************************************************************)
(* The requests of one client, however cloned, stay apart: no races, no    *)
(* stolen body and no foreign operation, under the conditions each part    *)
(* names.                                                                  *)
(***************************************************************************)
RequestsAreApart == CloningIsEnough /\ BodiesAreWhole /\ UrlsDoNotMix

(***************************************************************************)
(* A GraphQL backend receives its operation: "the resulting request will   *)
(* have a proper graphql body with the query and the variables"            *)
(* (graphql.go:24-25).  With GET the operation is added to request.Query   *)
(* after the load balancer has built the URL (factory.go:93-95).           *)
(***************************************************************************)
GraphQLReachesBackend ==
    \A a \in Actors : \A s \in sent[a] :
        conf.graphql[a[1]] # "none" => a[1] \in s.tags
=============================================================================
