------------------------------- MODULE Routers --------------------------------
(***************************************************************************)
(* Run of a router up to the point where it serves: the health endpoint,   *)
(* then the endpoints of the configuration one after the other             *)
(* (router/gin/router.go, router/mux/router.go, router/chi/router.go and,  *)
(* for gorilla, the router of mux with another engine), then, for gin, the *)
(* OPTIONS endpoints.                                                      *)
(*                                                                         *)
(* How an engine takes a second handler for a route is external, but for   *)
(* the BasicEngine of mux.  The debug and echo endpoints are left out: no  *)
(* endpoint of a configuration may have their paths.                       *)
(***************************************************************************)
EXTENDS Integers, Sequences, FiniteSets, SequencesExt

CONSTANTS
    EndpointPaths, \* of endpoints
    Endpoints,    \* those a service may have
    MaxEndpoints  \* and how many

RouterKinds == {"gin", "mux", "chi", "gorilla"}

\* Methods as a configuration may spell them.
Spellings == {"GET", "get", "POST", "post", "HEAD"}
ToTitle(method) == CASE method = "get" -> "GET" [] method = "post" -> "POST" [] OTHER -> method

Supported == {"GET", "POST"}   \* and, alike, PUT, PATCH and DELETE
Verbs == Supported \cup {"HEAD", "OPTIONS"}

\* builds: its proxy can be built; backends: their number.
ASSUME EndpointsAssumption ==
    Endpoints \subseteq [path : EndpointPaths, method : Spellings, builds : BOOLEAN,
                         backends : Nat \ {0}]
ASSUME MaxEndpointsAssumption == MaxEndpoints \in Nat

HealthPath == "/__health"   \* Init of the configuration lets no endpoint have it
ASSUME HealthPathAssumption == HealthPath \notin EndpointPaths

Routes == (EndpointPaths \cup {HealthPath}) \X Verbs

\* What answers at a route: of the i-th endpoint its handler or the one for a
\* proxy that could not be built, the health endpoint, a list of methods.
EndpointHandler(i) == [kind |-> "endpoint", of |-> i, allow |-> {}]
proxyBuildFailedHandler(i) == [kind |-> "failed", of |-> i, allow |-> {}]
HealthHandler == [kind |-> "health", of |-> 0, allow |-> {}]
OptionsHandler(methods) == [kind |-> "options", of |-> 0, allow |-> methods]

VARIABLES
    routerKind,   \* of the router, fixed
    service,      \* the endpoints of the configuration, fixed
    health,       \* the path of the health endpoint, fixed
    autoOptions,  \* the option of gin, fixed
    routersPc,    \* "register", "options", "serving", or "panicked"
    nextEndpoint, \* the endpoint to register
    routes,       \* of the engine: from routes to handlers
    urlCatalog    \* of gin: from paths to lists of methods

routersVars == <<routerKind, service, health, autoOptions, routersPc, nextEndpoint, routes, urlCatalog>>

\* A function with one point more.
With(f, x, v) == [y \in DOMAIN f \cup {x} |-> IF y = x THEN v ELSE f[y]]

Handlers == [kind : {"endpoint", "failed", "health", "options"},
             of : 0 .. MaxEndpoints, allow : SUBSET Supported]

RoutersTypeOK ==
    /\ routerKind \in RouterKinds
    /\ Len(service) <= MaxEndpoints
    /\ health \in EndpointPaths \cup {HealthPath} /\ autoOptions \in BOOLEAN
    /\ routersPc \in {"register", "options", "serving", "panicked"}
    /\ nextEndpoint \in 1 .. Len(service) + 1
    /\ DOMAIN routes \subseteq Routes
    /\ \A r \in DOMAIN routes :
           /\ routes[r] \in Handlers
           /\ routes[r].kind # "options" => r[2] \in Supported
    /\ DOMAIN urlCatalog \subseteq EndpointPaths
    /\ \A p \in DOMAIN urlCatalog : urlCatalog[p] \in Seq(Supported)

\* The path of the health endpoint and the OPTIONS endpoints are choices that
\* gin offers.
RoutersInit ==
    /\ routerKind \in RouterKinds
    /\ service \in UNION {[1 .. n -> Endpoints] : n \in 0 .. MaxEndpoints}
    /\ IF routerKind = "gin" THEN health \in EndpointPaths \cup {HealthPath} /\ autoOptions \in BOOLEAN
       ELSE health = HealthPath /\ autoOptions = FALSE
    /\ routersPc = "register" /\ nextEndpoint = 1
    /\ routes = With(<<>>, <<health, "GET">>, HealthHandler)
    /\ urlCatalog = <<>>

-----------------------------------------------------------------------------
(* The engines                                                             *)

\* BasicEngine.Handle: a dictionary of methods per path, the last handler stays.
BasicHandle(path, method, handler) ==
    routes' = With(routes, <<path, method>>, handler)

\* A second handler replaces the first in chi and is never reached in gorilla.
EngineHandle(path, method, handler) ==
    CASE routerKind = "mux" -> BasicHandle(path, method, handler)
      [] routerKind = "gorilla" /\ <<path, method>> \in DOMAIN routes -> UNCHANGED routes
      [] OTHER -> routes' = With(routes, <<path, method>>, handler)

\* gin does not take one: it panics.
Taken(path, method) == routerKind = "gin" /\ <<path, method>> \in DOMAIN routes

\* What the engine does with a request for the route.
Answer(path, method) ==
    IF <<path, method>> \in DOMAIN routes THEN routes[<<path, method>>].kind
    ELSE IF \E r \in DOMAIN routes : r[1] = path THEN "method not allowed"
    ELSE "not found"

-----------------------------------------------------------------------------
(* Run                                                                     *)

Fixed == UNCHANGED <<routerKind, service, health, autoOptions>>

\* The check of an endpoint with several backends and a method other than GET;
\* it is commented out, and they may be in any order.
IsValidSequentialEndpoint(e) == TRUE

Catalog(path, method) ==
    With(urlCatalog, path,
         IF path \in DOMAIN urlCatalog THEN Append(urlCatalog[path], method) ELSE <<method>>)

\* An endpoint is left out, with a log line, when its method is not supported.
Registrable(e, method, total) ==
    /\ (method # "GET" /\ total > 1) => IsValidSequentialEndpoint(e)
    /\ method \in Supported

\* registerKrakendEndpoint
RegisterEndpoint(e, handler, total) ==
    LET method == ToTitle(e.method)
    IN  IF ~Registrable(e, method, total) THEN UNCHANGED <<routersPc, routes, urlCatalog>>
        ELSE IF Taken(e.path, method)
        THEN routersPc' = "panicked" /\ UNCHANGED <<routes, urlCatalog>>
        ELSE /\ EngineHandle(e.path, method, handler)
             /\ urlCatalog' = IF routerKind = "gin" THEN Catalog(e.path, method) ELSE urlCatalog
             /\ UNCHANGED routersPc

\* A failed proxy that is registered and then registered again.
RegisterNextTwice ==
    /\ routersPc = "register" /\ nextEndpoint <= Len(service)
    /\ LET e == service[nextEndpoint]
       IN  IF e.builds THEN RegisterEndpoint(e, EndpointHandler(nextEndpoint), e.backends)
           ELSE IF routerKind = "gin" /\ Registrable(e, ToTitle(e.method), 1)
           THEN routersPc' = "panicked" /\ UNCHANGED <<routes, urlCatalog>>
           ELSE UNCHANGED <<routersPc, routes, urlCatalog>>
    /\ nextEndpoint' = nextEndpoint + 1
    /\ Fixed

\* registerKrakendEndpoints, one turn: when the proxy cannot be built gin
\* registers a handler that says so, the others leave the endpoint out.
RegisterNext ==
    /\ routersPc = "register" /\ nextEndpoint <= Len(service)
    /\ LET e == service[nextEndpoint]
       IN  IF e.builds THEN RegisterEndpoint(e, EndpointHandler(nextEndpoint), e.backends)
           ELSE IF routerKind = "gin" THEN RegisterEndpoint(e, proxyBuildFailedHandler(nextEndpoint), 1)
           ELSE UNCHANGED <<routersPc, routes, urlCatalog>>
    /\ nextEndpoint' = nextEndpoint + 1
    /\ Fixed

\* The server is started with the engine.
Registered ==
    /\ routersPc = "register" /\ nextEndpoint > Len(service)
    /\ routersPc' = IF autoOptions THEN "options" ELSE "serving"
    /\ UNCHANGED <<nextEndpoint, routes, urlCatalog>> /\ Fixed

\* registerOptionEndpoints: the paths of the catalogue, and what they allow.
RegisterOptions ==
    /\ routersPc = "options"
    /\ LET added == {<<p, "OPTIONS">> : p \in DOMAIN urlCatalog}
       IN  routes' = [r \in DOMAIN routes \cup added |->
                          IF r \in added THEN OptionsHandler(ToSet(urlCatalog[r[1]]))
                          ELSE routes[r]]
    /\ routersPc' = "serving"
    /\ UNCHANGED <<nextEndpoint, urlCatalog>> /\ Fixed

RoutersFinished == routersPc \in {"serving", "panicked"} /\ UNCHANGED routersVars

RoutersNext == RegisterNext \/ Registered \/ RegisterOptions \/ RoutersFinished

RoutersSpec == RoutersInit /\ [][RoutersNext]_routersVars

-----------------------------------------------------------------------------
(* Properties                                                              *)

\* The endpoints of the configuration that want a route.
Wanting(path, method) ==
    {i \in 1 .. Len(service) : service[i].path = path /\ ToTitle(service[i].method) = method}

(***************************************************************************)
(* Every endpoint with a supported method is served, whatever is wrong     *)
(* with the others: by itself or, among several for one route, by the last *)
(* (mux, chi) or first (gorilla) that can be built.  One that cannot be is *)
(* answered with an error by gin and not at all by the others, even if it  *)
(* comes after another of the same route (gin/router.go:140-149,           *)
(* mux/router.go:147-155, mux/engine.go:55-61, chi/router.go:121-129).     *)
(***************************************************************************)
EndpointsAreServed ==
    (routersPc = "serving") =>
        \A p \in EndpointPaths, m \in Supported :
            LET built == {i \in Wanting(p, m) : service[i].builds}
            IN  CASE routerKind = "gin" ->
                         \A i \in Wanting(p, m) :
                             /\ <<p, m>> \in DOMAIN routes
                             /\ routes[<<p, m>>] = IF i \in built THEN EndpointHandler(i)
                                                   ELSE proxyBuildFailedHandler(i)
                  [] routerKind # "gin" /\ built # {} ->
                         /\ <<p, m>> \in DOMAIN routes
                         /\ routes[<<p, m>>] =
                                EndpointHandler(IF routerKind = "gorilla" THEN Min(built)
                                                ELSE Max(built))
                  [] OTHER -> Answer(p, m) \in {"not found", "method not allowed"}

(***************************************************************************)
(* An OPTIONS endpoint allows exactly the methods its path answers to,     *)
(* without the health endpoint, and every path of an endpoint has one      *)
(* (gin/router.go:178-201, the test at gin/router_test.go:94).             *)
(***************************************************************************)
AllowIsExact ==
    (routersPc = "serving" /\ autoOptions) =>
        \A p \in EndpointPaths :
            LET served == {m \in Supported : Answer(p, m) \in {"endpoint", "failed"}}
            IN  IF served = {} THEN <<p, "OPTIONS">> \notin DOMAIN routes
                ELSE /\ routes[<<p, "OPTIONS">>] = OptionsHandler(served)
                     /\ Len(urlCatalog[p]) = Cardinality(served)

\* Two endpoints for one route, however they spell the method, or the custom
\* path of the health endpoint.
Clash ==
    \E p \in EndpointPaths, m \in Supported :
        Cardinality(Wanting(p, m)) + (IF <<p, m>> = <<health, "GET">> THEN 1 ELSE 0) > 1

(***************************************************************************)
(* gin serves a configuration or panics before it does, and it panics if   *)
(* and only if two handlers want one route: Init of the configuration does *)
(* not look for them.  The other routers take any configuration.           *)
(***************************************************************************)
StartsUnlessClash ==
    /\ (routersPc = "panicked") => routerKind = "gin" /\ Clash
    /\ (routersPc = "serving" /\ routerKind = "gin") => ~Clash

(***************************************************************************)
(* The routes of a service that starts are those of its configuration, and *)
(* it starts unless gin finds two for one path.                            *)
(***************************************************************************)
RoutesAreThoseConfigured == EndpointsAreServed /\ AllowIsExact /\ StartsUnlessClash
=============================================================================
