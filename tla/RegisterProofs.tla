--------------------------- MODULE RegisterProofs ---------------------------
(***************************************************************************)
(* Proofs about tables that are filled before they are read: Register, for *)
(* any goroutines, namespaces and names; the routes that the four routers  *)
(* register (Routers), for any endpoints; and the plugins of a folder with *)
(* the chains that are made of them (Plugins), for any files and any list. *)
(***************************************************************************)
EXTENDS Register, Routers, Plugins, FiniteSetTheorems, SequenceTheorems, TLAPS

\* The registers nobody else can reach yet, or not any more.
PointersInv ==
    /\ \A ns \in Namespaces : top[ns] \in 0 .. created
    /\ \A g \in Goroutines :
          /\ pc[g] = "store" =>
                /\ call[g] \in Call /\ call[g].op = "Register"
                /\ register[g] \in 1 .. created
                /\ top[call[g].namespace] # Absent
          /\ pc[g] = "publish" => call[g] \in Call /\ register[g] \in 1 .. created

\* A call that is alone sees the register its namespace has, or will have.
AloneOn(g, ns) ==
    /\ pc[g] = "store" => Creating(ns) = {} /\ register[g] = top[ns]
    /\ pc[g] = "publish" =>
          /\ Creating(ns) = {g} /\ top[ns] = Absent
          /\ call[g].op = "Register" => call[g].name \in entries[register[g]]

AloneInv ==
    \A g \in Goroutines, ns \in Namespaces :
        (alone[g] /\ pc[g] # "idle" /\ call[g].namespace = ns) => AloneOn(g, ns)

\* Entries that are safe are in a register nobody will replace.
SafeInv == \A e \in done \ early : Known(e[1]) /\ Found(e[1], e[2])

IInv == TypeOK /\ PointersInv /\ AloneInv /\ SafeInv

-----------------------------------------------------------------------------
\* An empty register.
LEMMA InitIInv == Init => IInv
BY MaxRegistersAssumption
   DEF Init, IInv, TypeOK, PointersInv, AloneInv, SafeInv, Absent, Untyped, Call,
       NoCall

\* A call names a namespace, and an entry if it registers one.
LEMMA CallFields ==
    ASSUME NEW c \in Call
    PROVE  c.namespace \in Namespaces /\ (c.op = "Register" => c.name \in Names)
<1>1. CASE c \in [op : {"Register"}, namespace : Namespaces, name : Names]
  BY <1>1
<1>2. CASE c \in [op : {"AddNamespace"}, namespace : Namespaces]
  BY <1>2
<1> QED  BY <1>1, <1>2 DEF Call

\* A call that finds its namespace (register.go:32-40).
LEMMA FindIInv ==
    ASSUME IInv, NEW g \in Goroutines, NEW c \in Call, Find(g, c)
    PROVE  IInv'
<1> USE DEF IInv
<1>0. c.namespace \in Namespaces /\ top[c.namespace] \in 1 .. created
  BY CallFields DEF PointersInv, TypeOK, Find, Absent
<1>1. TypeOK'
  BY <1>0 DEF TypeOK, Find, Absent, Untyped
<1>2. PointersInv'
  BY <1>0 DEF TypeOK, PointersInv, Find, Absent
<1>3. \A ns \in Namespaces : Creating(ns)' = Creating(ns)
  BY DEF TypeOK, Find, Creating
<1>4. AloneInv'
  BY <1>0, <1>3 DEF TypeOK, PointersInv, AloneInv, AloneOn, Find
<1>5. SafeInv'
  BY <1>3 DEF TypeOK, SafeInv, Find, Known, Found
<1> QED  BY <1>1, <1>2, <1>4, <1>5

\* A call that finds no namespace makes a register of its own.
LEMMA CreateIInv ==
    ASSUME IInv, NEW g \in Goroutines, NEW c \in Call, Create(g, c)
    PROVE  IInv'
<1> USE MaxRegistersAssumption DEF IInv
<1>1. c.namespace \in Namespaces /\ (c.op = "Register" => c.name \in Names)
  BY CallFields
<1>2. TypeOK'
  <2>1. created + 1 \in Untyped /\ created' \in 0 .. MaxRegisters
    BY DEF TypeOK, Create, New, Untyped
  <2>2. top' \in [Namespaces -> Untyped \cup {Absent}]
    BY DEF TypeOK, Create, New
  <2>3. entries' \in [Untyped -> SUBSET Names]
    BY <1>1, <2>1 DEF TypeOK, Create, New
  <2>4. /\ pc' \in [Goroutines -> {"idle", "store", "publish"}]
        /\ call' \in [Goroutines -> Call \cup {NoCall}]
        /\ register' \in [Goroutines -> Untyped \cup {Absent}]
    BY <2>1 DEF TypeOK, Create, New
  <2>5. alone' \in [Goroutines -> BOOLEAN]
    BY DEF TypeOK, Create, New
  <2>6. \A h \in Goroutines : pc'[h] # "idle" => register'[h] \in 1 .. created'
    BY <2>1 DEF TypeOK, Create, New, Untyped
  <2> QED  BY <2>1, <2>2, <2>3, <2>4, <2>5, <2>6 DEF TypeOK, Create, New
<1>3. PointersInv'
  BY <1>1 DEF TypeOK, PointersInv, Create, New, Absent, Untyped
<1>4. \A ns \in Namespaces :
         Creating(ns)' = Creating(ns) \cup (IF ns = c.namespace THEN {g} ELSE {})
  BY <1>1 DEF TypeOK, Create, New, Creating
<1>5. AloneInv'
  <2> SUFFICES ASSUME NEW h \in Goroutines, NEW n \in Namespaces, alone'[h],
                      pc'[h] # "idle", call'[h].namespace = n
               PROVE  AloneOn(h, n)'
    BY DEF AloneInv
  <2>1. CASE h = g
    <3>1. /\ pc'[g] = "publish" /\ call'[g] = c /\ register'[g] = created + 1
          /\ top' = top /\ top[c.namespace] = Absent
      BY DEF TypeOK, Create, New
    <3>2. Creating(c.namespace) = {}
      BY <2>1 DEF TypeOK, Create, New
    <3>3. c.op = "Register" => c.name \in entries'[created + 1]
      BY DEF TypeOK, Create, New, Untyped
    <3> QED  BY <1>1, <1>4, <2>1, <3>1, <3>2, <3>3 DEF AloneOn
  <2>2. CASE h # g
    <3>1. /\ pc'[h] = pc[h] /\ call'[h] = call[h] /\ register'[h] = register[h]
          /\ top' = top /\ alone[h] /\ h \notin Creating(c.namespace)
      BY <2>2 DEF TypeOK, Create, New
    <3>2. AloneOn(h, n)
      BY <3>1 DEF AloneInv
    <3>3. n # c.namespace
      BY <3>1, <3>2 DEF AloneOn, PointersInv, TypeOK, Create, Creating
    <3>4. register[h] \in 1 .. created
      BY <3>1 DEF TypeOK
    <3>5. entries'[register[h]] = entries[register[h]]
      BY <3>4 DEF TypeOK, Create, New, Untyped
    <3> QED  BY <1>4, <3>1, <3>2, <3>3, <3>5 DEF AloneOn
  <2> QED  BY <2>1, <2>2
<1>6. SafeInv'
  <2> SUFFICES ASSUME NEW e \in done \ early
               PROVE  Known(e[1])' /\ Found(e[1], e[2])'
    BY DEF SafeInv, Create, New
  <2>1. e[1] \in Namespaces /\ Known(e[1]) /\ Found(e[1], e[2])
    BY DEF SafeInv, TypeOK
  <2>2. e[1] # c.namespace
    BY <2>1 DEF Create, Known
  <2>3. top[e[1]] \in 1 .. created
    BY <2>1 DEF PointersInv, Known, TypeOK, Absent
  <2>4. entries'[top[e[1]]] = entries[top[e[1]]]
    BY <2>3 DEF Create, New, TypeOK, Untyped
  <2> QED  BY <1>4, <2>1, <2>2, <2>4 DEF Create, New, Known, Found
<1> QED  BY <1>2, <1>3, <1>5, <1>6

\* A call stores its entry in the register it has found.
LEMMA StoreIInv ==
    ASSUME IInv, NEW g \in Goroutines, Store(g)
    PROVE  IInv'
<1> USE DEF IInv
<1> DEFINE ns == call[g].namespace
<1>1. /\ call[g] \in Call /\ call[g].op = "Register"
      /\ ns \in Namespaces /\ call[g].name \in Names
  BY CallFields DEF PointersInv, Store
<1>2. TypeOK'
  BY <1>1 DEF TypeOK, PointersInv, Store, Done, Returned, Absent, Untyped
<1>3. PointersInv'
  BY DEF TypeOK, PointersInv, Store, Done, Returned, Absent
<1>4. \A n \in Namespaces : Creating(n)' = Creating(n)
  BY DEF TypeOK, Store, Returned, Creating
<1>5. \A u \in Untyped : entries[u] \subseteq entries'[u]
  BY DEF TypeOK, Store
<1>6. AloneInv'
  <2> SUFFICES ASSUME NEW h \in Goroutines, NEW n \in Namespaces, alone'[h],
                      pc'[h] # "idle", call'[h].namespace = n
               PROVE  AloneOn(h, n)'
    BY DEF AloneInv
  <2>1. /\ h # g /\ top' = top
        /\ pc'[h] = pc[h] /\ call'[h] = call[h] /\ register'[h] = register[h]
        /\ alone[h]
    BY DEF TypeOK, Store, Returned
  <2>2. AloneOn(h, n)
    BY <2>1 DEF AloneInv
  <2>3. register[h] \in Untyped
    BY <2>1, MaxRegistersAssumption DEF TypeOK, Untyped
  <2> QED  BY <1>4, <1>5, <2>1, <2>2, <2>3 DEF AloneOn
<1>7. SafeInv'
  <2> SUFFICES ASSUME NEW e \in done' \ early'
               PROVE  Known(e[1])' /\ Found(e[1], e[2])'
    BY DEF SafeInv
  <2>1. CASE e \in done \ early
    <3>1. e[1] \in Namespaces /\ Known(e[1]) /\ Found(e[1], e[2])
      BY <2>1 DEF SafeInv, TypeOK
    <3>2. top[e[1]] \in Untyped
      BY <3>1 DEF Known, TypeOK
    <3> QED  BY <3>1, <3>2, <1>4, <1>5 DEF Store, Known, Found
  <2>2. CASE e \notin done \ early
    <3>1. alone[g] /\ e = <<ns, call[g].name>>
      BY <2>2, <1>1 DEF Store, Done
    <3>2. Creating(ns) = {} /\ register[g] = top[ns] /\ top[ns] # Absent
      BY <3>1, <1>1 DEF AloneInv, AloneOn, PointersInv, Store, TypeOK
    <3>3. register[g] \in Untyped
      BY <3>2, <1>1 DEF TypeOK
    <3>4. call[g].name \in entries'[top[ns]] /\ top' = top
      BY <3>2, <3>3 DEF Store, TypeOK
    <3> QED  BY <3>1, <3>2, <3>4, <1>1, <1>4 DEF Known, Found
  <2> QED  BY <2>1, <2>2
<1> QED  BY <1>2, <1>3, <1>6, <1>7

\* A call publishes the register it has made, with its entry.
LEMMA PublishIInv ==
    ASSUME IInv, NEW g \in Goroutines, Publish(g)
    PROVE  IInv'
<1> USE DEF IInv
<1> DEFINE ns == call[g].namespace
<1>1. call[g] \in Call /\ ns \in Namespaces /\ register[g] \in 1 .. created
  BY CallFields DEF PointersInv, Publish
<1>2. call[g].op = "Register" => call[g].name \in Names
  BY <1>1, CallFields
<1>3. TypeOK'
  BY <1>1, <1>2 DEF TypeOK, PointersInv, Publish, Done, Returned, Absent, Untyped
<1>4. PointersInv'
  BY <1>1 DEF TypeOK, PointersInv, Publish, Done, Returned, Absent
<1>5. g \in Creating(ns)
  BY DEF Publish, Creating
<1>6. \A n \in Namespaces : Creating(n)' = Creating(n) \ {g}
  BY DEF TypeOK, Publish, Returned, Creating
<1>7. AloneInv'
  <2> SUFFICES ASSUME NEW h \in Goroutines, NEW n \in Namespaces, alone'[h],
                      pc'[h] # "idle", call'[h].namespace = n
               PROVE  AloneOn(h, n)'
    BY DEF AloneInv
  <2>1. /\ h # g /\ entries' = entries
        /\ pc'[h] = pc[h] /\ call'[h] = call[h] /\ register'[h] = register[h]
        /\ alone[h]
    BY DEF TypeOK, Publish, Returned
  <2>2. AloneOn(h, n)
    BY <2>1 DEF AloneInv
  <2>3. n # ns
    BY <2>1, <2>2, <1>5 DEF AloneOn, TypeOK
  <2>4. top'[n] = top[n] /\ Creating(n)' = Creating(n)
    BY <1>1, <1>6, <2>3 DEF Publish, TypeOK, Creating
  <2> QED  BY <2>1, <2>2, <2>4 DEF AloneOn
<1>8. SafeInv'
  <2> SUFFICES ASSUME NEW e \in done' \ early'
               PROVE  Known(e[1])' /\ Found(e[1], e[2])'
    BY DEF SafeInv
  <2>1. CASE e \in done \ early
    <3>1. e[1] \in Namespaces /\ Known(e[1]) /\ Found(e[1], e[2])
      BY <2>1 DEF SafeInv, TypeOK
    <3>2. e[1] # ns
      BY <3>1, <1>5 DEF Known
    <3> QED  BY <3>1, <3>2, <1>6 DEF Publish, Known, Found, TypeOK
  <2>2. CASE e \notin done \ early
    <3>1. alone[g] /\ e = <<ns, call[g].name>> /\ call[g].op = "Register"
      BY <2>2 DEF Publish, Done
    <3>2. Creating(ns) = {g} /\ call[g].name \in entries[register[g]]
      BY <3>1, <1>1 DEF AloneInv, AloneOn, Publish
    <3>3. top'[ns] = register[g] /\ register[g] # Absent /\ entries' = entries
      BY <1>1 DEF Publish, TypeOK, Absent
    <3> QED  BY <3>1, <3>2, <3>3, <1>1, <1>6 DEF Known, Found
  <2> QED  BY <2>1, <2>2
<1> QED  BY <1>3, <1>4, <1>7, <1>8

\* Every step keeps the invariant of the registers.
LEMMA StepIInv == IInv /\ [Next]_vars => IInv'
<1> SUFFICES ASSUME IInv, [Next]_vars PROVE IInv'
  OBVIOUS
<1>1. CASE UNCHANGED vars
  BY <1>1 DEF IInv, TypeOK, PointersInv, AloneInv, AloneOn, SafeInv, Known, Found,
              Creating, vars
<1>2. CASE Next
  <2>1. PICK g \in Goroutines :
           \/ \E ns \in Namespaces : AddKnownNamespace(g, ns)
           \/ \E c \in Call : Find(g, c) \/ Create(g, c)
           \/ Store(g) \/ Publish(g)
    BY <1>2 DEF Next
  <2>2. CASE \E ns \in Namespaces : AddKnownNamespace(g, ns)
    BY <1>1, <2>2 DEF AddKnownNamespace
  <2> QED  BY <2>1, <2>2, FindIInv, CreateIInv, StoreIInv, PublishIInv
<1> QED  BY <1>1, <1>2

-----------------------------------------------------------------------------
(***************************************************************************)
(* In every reachable state the pointers are those of registers that exist *)
(* and a Register that found its namespace holds its register.             *)
(***************************************************************************)
THEOREM TypeCorrectness == Spec => []TypeOK
<1>1. IInv => TypeOK
  BY DEF IInv
<1> QED  BY InitIInv, StepIInv, <1>1, PTL DEF Spec

(***************************************************************************)
(* Whatever the interleaving, an entry is found for ever once its Register *)
(* has returned, unless the call overlapped the creation of its namespace  *)
(* by another one (register.go:32-50).                                     *)
(***************************************************************************)
THEOREM Safety == Spec => []NothingLostOnceKnown
<1>1. IInv => NothingLostOnceKnown
  BY DEF IInv, SafeInv, NothingLostOnceKnown
<1> QED  BY InitIInv, StepIInv, <1>1, PTL DEF Spec

(***************************************************************************)
(* A namespace nobody is creating keeps its register for ever.             *)
(***************************************************************************)
THEOREM Stability == Spec => KnownStays
<1>1. IInv /\ [Next]_vars =>
        [\A ns \in Namespaces :
            Known(ns) => (top'[ns] = top[ns] /\ Known(ns)')]_vars
  <2> SUFFICES ASSUME IInv, Next, NEW ns \in Namespaces, Known(ns)
               PROVE  top'[ns] = top[ns] /\ Creating(ns)' = {}
    BY DEF Known
  <2>1. PICK g \in Goroutines :
           \/ \E n \in Namespaces : AddKnownNamespace(g, n)
           \/ \E c \in Call : Find(g, c) \/ Create(g, c)
           \/ Store(g) \/ Publish(g)
    BY DEF Next
  <2>2. CASE \E n \in Namespaces : AddKnownNamespace(g, n)
    BY <2>2 DEF AddKnownNamespace, vars, Known, Creating
  <2>3. CASE \E c \in Call : Find(g, c)
    BY <2>3 DEF Find, IInv, TypeOK, Known, Creating
  <2>4. CASE \E c \in Call : Create(g, c)
    BY <2>4 DEF Create, New, IInv, TypeOK, Known, Creating
  <2>5. CASE Store(g)
    BY <2>5 DEF Store, Returned, IInv, TypeOK, Known, Creating
  <2>6. CASE Publish(g)
    BY <2>6 DEF Publish, Returned, IInv, TypeOK, PointersInv, Known, Creating
  <2> QED  BY <2>1, <2>2, <2>3, <2>4, <2>5, <2>6
<1> QED  BY InitIInv, StepIInv, <1>1, PTL DEF Spec, KnownStays

-----------------------------------------------------------------------------
(* The table of routes that a router fills (Routers).                      *)

\* The endpoints that want a route, among those below an index; the handler of
\* an endpoint.
WantingBelow(n, p, m) ==
    {x \in 1 .. n - 1 : service[x].path = p /\ ToTitle(service[x].method) = m}
Past(p, m) == WantingBelow(nextEndpoint, p, m)
PastBuilt(p, m) == {x \in Past(p, m) : service[x].builds}
HandlerOf(x) == IF service[x].builds THEN EndpointHandler(x) ELSE proxyBuildFailedHandler(x)

InputInv ==
    /\ routerKind \in RouterKinds
    /\ service \in Seq(Endpoints) /\ Len(service) <= MaxEndpoints
    /\ health \in EndpointPaths \cup {HealthPath} /\ autoOptions \in BOOLEAN
    /\ routerKind # "gin" => health = HealthPath /\ ~autoOptions
    /\ routersPc \in {"register", "options", "serving", "panicked"}
    /\ nextEndpoint \in 1 .. Len(service) + 1
    /\ routersPc \in {"options", "serving"} => nextEndpoint = Len(service) + 1
    /\ routersPc = "options" => autoOptions
    /\ routersPc = "panicked" => routerKind = "gin" /\ Clash

TableInv ==
    /\ DOMAIN routes \subseteq Routes
    /\ \A r \in DOMAIN routes : /\ routes[r] \in Handlers
                                /\ routes[r].kind # "options" => r[2] \in Supported
    /\ routersPc \in {"register", "options"} => \A r \in DOMAIN routes : r[2] \in Supported

\* gin has at most one endpoint for a route, and none for that of the health
\* endpoint.
GinRoute(p, m) ==
    /\ \A x \in Past(p, m) : <<p, m>> \in DOMAIN routes /\ routes[<<p, m>>] = HandlerOf(x)
    /\ \A x, y \in Past(p, m) : x = y
    /\ <<p, m>> = <<health, "GET">> => Past(p, m) = {}
    /\ <<p, m>> \in DOMAIN routes => Past(p, m) # {} \/ <<p, m>> = <<health, "GET">>

Methods(p) == {m \in Supported : Past(p, m) # {}}

GinCatalog(p) ==
    /\ p \in DOMAIN urlCatalog <=> Methods(p) # {}
    /\ p \in DOMAIN urlCatalog =>
          /\ urlCatalog[p] \in Seq(Supported)
          /\ ToSet(urlCatalog[p]) = Methods(p)
          /\ Len(urlCatalog[p]) = Cardinality(Methods(p))

GinInv ==
    (routerKind = "gin" /\ routersPc # "panicked") =>
        /\ <<health, "GET">> \in DOMAIN routes /\ routes[<<health, "GET">>] = HealthHandler
        /\ \A p \in EndpointPaths, m \in Supported : GinRoute(p, m)
        /\ \A p \in EndpointPaths : GinCatalog(p)

\* The others keep the first or the last endpoint that can be built.
OtherRoute(p, m) ==
    /\ PastBuilt(p, m) = {} => <<p, m>> \notin DOMAIN routes
    /\ PastBuilt(p, m) # {} =>
          /\ <<p, m>> \in DOMAIN routes
          /\ \E k \in PastBuilt(p, m) :
                /\ routes[<<p, m>>] = EndpointHandler(k)
                /\ \A x \in PastBuilt(p, m) : IF routerKind = "gorilla" THEN k <= x ELSE x <= k

OtherInv ==
    routerKind # "gin" => \A p \in EndpointPaths, m \in Supported : OtherRoute(p, m)

CatalogInv ==
    /\ DOMAIN urlCatalog \subseteq EndpointPaths
    /\ \A p \in DOMAIN urlCatalog : urlCatalog[p] \in Seq(Supported)

OptionsInv ==
    (routersPc = "serving" /\ autoOptions) =>
        \A p \in EndpointPaths :
            /\ p \in DOMAIN urlCatalog =>
                  /\ <<p, "OPTIONS">> \in DOMAIN routes
                  /\ routes[<<p, "OPTIONS">>] = OptionsHandler(ToSet(urlCatalog[p]))
            /\ p \notin DOMAIN urlCatalog => <<p, "OPTIONS">> \notin DOMAIN routes

RoutersIInv == InputInv /\ TableInv /\ GinInv /\ OtherInv /\ CatalogInv /\ OptionsInv

\* The fields of an endpoint.
LEMMA EndpointFields ==
    ASSUME NEW e \in Endpoints
    PROVE  /\ e.path \in EndpointPaths /\ e.method \in Spellings /\ e.builds \in BOOLEAN
           /\ ToTitle(e.method) \in Supported \cup {"HEAD"}
BY EndpointsAssumption DEF Spellings, ToTitle, Supported

\* A service is a list of endpoints.
LEMMA ServicesAreSequences ==
    ASSUME NEW s \in UNION {[1 .. n -> Endpoints] : n \in 0 .. MaxEndpoints}
    PROVE  s \in Seq(Endpoints) /\ Len(s) <= MaxEndpoints
<1>1. PICK n \in 0 .. MaxEndpoints : s \in [1 .. n -> Endpoints]
  OBVIOUS
<1>2. n \in Nat /\ n <= MaxEndpoints
  BY MaxEndpointsAssumption
<1> QED
  BY <1>1, <1>2

\* A router without a route.
LEMMA RoutersInitially == RoutersInit => RoutersIInv
<1> SUFFICES ASSUME RoutersInit PROVE RoutersIInv
  OBVIOUS
<1>1. InputInv
  <2>1. service \in Seq(Endpoints) /\ Len(service) <= MaxEndpoints
    BY ServicesAreSequences DEF RoutersInit
  <2>2. Len(service) \in Nat /\ 1 \in 1 .. Len(service) + 1
    BY <2>1
  <2>3. /\ health \in EndpointPaths \cup {HealthPath} /\ autoOptions \in BOOLEAN
        /\ routerKind # "gin" => health = HealthPath /\ ~autoOptions
    BY DEF RoutersInit
  <2> QED
    BY <2>1, <2>2, <2>3 DEF RoutersInit, InputInv
<1>2. DOMAIN routes = {<<health, "GET">>} /\ routes[<<health, "GET">>] = HealthHandler
  <2>1. routes = With(<<>>, <<health, "GET">>, HealthHandler)
    BY DEF RoutersInit
  <2>2. DOMAIN routes = DOMAIN <<>> \cup {<<health, "GET">>}
        /\ routes[<<health, "GET">>] = HealthHandler
    BY <2>1 DEF With
  <2> QED
    BY <2>2
<1>3. \A p, m : Past(p, m) = {}
  BY DEF RoutersInit, Past, WantingBelow
<1>4. TableInv
  <2>1. HealthHandler \in Handlers /\ HealthHandler.kind = "health"
    BY MaxEndpointsAssumption DEF HealthHandler, Handlers
  <2>2. <<health, "GET">> \in Routes /\ "GET" \in Supported
    BY <1>1 DEF InputInv, Routes, Verbs, Supported
  <2> QED
    BY <1>2, <2>1, <2>2 DEF TableInv
<1>5. DOMAIN urlCatalog = {}
  BY DEF RoutersInit
<1>6. GinInv
  <2>1. ASSUME NEW p \in EndpointPaths, NEW m \in Supported PROVE GinRoute(p, m)
    BY <1>2, <1>3 DEF GinRoute
  <2>2. ASSUME NEW p \in EndpointPaths PROVE GinCatalog(p)
    BY <1>3, <1>5 DEF GinCatalog, Methods
  <2> QED
    BY <1>2, <2>1, <2>2 DEF GinInv
<1>7. OtherInv
  <2> SUFFICES ASSUME routerKind # "gin", NEW p \in EndpointPaths, NEW m \in Supported
               PROVE  OtherRoute(p, m)
    BY DEF OtherInv
  <2>1. PastBuilt(p, m) = {}
    BY <1>3 DEF PastBuilt
  <2>2. p # health
    BY <1>1, HealthPathAssumption DEF InputInv
  <2> QED
    BY <1>2, <2>1, <2>2 DEF OtherRoute
<1>8. CatalogInv /\ OptionsInv
  BY <1>5 DEF CatalogInv, OptionsInv, RoutersInit
<1> QED
  BY <1>1, <1>4, <1>6, <1>7, <1>8 DEF RoutersIInv

\* Two of a set are more than one.
LEMMA TwoAreMore ==
    ASSUME NEW S, IsFiniteSet(S), NEW a \in S
    PROVE  /\ Cardinality(S) \in Nat /\ Cardinality(S) >= 1
           /\ \A b \in S : a # b => Cardinality(S) > 1
           /\ (\A b \in S : a = b) => Cardinality(S) = 1
<1>1. Cardinality(S) \in Nat
  BY FS_CardinalityType
<1>2. IsFiniteSet(S \ {a}) /\ Cardinality(S \ {a}) = Cardinality(S) - 1
  BY FS_RemoveElement
<1>3. Cardinality(S \ {a}) \in Nat /\ (Cardinality(S \ {a}) = 0 <=> S \ {a} = {})
  BY <1>2, FS_CardinalityType, FS_EmptySet
<1> QED
  BY <1>1, <1>2, <1>3

\* Finitely many endpoints want one route.
LEMMA WantingIsFinite ==
    ASSUME NEW p, NEW m, service \in Seq(Endpoints)
    PROVE  IsFiniteSet(Wanting(p, m))
<1>1. 1 \in Int /\ Len(service) \in Int
  OBVIOUS
<1>2. IsFiniteSet(1 .. Len(service))
  BY <1>1, FS_Interval
<1>3. Wanting(p, m) \subseteq 1 .. Len(service)
  BY DEF Wanting
<1> QED
  BY <1>2, <1>3, FS_Subset

\* What is there of the next endpoint.
Next1 == service[nextEndpoint]

\* The endpoint that is registered next, and who wants its route.
LEMMA NextFacts ==
    ASSUME RoutersIInv, RegisterNext
    PROVE  /\ Next1 \in Endpoints /\ Next1.path \in EndpointPaths
           /\ ToTitle(Next1.method) \in Supported \cup {"HEAD"}
           /\ nextEndpoint \in 1 .. Len(service) /\ nextEndpoint \in Nat /\ Len(service) \in Nat
           /\ nextEndpoint' = nextEndpoint + 1
           /\ UNCHANGED <<routerKind, service, health, autoOptions>>
           /\ nextEndpoint \in Wanting(Next1.path, ToTitle(Next1.method))
           /\ \A p, m : (p = Next1.path /\ m = ToTitle(Next1.method)) =>
                  Past(p, m)' = Past(p, m) \cup {nextEndpoint}
           /\ \A p, m : (p # Next1.path \/ m # ToTitle(Next1.method)) => Past(p, m)' = Past(p, m)
           /\ \A p, m : nextEndpoint \notin Past(p, m)
           /\ \A p, m : Past(p, m) \subseteq Wanting(p, m)
<1>1. /\ nextEndpoint \in 1 .. Len(service) /\ service \in Seq(Endpoints)
      /\ nextEndpoint' = nextEndpoint + 1
      /\ UNCHANGED <<routerKind, service, health, autoOptions>>
  BY DEF RegisterNext, Fixed, RoutersIInv, InputInv
<1>2. Len(service) \in Nat /\ nextEndpoint \in Nat /\ Next1 \in Endpoints
  BY <1>1 DEF Next1
<1>3. 1 .. nextEndpoint' - 1 = 1 .. (nextEndpoint - 1) \cup {nextEndpoint}
      /\ 1 .. (nextEndpoint - 1) \subseteq 1 .. Len(service)
      /\ nextEndpoint \notin 1 .. (nextEndpoint - 1)
  <2>1. nextEndpoint' - 1 = nextEndpoint
    BY <1>1, <1>2
  <2> QED
    BY <1>1, <1>2, <2>1
<1>4. /\ \A p, m : (p = Next1.path /\ m = ToTitle(Next1.method)) =>
             Past(p, m)' = Past(p, m) \cup {nextEndpoint}
      /\ \A p, m : (p # Next1.path \/ m # ToTitle(Next1.method)) => Past(p, m)' = Past(p, m)
  <2>1. ASSUME NEW p, NEW m
        PROVE  \A x : x \in Past(p, m)' <=>
                      \/ x \in Past(p, m)
                      \/ x = nextEndpoint /\ p = Next1.path /\ m = ToTitle(Next1.method)
    <3>1. Past(p, m)' = {x \in 1 .. nextEndpoint' - 1 :
                            service[x].path = p /\ ToTitle(service[x].method) = m}
      BY <1>1 DEF Past, WantingBelow
    <3>2. Past(p, m) = {x \in 1 .. nextEndpoint - 1 :
                           service[x].path = p /\ ToTitle(service[x].method) = m}
      BY DEF Past, WantingBelow
    <3> QED
      BY <1>3, <3>1, <3>2 DEF Next1
  <2>2. ASSUME NEW p, NEW m, p = Next1.path, m = ToTitle(Next1.method)
        PROVE  Past(p, m)' = Past(p, m) \cup {nextEndpoint}
    <3>1. \A x : x \in Past(p, m)' <=> x \in Past(p, m) \/ x = nextEndpoint
      BY <2>1, <2>2
    <3> QED
      BY <3>1
  <2>3. ASSUME NEW p, NEW m, p # Next1.path \/ m # ToTitle(Next1.method)
        PROVE  Past(p, m)' = Past(p, m)
    <3>1. \A x : x \in Past(p, m)' <=> x \in Past(p, m)
      BY <2>1, <2>3
    <3> QED
      BY <3>1
  <2> QED
    BY <2>2, <2>3
<1>5. \A p, m : nextEndpoint \notin Past(p, m) /\ Past(p, m) \subseteq Wanting(p, m)
  BY <1>3 DEF Past, WantingBelow, Wanting
<1>6. nextEndpoint \in Wanting(Next1.path, ToTitle(Next1.method))
  BY <1>1 DEF Wanting, Next1
<1> QED
  BY <1>1, <1>2, <1>4, <1>5, <1>6, EndpointFields

\* A turn that registers nothing: the method is not supported, or the proxy is
\* not there and the router is not gin.
LEMMA SkipIInv ==
    ASSUME RoutersIInv, RegisterNext, UNCHANGED <<routersPc, routes, urlCatalog>>,
           \/ ToTitle(Next1.method) \notin Supported
           \/ routerKind # "gin" /\ ~Next1.builds
    PROVE  RoutersIInv'
<1>1. routersPc = "register"
  BY DEF RegisterNext
<1>2. InputInv'
  BY <1>1, NextFacts DEF RoutersIInv, InputInv
<1>3. TableInv' /\ CatalogInv' /\ OptionsInv'
  BY <1>1 DEF RoutersIInv, TableInv, CatalogInv, OptionsInv
<1>4. GinInv'
  <2> SUFFICES ASSUME routerKind = "gin" PROVE GinInv'
    BY NextFacts DEF GinInv
  <2>1. \A p, m : m \in Supported => Past(p, m)' = Past(p, m)
    BY NextFacts
  <2>2. \A p \in EndpointPaths, m \in Supported : GinRoute(p, m)'
    BY <1>1, <2>1, NextFacts DEF RoutersIInv, GinInv, GinRoute, HandlerOf
  <2>3. \A p : Methods(p)' = Methods(p)
    BY <2>1 DEF Methods
  <2>4. \A p \in EndpointPaths : GinCatalog(p)'
    BY <1>1, <2>3 DEF RoutersIInv, GinInv, GinCatalog
  <2> QED
    BY <1>1, <2>2, <2>4, NextFacts DEF RoutersIInv, GinInv
<1>5. OtherInv'
  <2> SUFFICES ASSUME routerKind # "gin", NEW p \in EndpointPaths, NEW m \in Supported
               PROVE  OtherRoute(p, m)'
    BY NextFacts DEF OtherInv
  <2>1. PastBuilt(p, m)' = PastBuilt(p, m)
    <3>1. CASE p # Next1.path \/ m # ToTitle(Next1.method)
      BY <3>1, NextFacts DEF PastBuilt
    <3>2. CASE p = Next1.path /\ m = ToTitle(Next1.method)
      BY <3>2, NextFacts DEF PastBuilt, Next1
    <3> QED
      BY <3>1, <3>2
  <2> QED
    BY <2>1, NextFacts DEF RoutersIInv, OtherInv, OtherRoute
<1> QED
  BY <1>2, <1>3, <1>4, <1>5 DEF RoutersIInv

\* gin panics at a route that is taken.
LEMMA PanicIInv ==
    ASSUME RoutersIInv, RegisterNext, ToTitle(Next1.method) \in Supported,
           Taken(Next1.path, ToTitle(Next1.method)),
           routersPc' = "panicked", UNCHANGED <<routes, urlCatalog>>
    PROVE  RoutersIInv'
<1> DEFINE p == Next1.path
           m == ToTitle(Next1.method)
           W == Wanting(p, m)
<1>1. /\ routersPc = "register" /\ routerKind = "gin" /\ <<p, m>> \in DOMAIN routes
      /\ p \in EndpointPaths /\ m \in Supported /\ nextEndpoint \in W
      /\ Past(p, m) \subseteq W /\ nextEndpoint \notin Past(p, m)
  BY NextFacts DEF RegisterNext, Taken
<1>2. IsFiniteSet(W)
  BY WantingIsFinite DEF RoutersIInv, InputInv
<1>3. GinRoute(p, m)
  BY <1>1 DEF RoutersIInv, GinInv
<1>4. Cardinality(W) \in Nat /\ Cardinality(W) >= 1
      /\ \A x \in W : x # nextEndpoint => Cardinality(W) > 1
  BY <1>1, <1>2, TwoAreMore
<1>5. Cardinality(W) + (IF <<p, m>> = <<health, "GET">> THEN 1 ELSE 0) > 1
  <2>1. CASE <<p, m>> = <<health, "GET">>
    BY <1>4, <2>1
  <2>2. CASE <<p, m>> # <<health, "GET">>
    BY <1>1, <1>3, <1>4, <2>2 DEF GinRoute
  <2> QED
    BY <2>1, <2>2
<1>6. Clash
  BY <1>1, <1>5 DEF Clash
<1>7. Clash'
  <2>1. \A q, k : Wanting(q, k)' = Wanting(q, k)
    BY NextFacts DEF Wanting
  <2> QED
    BY <1>6, <2>1, NextFacts DEF Clash
<1>8. InputInv'
  BY <1>1, <1>7, NextFacts DEF RoutersIInv, InputInv
<1> QED
  BY <1>1, <1>8, NextFacts DEF RoutersIInv, TableInv, CatalogInv, OptionsInv, GinInv, OtherInv

\* gin registers an endpoint at a route that is free, and catalogues it.
LEMMA GinRegisterIInv ==
    ASSUME RoutersIInv, RegisterNext, routerKind = "gin", routersPc' = routersPc,
           NEW p, NEW m, p = Next1.path, m = ToTitle(Next1.method), m \in Supported,
           <<p, m>> \notin DOMAIN routes,
           routes' = With(routes, <<p, m>>, HandlerOf(nextEndpoint)),
           urlCatalog' = Catalog(p, m)
    PROVE  RoutersIInv'
<1>1. /\ routersPc = "register" /\ p \in EndpointPaths
      /\ nextEndpoint \in 1 .. Len(service) /\ Len(service) \in Nat
      /\ UNCHANGED <<routerKind, service, health, autoOptions>>
      /\ Past(p, m)' = Past(p, m) \cup {nextEndpoint} /\ nextEndpoint \notin Past(p, m)
      /\ \A q, k : (q # p \/ k # m) => Past(q, k)' = Past(q, k)
  BY NextFacts DEF RegisterNext
<1>2. GinRoute(p, m) /\ Past(p, m) = {} /\ <<p, m>> # <<health, "GET">>
  BY <1>1 DEF RoutersIInv, GinInv, GinRoute
<1>3. /\ DOMAIN routes' = DOMAIN routes \cup {<<p, m>>}
      /\ routes'[<<p, m>>] = HandlerOf(nextEndpoint)
      /\ \A r \in DOMAIN routes : routes'[r] = routes[r]
  BY DEF With
<1>4. \A x : HandlerOf(x)' = HandlerOf(x)
  BY <1>1 DEF HandlerOf
<1>5. InputInv'
  BY <1>1, NextFacts DEF RoutersIInv, InputInv
<1>6. TableInv'
  <2>1. HandlerOf(nextEndpoint) \in Handlers /\ HandlerOf(nextEndpoint).kind # "options"
    <3>1. nextEndpoint \in 0 .. MaxEndpoints
      BY <1>1, MaxEndpointsAssumption DEF RoutersIInv, InputInv
    <3> QED
      BY <3>1 DEF HandlerOf, EndpointHandler, proxyBuildFailedHandler, Handlers
  <2>2. <<p, m>> \in Routes
    BY <1>1 DEF Routes, Verbs
  <2> QED
    BY <1>1, <1>3, <2>1, <2>2 DEF RoutersIInv, TableInv
<1>7. \A q \in EndpointPaths, k \in Supported : GinRoute(q, k)'
  <2> SUFFICES ASSUME NEW q \in EndpointPaths, NEW k \in Supported PROVE GinRoute(q, k)'
    OBVIOUS
  <2>1. CASE q = p /\ k = m
    BY <1>1, <1>2, <1>3, <1>4, <2>1 DEF GinRoute
  <2>2. CASE q # p \/ k # m
    <3>1. GinRoute(q, k) /\ <<q, k>> # <<p, m>>
      BY <1>1, <2>2 DEF RoutersIInv, GinInv
    <3>2. Past(q, k)' = Past(q, k) /\ (<<q, k>> \in DOMAIN routes' <=> <<q, k>> \in DOMAIN routes)
      BY <1>1, <1>3, <2>2, <3>1
    <3> QED
      BY <1>1, <1>3, <1>4, <3>1, <3>2 DEF GinRoute
  <2> QED
    BY <2>1, <2>2
<1>8. \A q \in EndpointPaths : GinCatalog(q)' /\ (q \in DOMAIN urlCatalog' => urlCatalog'[q] \in Seq(Supported))
  <2> SUFFICES ASSUME NEW q \in EndpointPaths
               PROVE  GinCatalog(q)' /\ (q \in DOMAIN urlCatalog' => urlCatalog'[q] \in Seq(Supported))
    OBVIOUS
  <2>1. DOMAIN urlCatalog' = DOMAIN urlCatalog \cup {p}
        /\ \A r \in DOMAIN urlCatalog : r # p => urlCatalog'[r] = urlCatalog[r]
    BY DEF Catalog, With
  <2>2. GinCatalog(q)
    BY <1>1 DEF RoutersIInv, GinInv
  <2>3. CASE q # p
    <3>1. Methods(q)' = Methods(q)
      BY <1>1, <2>3 DEF Methods
    <3> QED
      BY <2>1, <2>2, <2>3, <3>1 DEF GinCatalog
  <2>4. CASE q = p
    <3>1. Methods(q)' = Methods(q) \cup {m} /\ m \notin Methods(q)
      BY <1>1, <1>2, <2>4 DEF Methods
    <3>2. IsFiniteSet(Methods(q))
      <4>1. IsFiniteSet({"GET"})
        BY FS_Singleton
      <4>2. IsFiniteSet({"GET"} \cup {"POST"})
        BY <4>1, FS_AddElement
      <4>3. Methods(q) \subseteq {"GET"} \cup {"POST"}
        BY DEF Methods, Supported
      <4> QED
        BY <4>2, <4>3, FS_Subset
    <3>3. Cardinality(Methods(q)') = Cardinality(Methods(q)) + 1
      BY <3>1, <3>2, FS_AddElement
    <3>4. CASE q \in DOMAIN urlCatalog
      <4>1. urlCatalog'[q] = Append(urlCatalog[q], m)
        BY <2>4, <3>4 DEF Catalog, With
      <4> DEFINE old == urlCatalog[q]
                 new == Append(old, m)
      <4>2. old \in Seq(Supported) /\ ToSet(old) = Methods(q)
            /\ Len(old) = Cardinality(Methods(q))
        BY <2>2, <3>4 DEF GinCatalog
      <4> HIDE DEF old
      <4>3. /\ new \in Seq(Supported) /\ Len(new) = Len(old) + 1
            /\ DOMAIN old = 1 .. Len(old) /\ DOMAIN new = 1 .. Len(old) + 1
            /\ \A x \in 1 .. Len(old) : new[x] = old[x]
            /\ new[Len(old) + 1] = m /\ Len(old) \in Nat
        BY <4>2
      <4> HIDE DEF new
      <4>4. ToSet(new) = ToSet(old) \cup {m}
        <5>1. 1 .. Len(old) + 1 = 1 .. Len(old) \cup {Len(old) + 1}
          BY <4>3
        <5> QED
          BY <4>3, <5>1 DEF ToSet
      <4>5. urlCatalog'[q] = new
        BY <4>1 DEF new, old
      <4> QED
        BY <2>1, <2>4, <3>1, <3>3, <4>2, <4>3, <4>4, <4>5 DEF GinCatalog
    <3>5. CASE q \notin DOMAIN urlCatalog
      <4>1. urlCatalog'[q] = <<m>>
        BY <2>4, <3>5 DEF Catalog, With
      <4>2. Methods(q) = {} /\ Cardinality(Methods(q)) = 0
        BY <2>2, <3>5, FS_EmptySet DEF GinCatalog
      <4>3. <<m>> \in Seq(Supported) /\ Len(<<m>>) = 1 /\ ToSet(<<m>>) = {m}
        BY DEF ToSet
      <4> QED
        BY <2>1, <2>4, <3>1, <3>3, <4>1, <4>2, <4>3 DEF GinCatalog
    <3> QED
      BY <3>4, <3>5
  <2> QED
    BY <2>3, <2>4
<1>9. GinInv'
  BY <1>1, <1>3, <1>7, <1>8 DEF RoutersIInv, GinInv
<1>10. CatalogInv'
  <2>1. DOMAIN urlCatalog' = DOMAIN urlCatalog \cup {p}
    BY DEF Catalog, With
  <2> QED
    BY <1>1, <1>8, <2>1 DEF RoutersIInv, CatalogInv
<1> QED
  BY <1>1, <1>5, <1>6, <1>9, <1>10 DEF RoutersIInv, OtherInv, OptionsInv

\* The others register one that has been built; gorilla keeps the first.
LEMMA OtherRegisterIInv ==
    ASSUME RoutersIInv, RegisterNext, routerKind # "gin", Next1.builds,
           UNCHANGED <<routersPc, urlCatalog>>,
           NEW p, NEW m, p = Next1.path, m = ToTitle(Next1.method), m \in Supported,
           IF routerKind = "gorilla" /\ <<p, m>> \in DOMAIN routes THEN UNCHANGED routes
           ELSE routes' = With(routes, <<p, m>>, EndpointHandler(nextEndpoint))
    PROVE  RoutersIInv'
<1>1. /\ routersPc = "register" /\ p \in EndpointPaths
      /\ nextEndpoint \in 1 .. Len(service) /\ Len(service) \in Nat
      /\ UNCHANGED <<routerKind, service, health, autoOptions>>
      /\ Past(p, m)' = Past(p, m) \cup {nextEndpoint} /\ nextEndpoint \notin Past(p, m)
      /\ \A q, k : (q # p \/ k # m) => Past(q, k)' = Past(q, k)
  BY NextFacts DEF RegisterNext
<1>2. /\ PastBuilt(p, m)' = PastBuilt(p, m) \cup {nextEndpoint}
      /\ \A q, k : (q # p \/ k # m) => PastBuilt(q, k)' = PastBuilt(q, k)
      /\ \A x \in PastBuilt(p, m) : x \in Nat /\ x < nextEndpoint
  <2>1. \A x \in Past(p, m) : x \in 1 .. nextEndpoint - 1
    BY DEF Past, WantingBelow
  <2> QED
    BY <1>1, <2>1 DEF PastBuilt, Next1
<1>3. /\ DOMAIN routes' = DOMAIN routes \cup {<<p, m>>}
      /\ \A r \in DOMAIN routes : r # <<p, m>> => routes'[r] = routes[r]
  <2>1. CASE routerKind = "gorilla" /\ <<p, m>> \in DOMAIN routes
    BY <2>1
  <2>2. CASE ~(routerKind = "gorilla" /\ <<p, m>> \in DOMAIN routes)
    BY <2>2 DEF With
  <2> QED
    BY <2>1, <2>2
<1>4. /\ routes'[<<p, m>>] = routes[<<p, m>>] /\ <<p, m>> \in DOMAIN routes
         /\ routerKind = "gorilla"
      \/ /\ routes'[<<p, m>>] = EndpointHandler(nextEndpoint)
         /\ (routerKind = "gorilla" => <<p, m>> \notin DOMAIN routes)
  BY DEF With
<1>5. InputInv'
  BY <1>1, NextFacts DEF RoutersIInv, InputInv
<1>6. TableInv'
  <2>1. EndpointHandler(nextEndpoint) \in Handlers
        /\ EndpointHandler(nextEndpoint).kind # "options"
    <3>1. nextEndpoint \in 0 .. MaxEndpoints
      BY <1>1, MaxEndpointsAssumption DEF RoutersIInv, InputInv
    <3> QED
      BY <3>1 DEF EndpointHandler, Handlers
  <2>2. <<p, m>> \in Routes
    BY <1>1 DEF Routes, Verbs
  <2>3. ASSUME NEW r \in DOMAIN routes'
        PROVE  routes'[r] \in Handlers /\ r[2] \in Supported
    <3>1. CASE r = <<p, m>>
      BY <1>1, <1>4, <2>1, <3>1 DEF RoutersIInv, TableInv
    <3>2. CASE r # <<p, m>>
      BY <1>1, <1>3, <2>3, <3>2 DEF RoutersIInv, TableInv
    <3> QED
      BY <3>1, <3>2
  <2> QED
    BY <1>3, <2>2, <2>3 DEF RoutersIInv, TableInv
<1>7. OtherInv'
  <2> SUFFICES ASSUME NEW q \in EndpointPaths, NEW k \in Supported PROVE OtherRoute(q, k)'
    BY DEF OtherInv
  <2>1. OtherRoute(q, k)
    BY DEF RoutersIInv, OtherInv
  <2>2. CASE q # p \/ k # m
    <3>1. <<q, k>> # <<p, m>>
      BY <2>2
    <3> QED
      BY <1>1, <1>2, <1>3, <2>1, <2>2, <3>1 DEF OtherRoute
  <2>3. CASE q = p /\ k = m
    <3>1. CASE /\ routes'[<<p, m>>] = routes[<<p, m>>] /\ <<p, m>> \in DOMAIN routes
               /\ routerKind = "gorilla"
      BY <1>1, <1>2, <1>3, <2>1, <2>3, <3>1 DEF OtherRoute
    <3>2. CASE /\ routes'[<<p, m>>] = EndpointHandler(nextEndpoint)
               /\ (routerKind = "gorilla" => <<p, m>> \notin DOMAIN routes)
      BY <1>1, <1>2, <1>3, <2>1, <2>3, <3>2 DEF OtherRoute
    <3> QED
      BY <1>4, <3>1, <3>2
  <2> QED
    BY <2>2, <2>3
<1> QED
  BY <1>1, <1>5, <1>6, <1>7 DEF RoutersIInv, GinInv, CatalogInv, OptionsInv

\* What may come of the registration of an endpoint.
Skipped == UNCHANGED <<routersPc, routes, urlCatalog>>
Panics(p, m) == /\ m \in Supported /\ Taken(p, m)
                /\ routersPc' = "panicked" /\ UNCHANGED <<routes, urlCatalog>>
Registers(p, m, h) ==
    /\ m \in Supported /\ ~Taken(p, m) /\ EngineHandle(p, m, h) /\ routersPc' = routersPc
    /\ urlCatalog' = IF routerKind = "gin" THEN Catalog(p, m) ELSE urlCatalog

\* registerKrakendEndpoint, on each of the routers.
LEMMA RegisterIInv ==
    ASSUME RoutersIInv, RegisterNext
    PROVE  RoutersIInv'
<1> DEFINE e == service[nextEndpoint]
<1>1. PICK p, m : p = Next1.path /\ m = ToTitle(Next1.method)
  OBVIOUS
<1>2. e = Next1 /\ e.builds \in BOOLEAN
  BY NextFacts, EndpointFields DEF Next1
<1>3. ASSUME NEW h, NEW total, RegisterEndpoint(e, h, total)
      PROVE  (Skipped /\ m \notin Supported) \/ Panics(p, m) \/ Registers(p, m, h)
  BY <1>1, <1>2, <1>3 DEF RegisterEndpoint, Registrable, IsValidSequentialEndpoint,
                      Skipped, Panics, Registers
<1>4. \/ Skipped /\ m \notin Supported
      \/ Skipped /\ routerKind # "gin" /\ ~e.builds
      \/ Panics(p, m)
      \/ Registers(p, m, HandlerOf(nextEndpoint)) /\ (e.builds \/ routerKind = "gin")
  <2>1. CASE e.builds
    <3>1. RegisterEndpoint(e, EndpointHandler(nextEndpoint), e.backends)
      BY <2>1 DEF RegisterNext
    <3>2. HandlerOf(nextEndpoint) = EndpointHandler(nextEndpoint)
      BY <2>1 DEF HandlerOf
    <3> QED
      BY <1>3, <2>1, <3>1, <3>2
  <2>2. CASE ~e.builds /\ routerKind = "gin"
    <3>1. RegisterEndpoint(e, proxyBuildFailedHandler(nextEndpoint), 1)
      BY <2>2 DEF RegisterNext
    <3>2. HandlerOf(nextEndpoint) = proxyBuildFailedHandler(nextEndpoint)
      BY <2>2 DEF HandlerOf
    <3> QED
      BY <1>3, <2>2, <3>1, <3>2
  <2>3. CASE ~e.builds /\ routerKind # "gin"
    BY <2>3 DEF RegisterNext, Skipped
  <2> QED
    BY <1>2, <2>1, <2>2, <2>3
<1>5. CASE Skipped /\ m \notin Supported
  BY <1>1, <1>2, <1>5, SkipIInv DEF Skipped
<1>8. CASE Skipped /\ routerKind # "gin" /\ ~e.builds
  BY <1>1, <1>2, <1>8, SkipIInv DEF Skipped
<1>6. CASE Panics(p, m)
  BY <1>1, <1>6, PanicIInv DEF Panics
<1>7. CASE Registers(p, m, HandlerOf(nextEndpoint)) /\ (e.builds \/ routerKind = "gin")
  <2>1. CASE routerKind = "gin"
    <3>1. /\ <<p, m>> \notin DOMAIN routes /\ urlCatalog' = Catalog(p, m)
          /\ routes' = With(routes, <<p, m>>, HandlerOf(nextEndpoint))
      BY <1>7, <2>1 DEF Registers, Taken, EngineHandle
    <3> QED
      BY <1>1, <1>7, <2>1, <3>1, GinRegisterIInv DEF Registers
  <2>2. CASE routerKind # "gin"
    <3>1. e.builds /\ HandlerOf(nextEndpoint) = EndpointHandler(nextEndpoint)
      BY <1>7, <2>2 DEF HandlerOf
    <3>2. IF routerKind = "gorilla" /\ <<p, m>> \in DOMAIN routes THEN UNCHANGED routes
          ELSE routes' = With(routes, <<p, m>>, EndpointHandler(nextEndpoint))
      <4>1. CASE routerKind = "mux"
        BY <1>7, <3>1, <4>1 DEF Registers, EngineHandle, BasicHandle
      <4>2. CASE routerKind # "mux" /\ ~(routerKind = "gorilla" /\ <<p, m>> \in DOMAIN routes)
        BY <1>7, <3>1, <4>2 DEF Registers, EngineHandle
      <4>3. CASE routerKind = "gorilla" /\ <<p, m>> \in DOMAIN routes
        BY <1>7, <4>3 DEF Registers, EngineHandle
      <4> QED
        BY <4>1, <4>2, <4>3
    <3> QED
      BY <1>1, <1>2, <1>7, <2>2, <3>1, <3>2, OtherRegisterIInv
         DEF Registers
  <2> QED
    BY <2>1, <2>2
<1> QED
  BY ONLY <1>4, <1>5, <1>6, <1>7, <1>8

\* The OPTIONS routes that come last.
LEMMA OptionsIInv ==
    ASSUME RoutersIInv, RegisterOptions
    PROVE  RoutersIInv'
<1> DEFINE added == {<<p, "OPTIONS">> : p \in DOMAIN urlCatalog}
<1>1. /\ routersPc = "options" /\ routersPc' = "serving" /\ autoOptions /\ routerKind = "gin"
      /\ UNCHANGED <<routerKind, service, health, autoOptions, nextEndpoint, urlCatalog>>
      /\ DOMAIN urlCatalog \subseteq EndpointPaths
  BY DEF RegisterOptions, Fixed, RoutersIInv, InputInv, CatalogInv
<1>2. /\ DOMAIN routes' = DOMAIN routes \cup added
      /\ \A r \in added : routes'[r] = OptionsHandler(ToSet(urlCatalog[r[1]]))
      /\ \A r \in DOMAIN routes : r \notin added => routes'[r] = routes[r]
  BY DEF RegisterOptions
<1>3. \A p, m : m \in Supported => <<p, m>> \notin added
  BY DEF Supported
<1>4. \A r \in DOMAIN routes : r[2] # "OPTIONS"
  BY <1>1 DEF RoutersIInv, TableInv, Supported
<1>5. InputInv' /\ CatalogInv' /\ OtherInv'
  <2>1. InputInv'
    BY <1>1 DEF RoutersIInv, InputInv
  <2> QED
    BY <1>1, <2>1 DEF RoutersIInv, CatalogInv, OtherInv
<1>6. TableInv'
  <2>1. ASSUME NEW r \in added
        PROVE  r \in Routes /\ routes'[r] \in Handlers /\ routes'[r].kind = "options"
    <3>1. PICK p \in DOMAIN urlCatalog : r = <<p, "OPTIONS">>
      OBVIOUS
    <3>2. r \in Routes /\ r[1] = p
      BY <1>1, <3>1 DEF Routes, Verbs
    <3>3. ToSet(urlCatalog[p]) \subseteq Supported
      BY DEF RoutersIInv, CatalogInv, ToSet
    <3>4. routes'[r] = OptionsHandler(ToSet(urlCatalog[p]))
      BY <1>2, <3>2
    <3> QED
      BY <3>2, <3>3, <3>4, MaxEndpointsAssumption DEF OptionsHandler, Handlers
  <2>2. ASSUME NEW r \in DOMAIN routes'
        PROVE  /\ r \in Routes /\ routes'[r] \in Handlers
               /\ routes'[r].kind # "options" => r[2] \in Supported
    <3>1. CASE r \in added
      BY <2>1, <3>1
    <3>2. CASE r \notin added
      BY <1>2, <3>2 DEF RoutersIInv, TableInv
    <3> QED
      BY <3>1, <3>2
  <2> QED
    BY <1>1, <2>2 DEF TableInv
<1>7. GinInv'
  <2>1. /\ \A r \in DOMAIN routes : r[2] \in Supported
        /\ <<health, "GET">> \in DOMAIN routes /\ routes[<<health, "GET">>] = HealthHandler
    BY <1>1 DEF RoutersIInv, TableInv, GinInv
  <2>2. <<health, "GET">> \in DOMAIN routes' /\ routes'[<<health, "GET">>] = HealthHandler
    BY <1>2, <1>3, <2>1 DEF Supported
  <2>3. ASSUME NEW p \in EndpointPaths, NEW m \in Supported PROVE GinRoute(p, m)'
    <3>1. GinRoute(p, m)
      BY <1>1 DEF RoutersIInv, GinInv
    <3>2. (<<p, m>> \in DOMAIN routes' <=> <<p, m>> \in DOMAIN routes)
          /\ (<<p, m>> \in DOMAIN routes => routes'[<<p, m>>] = routes[<<p, m>>])
      BY <1>2, <1>3
    <3>3. Past(p, m)' = Past(p, m) /\ \A x : HandlerOf(x)' = HandlerOf(x)
      BY <1>1 DEF Past, WantingBelow, HandlerOf
    <3> QED
      BY <1>1, <3>1, <3>2, <3>3 DEF GinRoute
  <2>4. ASSUME NEW p \in EndpointPaths PROVE GinCatalog(p)'
    <3>1. GinCatalog(p) /\ Methods(p)' = Methods(p)
      BY <1>1 DEF RoutersIInv, GinInv, Methods, Past, WantingBelow
    <3> QED
      BY <1>1, <3>1 DEF GinCatalog
  <2> QED
    BY <1>1, <2>2, <2>3, <2>4 DEF GinInv
<1>8. OptionsInv'
  <2> SUFFICES ASSUME NEW p \in EndpointPaths
               PROVE  /\ p \in DOMAIN urlCatalog =>
                            /\ <<p, "OPTIONS">> \in DOMAIN routes'
                            /\ routes'[<<p, "OPTIONS">>] = OptionsHandler(ToSet(urlCatalog[p]))
                      /\ p \notin DOMAIN urlCatalog => <<p, "OPTIONS">> \notin DOMAIN routes'
    BY <1>1 DEF OptionsInv
  <2>1. CASE p \in DOMAIN urlCatalog
    <3>1. <<p, "OPTIONS">> \in added
      BY <2>1
    <3> QED
      BY <1>2, <2>1, <3>1
  <2>2. CASE p \notin DOMAIN urlCatalog
    BY <1>2, <1>4, <2>2
  <2> QED
    BY <2>1, <2>2
<1> QED
  BY <1>5, <1>6, <1>7, <1>8 DEF RoutersIInv

\* The invariant of the routers, for any service.
THEOREM RoutersInvariance == RoutersSpec => []RoutersIInv
<1>1. RoutersIInv /\ [RoutersNext]_routersVars => RoutersIInv'
  <2> SUFFICES ASSUME RoutersIInv, [RoutersNext]_routersVars PROVE RoutersIInv'
    OBVIOUS
  <2>1. CASE RegisterNext
    BY <2>1, RegisterIInv
  <2>2. CASE Registered
    <3>1. /\ routersPc = "register" /\ nextEndpoint > Len(service)
          /\ routersPc' = IF autoOptions THEN "options" ELSE "serving"
          /\ UNCHANGED <<routerKind, service, health, autoOptions, nextEndpoint, routes, urlCatalog>>
      BY <2>2 DEF Registered, Fixed
    <3>2. nextEndpoint = Len(service) + 1
      BY <3>1 DEF RoutersIInv, InputInv
    <3>3. InputInv'
      BY <3>1, <3>2 DEF RoutersIInv, InputInv
    <3>4. TableInv' /\ CatalogInv' /\ OptionsInv'
      BY <3>1 DEF RoutersIInv, InputInv, TableInv, CatalogInv, OptionsInv
    <3>5. /\ \A p, m : /\ GinRoute(p, m)' = GinRoute(p, m)
                      /\ OtherRoute(p, m)' = OtherRoute(p, m)
          /\ \A p : GinCatalog(p)' = GinCatalog(p)
      BY <3>1 DEF GinRoute, OtherRoute, GinCatalog, Methods, PastBuilt, Past, WantingBelow, HandlerOf
    <3>6. GinInv' /\ OtherInv'
      BY <3>1, <3>5 DEF RoutersIInv, GinInv, OtherInv
    <3> QED
      BY <3>3, <3>4, <3>6 DEF RoutersIInv
  <2>3. CASE RegisterOptions
    BY <2>3, OptionsIInv
  <2>4. CASE UNCHANGED routersVars
    <3>1. UNCHANGED <<routerKind, service, health, autoOptions, routersPc, nextEndpoint, routes,
                      urlCatalog>>
      BY <2>4 DEF routersVars
    <3>2. /\ \A p, m : /\ GinRoute(p, m)' = GinRoute(p, m)
                      /\ OtherRoute(p, m)' = OtherRoute(p, m)
          /\ \A p : GinCatalog(p)' = GinCatalog(p)
      BY <3>1 DEF GinRoute, OtherRoute, GinCatalog, Methods, PastBuilt, Past, WantingBelow, HandlerOf
    <3>3. InputInv'
      BY <3>1 DEF RoutersIInv, InputInv, Clash, Wanting
    <3>4. TableInv' /\ CatalogInv' /\ OptionsInv'
      BY <3>1 DEF RoutersIInv, TableInv, CatalogInv, OptionsInv
    <3>5. GinInv' /\ OtherInv'
      BY <3>1, <3>2 DEF RoutersIInv, GinInv, OtherInv
    <3> QED
      BY <3>3, <3>4, <3>5 DEF RoutersIInv
  <2> QED
    BY <2>1, <2>2, <2>3, <2>4 DEF RoutersNext, RoutersFinished
<1> QED
  BY <1>1, RoutersInitially, PTL DEF RoutersSpec

(***************************************************************************)
(* The table holds handlers of the service's own endpoints.                *)
(***************************************************************************)
THEOREM RoutersTypeCorrect == RoutersSpec => []RoutersTypeOK
<1>1. RoutersIInv => RoutersTypeOK
  BY DEF RoutersIInv, InputInv, TableInv, CatalogInv, RoutersTypeOK
<1> QED
  BY <1>1, RoutersInvariance, PTL

(***************************************************************************)
(* For any service: every endpoint is served by itself or by the one that  *)
(* its router prefers, the OPTIONS endpoints list exactly what is served,  *)
(* and gin panics if and only if two handlers want a route                 *)
(* (gin/router.go:140-201, mux/router.go:147-155, mux/engine.go:55-61).    *)
(***************************************************************************)
THEOREM RoutersServe == RoutersSpec => []RoutesAreThoseConfigured
<1>1. RoutersIInv => RoutesAreThoseConfigured
  <2> SUFFICES ASSUME RoutersIInv PROVE RoutesAreThoseConfigured
    OBVIOUS
  <2>1. routersPc = "serving" => \A p, m : Past(p, m) = Wanting(p, m)
    <3> SUFFICES ASSUME routersPc = "serving" PROVE nextEndpoint - 1 = Len(service)
      BY DEF Past, WantingBelow, Wanting
    <3>1. nextEndpoint = Len(service) + 1 /\ Len(service) \in Nat
      BY DEF RoutersIInv, InputInv
    <3> QED
      BY <3>1
  <2>2. EndpointsAreServed
    <3> SUFFICES ASSUME NEW p \in EndpointPaths, NEW m \in Supported, routersPc = "serving",
                        NEW built, built = {x \in Wanting(p, m) : service[x].builds}
                 PROVE  /\ routerKind = "gin" =>
                               \A x \in Wanting(p, m) :
                                   /\ <<p, m>> \in DOMAIN routes
                                   /\ routes[<<p, m>>] = IF x \in built THEN EndpointHandler(x)
                                                         ELSE proxyBuildFailedHandler(x)
                        /\ (routerKind # "gin" /\ built # {}) =>
                               /\ <<p, m>> \in DOMAIN routes
                               /\ routes[<<p, m>>] =
                                      EndpointHandler(IF routerKind = "gorilla" THEN Min(built)
                                                      ELSE Max(built))
                        /\ (routerKind # "gin" /\ built = {}) =>
                               Answer(p, m) \in {"not found", "method not allowed"}
      BY DEF EndpointsAreServed
    <3>1. Past(p, m) = Wanting(p, m) /\ PastBuilt(p, m) = built
      BY <2>1 DEF PastBuilt
    <3>2. built \subseteq Nat
      BY DEF Wanting
    <3>3. CASE routerKind = "gin"
      <4>1. GinRoute(p, m)
        BY <3>3 DEF RoutersIInv, GinInv
      <4>2. ASSUME NEW x \in Wanting(p, m)
            PROVE  /\ <<p, m>> \in DOMAIN routes
                   /\ routes[<<p, m>>] = IF x \in built THEN EndpointHandler(x)
                                         ELSE proxyBuildFailedHandler(x)
        <5>1. x \in Past(p, m) /\ (x \in built <=> service[x].builds)
          BY <3>1
        <5>2. <<p, m>> \in DOMAIN routes /\ routes[<<p, m>>] = HandlerOf(x)
          BY <4>1, <5>1 DEF GinRoute
        <5> QED
          BY <5>1, <5>2 DEF HandlerOf
      <4> QED
        BY <3>3, <4>2
    <3>4. CASE routerKind # "gin" /\ built = {}
      BY <3>1, <3>4 DEF RoutersIInv, OtherInv, OtherRoute, Answer
    <3>5. CASE routerKind # "gin" /\ built # {}
      <4>1. PICK k \in built :
                /\ <<p, m>> \in DOMAIN routes /\ routes[<<p, m>>] = EndpointHandler(k)
                /\ \A x \in built : IF routerKind = "gorilla" THEN k <= x ELSE x <= k
        BY <3>1, <3>5 DEF RoutersIInv, OtherInv, OtherRoute
      <4>2. routerKind = "gorilla" => Min(built) = k
        BY <3>2, <4>1 DEF Min
      <4>3. routerKind # "gorilla" => Max(built) = k
        BY <3>2, <4>1 DEF Max
      <4> QED
        BY <3>5, <4>1, <4>2, <4>3
    <3> QED
      BY <3>3, <3>4, <3>5
  <2>3. AllowIsExact
    <3> SUFFICES ASSUME routersPc = "serving", autoOptions, NEW p \in EndpointPaths
                 PROVE  LET served == {m \in Supported : Answer(p, m) \in {"endpoint", "failed"}}
                        IN  IF served = {} THEN <<p, "OPTIONS">> \notin DOMAIN routes
                            ELSE /\ routes[<<p, "OPTIONS">>] = OptionsHandler(served)
                                 /\ Len(urlCatalog[p]) = Cardinality(served)
      BY DEF AllowIsExact
    <3> DEFINE served == {m \in Supported : Answer(p, m) \in {"endpoint", "failed"}}
    <3>1. routerKind = "gin" /\ GinCatalog(p)
      BY DEF RoutersIInv, InputInv, GinInv
    <3>2. ASSUME NEW m \in Supported
          PROVE  Answer(p, m) \in {"endpoint", "failed"} <=> Past(p, m) # {}
      <4>1. GinRoute(p, m)
        BY <3>1 DEF RoutersIInv, GinInv
      <4>2. CASE Past(p, m) # {}
        <5>1. PICK x \in Past(p, m) : <<p, m>> \in DOMAIN routes /\ routes[<<p, m>>] = HandlerOf(x)
          BY <4>1, <4>2 DEF GinRoute
        <5>2. HandlerOf(x).kind \in {"endpoint", "failed"}
          BY DEF HandlerOf, EndpointHandler, proxyBuildFailedHandler
        <5>3. Answer(p, m) = HandlerOf(x).kind
          BY <5>1 DEF Answer
        <5> QED
          BY <4>2, <5>2, <5>3
      <4>3. CASE Past(p, m) = {}
        BY <3>1, <4>1, <4>3 DEF RoutersIInv, GinInv, GinRoute, Answer, HealthHandler
      <4> QED
        BY <4>2, <4>3
    <3>3. served = Methods(p)
      BY <3>2 DEF Methods
    <3>4. CASE p \in DOMAIN urlCatalog
      BY <3>1, <3>3, <3>4 DEF RoutersIInv, OptionsInv, GinCatalog
    <3>5. CASE p \notin DOMAIN urlCatalog
      BY <3>1, <3>3, <3>5 DEF RoutersIInv, OptionsInv, GinCatalog
    <3> QED
      BY <3>4, <3>5
  <2>4. StartsUnlessClash
    <3>1. (routersPc = "panicked") => routerKind = "gin" /\ Clash
      BY DEF RoutersIInv, InputInv
    <3>2. ASSUME routersPc = "serving", routerKind = "gin", NEW p \in EndpointPaths, NEW m \in Supported
          PROVE  ~(Cardinality(Wanting(p, m)) + (IF <<p, m>> = <<health, "GET">> THEN 1 ELSE 0) > 1)
      <4>1. GinRoute(p, m) /\ Past(p, m) = Wanting(p, m)
        BY <2>1, <3>2 DEF RoutersIInv, GinInv
      <4>2. CASE Wanting(p, m) = {}
        <5>1. Cardinality(Wanting(p, m)) = 0
          BY <4>2, FS_EmptySet
        <5> QED
          BY <5>1
      <4>3. CASE Wanting(p, m) # {}
        <5>1. PICK x \in Wanting(p, m) : TRUE
          BY <4>3
        <5>2. IsFiniteSet(Wanting(p, m))
          BY WantingIsFinite DEF RoutersIInv, InputInv
        <5>3. \A y \in Wanting(p, m) : x = y
          BY <4>1 DEF GinRoute
        <5>4. Cardinality(Wanting(p, m)) = 1
          BY <5>2, <5>3, TwoAreMore
        <5>5. <<p, m>> # <<health, "GET">>
          BY <4>1, <4>3 DEF GinRoute
        <5> QED
          BY <5>4, <5>5
      <4> QED
        BY <4>2, <4>3
    <3> QED
      BY <3>1, <3>2 DEF StartsUnlessClash, Clash
  <2> QED
    BY <2>2, <2>3, <2>4 DEF RoutesAreThoseConfigured
<1> QED
  BY <1>1, RoutersInvariance, PTL

-----------------------------------------------------------------------------
(* From the files of a folder to the chain of a configuration (Plugins)    *)

\* How many files were opened, and which of the first m came to register a name.
Opened == IF pluginsPc = "load" THEN position - 1 ELSE Len(files)
Good(m) == {i \in 1 .. m : files[i].outcome = "registers"}
Having(n, places, m) == {i \in 1 .. m : n \in On(files[i], places)}

\* A register has the last of the first m files for every name.
HasTheLast(f, places, m) ==
    \A n : /\ n \in DOMAIN f <=> Having(n, places, m) # {}
           /\ n \in DOMAIN f => /\ f[n] \in Having(n, places, m)
                                /\ \A i \in Having(n, places, m) : i <= f[n]

FolderInv ==
    /\ files \in Seq(PluginFiles) /\ Len(files) <= MaxFiles
    /\ required \in Seq(PluginNames \cup {NotAString}) /\ Len(required) <= MaxRequired
    /\ pluginKind \in PluginKinds

PlaceInv ==
    /\ pluginsPc \in {"load", "require", "built"} /\ position \in Nat \ {0}
    /\ pluginsPc = "load" => position <= Len(files) + 1
    /\ pluginsPc = "require" => position <= Len(required) + 1
    /\ pluginsPc = "built" => position = Len(required) + 1

RegisteredInv ==
    /\ loaded = Cardinality(Good(Opened)) /\ loaded + errors = Opened
    /\ loaded \in Nat /\ errors \in Nat
    /\ DOMAIN pluginRegister \subseteq PluginNames /\ DOMAIN response \subseteq PluginNames
    /\ HasTheLast(pluginRegister, {"request", "both"}, Opened)
    /\ pluginKind = "modifier" => HasTheLast(response, {"response", "both"}, Opened)
    /\ pluginKind # "modifier" => response = <<>>

\* The entries of the list that were looked up.
Seen == 1 .. position - 1

ChainInv ==
    /\ chain \in Seq(1 .. Len(files)) /\ respModifiers \in Seq(1 .. Len(files))
    /\ pluginsPc = "load" => chain = <<>> /\ respModifiers = <<>>
    /\ pluginsPc # "load" =>
          /\ pluginKind = "modifier" =>
                /\ AreInOrder(required, chain, pluginRegister, Working(pluginRegister) \cap Seen)
                /\ AreInOrder(required, respModifiers, response,
                              Working(response) \cap NotForRequests \cap Seen)
          /\ pluginKind = "server" =>
                AreInOrder(required, Reverse(chain), pluginRegister, Working(pluginRegister) \cap Seen)
          /\ (pluginKind = "client" /\ Len(required) = 1) =>
                AreInOrder(required, chain, pluginRegister, Working(pluginRegister) \cap Seen)
          /\ (pluginKind = "client" /\ Len(required) # 1) => chain = <<>>

PluginsIInv == FolderInv /\ PlaceInv /\ RegisteredInv /\ ChainInv

\* Nothing is in order for no entries.
LEMMA NoneAreInOrder == \A list, f : AreInOrder(list, <<>>, f, {})
<1> TAKE list, f
<1> DEFINE at == [i \in {} |-> i]
<1>1. at \in [DOMAIN <<>> -> {}]
  OBVIOUS
<1>2. Range(at) = {}
  BY DEF Range
<1> QED
  BY <1>1, <1>2 DEF AreInOrder

\* One more entry, after all the others.
LEMMA OneMoreIsInOrder ==
    ASSUME NEW S, NEW list, NEW fs \in Seq(S), NEW f, NEW p \in Nat, NEW chosen \in SUBSET (1 .. p - 1),
           AreInOrder(list, fs, f, chosen), f[list[p]] \in S
    PROVE  AreInOrder(list, Append(fs, f[list[p]]), f, chosen \cup {p})
<1> DEFINE n == Len(fs)
           gs == Append(fs, f[list[p]])
<1>1. PICK at \in [DOMAIN fs -> chosen] :
          /\ Range(at) = chosen
          /\ \A i, j \in DOMAIN fs : i < j => at[i] < at[j]
          /\ \A i \in DOMAIN fs : fs[i] = f[list[at[i]]]
  BY DEF AreInOrder
<1>2. n \in Nat /\ DOMAIN fs = 1 .. n /\ DOMAIN gs = 1 .. n + 1
      /\ gs[n + 1] = f[list[p]] /\ \A i \in 1 .. n : gs[i] = fs[i]
  OBVIOUS
<1> DEFINE to == [i \in 1 .. n + 1 |-> IF i = n + 1 THEN p ELSE at[i]]
<1> HIDE DEF n, gs
<1>3. /\ to[n + 1] = p /\ \A i \in 1 .. n : to[i] = at[i]
      /\ \A i \in 1 .. n : i \in 1 .. n + 1 /\ i # n + 1
      /\ \A i \in 1 .. n + 1 : i = n + 1 \/ i \in 1 .. n
  BY <1>2
<1>4. to \in [DOMAIN gs -> chosen \cup {p}]
  BY <1>1, <1>2, <1>3
<1>5. Range(to) = chosen \cup {p}
  <2>1. \A k \in chosen : \E i \in 1 .. n : at[i] = k
    BY <1>1, <1>2 DEF Range
  <2>2. n + 1 \in 1 .. n + 1 /\ DOMAIN to = 1 .. n + 1
    BY <1>2
  <2> HIDE DEF to
  <2>3. chosen \cup {p} \subseteq Range(to)
    BY <1>3, <2>1, <2>2 DEF Range
  <2>4. Range(to) \subseteq chosen \cup {p}
    BY <1>2, <1>4, <2>2 DEF Range
  <2> QED
    BY <2>3, <2>4
<1> HIDE DEF to
<1>6. ASSUME NEW i \in DOMAIN gs, NEW j \in DOMAIN gs, i < j
      PROVE  to[i] < to[j]
  <2>1. i \in 1 .. n
    BY <1>2, <1>6
  <2>2. at[i] \in 1 .. p - 1 /\ to[i] = at[i]
    BY <1>1, <1>2, <1>3, <2>1
  <2>3. CASE j = n + 1
    BY <1>3, <2>2, <2>3
  <2>4. CASE j \in 1 .. n
    BY <1>1, <1>2, <1>3, <1>6, <2>1, <2>4
  <2> QED
    BY <1>2, <1>3, <2>3, <2>4
<1>7. \A i \in DOMAIN gs : gs[i] = f[list[to[i]]]
  BY <1>1, <1>2, <1>3
<1>8. AreInOrder(list, gs, f, chosen \cup {p})
  BY <1>4, <1>5, <1>6, <1>7 DEF AreInOrder
<1> QED
  BY <1>8 DEF gs

\* To put one in front is to append it to the reverse.
LEMMA ReverseOfFront ==
    ASSUME NEW S, NEW s \in Seq(S), NEW x \in S
    PROVE  /\ <<x>> \o s \in Seq(S) /\ Reverse(s) \in Seq(S)
           /\ Reverse(<<x>> \o s) = Append(Reverse(s), x)
<1> DEFINE n == Len(s)
           t == <<x>> \o s
<1>1. n \in Nat /\ Len(t) = n + 1 /\ t[1] = x /\ \A i \in 1 .. n : t[i + 1] = s[i]
      /\ t \in Seq(S)
  OBVIOUS
<1>2. Reverse(s) \in [1 .. n -> S] /\ Reverse(s) \in Seq(S) /\ Len(Reverse(s)) = n
  <2>1. \A i \in 1 .. n : (n - i) + 1 \in 1 .. n /\ s[(n - i) + 1] \in S
    BY <1>1
  <2>2. Reverse(s) \in [1 .. n -> S]
    BY <2>1 DEF Reverse
  <2> QED
    BY <1>1, <2>2
<1> HIDE DEF t
<1>3. Reverse(t) = [i \in 1 .. n + 1 |-> t[((n + 1) - i) + 1]]
  BY <1>1 DEF Reverse
<1>4. ASSUME NEW i \in 1 .. n + 1
      PROVE  t[((n + 1) - i) + 1] = Append(Reverse(s), x)[i]
  <2>1. CASE i = n + 1
    BY <1>1, <1>2, <2>1
  <2>2. CASE i \in 1 .. n
    <3>1. (n - i) + 1 \in 1 .. n /\ ((n + 1) - i) + 1 = ((n - i) + 1) + 1
      BY <1>1, <2>2
    <3>2. t[((n + 1) - i) + 1] = s[(n - i) + 1]
      BY <1>1, <3>1
    <3>3. Append(Reverse(s), x)[i] = Reverse(s)[i]
      BY <1>2, <2>2
    <3>4. Reverse(s)[i] = s[(n - i) + 1]
      BY <2>2 DEF Reverse
    <3> QED
      BY <3>2, <3>3, <3>4
  <2>3. i = n + 1 \/ i \in 1 .. n
    BY <1>1
  <2> QED
    BY <2>1, <2>2, <2>3
<1>5. Append(Reverse(s), x) \in [1 .. n + 1 -> S]
  <2> DEFINE u == Append(Reverse(s), x)
  <2>1. u \in Seq(S) /\ Len(u) = n + 1
    <3>1. u \in Seq(S)
      BY <1>2
    <3>2. Len(u) = Len(Reverse(s)) + 1
      BY <1>2
    <3> QED
      BY <1>2, <3>1, <3>2
  <2> HIDE DEF u
  <2>2. u \in [1 .. Len(u) -> S]
    BY <2>1
  <2>3. u \in [1 .. n + 1 -> S]
    BY <2>1, <2>2
  <2> QED
    BY <2>3 DEF u
<1>6. Reverse(t) = Append(Reverse(s), x)
  BY <1>3, <1>4, <1>5
<1> QED
  BY <1>1, <1>2, <1>6 DEF t

\* An empty register and no chain.
LEMMA PluginsInitially == PluginsInit => PluginsIInv
<1> SUFFICES ASSUME PluginsInit PROVE PluginsIInv
  OBVIOUS
<1>1. FolderInv
  <2>1. PICK m \in 0 .. MaxFiles : files \in [1 .. m -> PluginFiles]
    BY DEF PluginsInit
  <2>2. PICK k \in 0 .. MaxRequired : required \in [1 .. k -> PluginNames \cup {NotAString}]
    BY DEF PluginsInit
  <2>3. files \in Seq(PluginFiles) /\ Len(files) <= MaxFiles
    BY <2>1, BoundsAssumption
  <2>4. required \in Seq(PluginNames \cup {NotAString}) /\ Len(required) <= MaxRequired
    BY <2>2, BoundsAssumption
  <2> QED
    BY <2>3, <2>4 DEF PluginsInit, FolderInv
<1>2. Len(files) \in Nat /\ Len(required) \in Nat
  BY <1>1 DEF FolderInv
<1>3. pluginsPc = "load" /\ position = 1 /\ loaded = 0 /\ errors = 0
      /\ pluginRegister = <<>> /\ response = <<>> /\ chain = <<>> /\ respModifiers = <<>>
  BY DEF PluginsInit
<1>4. PlaceInv
  BY <1>2, <1>3 DEF PlaceInv
<1>5. RegisteredInv
  <2>1. Opened = 0 /\ Good(0) = {} /\ DOMAIN <<>> = {} /\ \A n, places : Having(n, places, 0) = {}
    BY <1>3 DEF Opened, Good, Having
  <2>2. Cardinality({}) = 0
    BY FS_EmptySet
  <2>3. \A places : HasTheLast(<<>>, places, 0)
    BY <2>1 DEF HasTheLast
  <2>4. DOMAIN <<>> \subseteq PluginNames
    OBVIOUS
  <2>5. loaded = Cardinality(Good(Opened)) /\ loaded + errors = Opened
    <3>1. Good(Opened) = {}
      BY <2>1, Zenon
    <3>2. Cardinality(Good(Opened)) = 0
      BY <2>2, <3>1, Zenon
    <3> QED
      BY <1>3, <2>1, <3>2
  <2>6. \A places : HasTheLast(pluginRegister, places, Opened) /\ HasTheLast(response, places, Opened)
    BY <1>3, <2>1, <2>3
  <2> QED
    BY <1>3, <2>4, <2>5, <2>6 DEF RegisteredInv
<1>6. ChainInv
  BY <1>3 DEF ChainInv
<1> QED
  BY <1>1, <1>4, <1>5, <1>6 DEF PluginsIInv

\* What a file registers are names of plugins.
LEMMA NamesAreKnown ==
    ASSUME NEW file \in PluginFiles, NEW places
    PROVE  On(file, places) \subseteq PluginNames
<1> DEFINE Entries == [name : PluginNames, on : {"request", "response", "both"}]
<1>1. file.names \in Seq(Entries) /\ (file.outcome = "panics" => file.names # <<>>)
  BY PluginFilesAssumption
<1>2. RegisteredBy(file) \in Seq(Entries)
  <2>1. CASE file.outcome = "registers"
    BY <1>1, <2>1 DEF RegisteredBy
  <2>2. CASE file.outcome = "panics"
    <3>1. Len(file.names) \in Nat /\ Len(file.names) >= 1
      BY <1>1, <2>2
    <3>2. ASSUME NEW s \in Seq(Entries), Len(s) >= 1
          PROVE  SubSeq(s, 1, 1) \in Seq(Entries)
      <4> HIDE DEF Entries
      <4>1. \A i \in 1 .. 1 : s[i] \in Entries
        BY <3>2
      <4> QED
        BY <4>1, SubSeqProperties
    <3>3. SubSeq(file.names, 1, 1) \in Seq(Entries)
      BY <1>1, <3>1, <3>2
    <3> QED
      BY <2>2, <3>3 DEF RegisteredBy
  <2>3. CASE file.outcome \notin {"registers", "panics"}
    BY <2>3 DEF RegisteredBy
  <2> QED
    BY <2>1, <2>2, <2>3
<1>3. ToSet(RegisteredBy(file)) \subseteq Entries
  <2> HIDE DEF Entries
  <2>1. \A s \in Seq(Entries) : \A i \in DOMAIN s : s[i] \in Entries
    OBVIOUS
  <2>2. \A s \in Seq(Entries) : ToSet(s) \subseteq Entries
    BY <2>1 DEF ToSet
  <2> QED
    BY <1>2, <2>2
<1> QED
  BY <1>3 DEF On

\* A file puts its names into the register over those of the files before.
LEMMA TheLastOverwrites ==
    ASSUME NEW f, NEW places, NEW p \in Nat \ {0}, HasTheLast(f, places, p - 1)
    PROVE  HasTheLast(Overwrite(f, On(files[p], places), p), places, p)
<1> DEFINE names == On(files[p], places)
           g == Overwrite(f, names, p)
<1>1. DOMAIN g = DOMAIN f \cup names
      /\ \A n \in DOMAIN f \cup names : g[n] = IF n \in names THEN p ELSE f[n]
  BY DEF Overwrite
<1>2. \A i \in 1 .. p - 1 : i \in 1 .. p /\ i < p
  OBVIOUS
<1>3. p \in 1 .. p /\ \A i \in 1 .. p : i = p \/ i \in 1 .. p - 1
  OBVIOUS
<1>4. \A n : /\ n \in names => p \in Having(n, places, p) /\ \A i \in Having(n, places, p) : i <= p
             /\ n \notin names => Having(n, places, p) = Having(n, places, p - 1)
  BY <1>2, <1>3 DEF Having
<1> HIDE DEF names, g
<1>5. \A n : /\ n \in DOMAIN f <=> Having(n, places, p - 1) # {}
             /\ n \in DOMAIN f => /\ f[n] \in Having(n, places, p - 1)
                                  /\ \A i \in Having(n, places, p - 1) : i <= f[n]
  BY DEF HasTheLast
<1>6. \A n : /\ n \in DOMAIN g <=> Having(n, places, p) # {}
             /\ n \in DOMAIN g => /\ g[n] \in Having(n, places, p)
                                  /\ \A i \in Having(n, places, p) : i <= g[n]
  <2> TAKE n
  <2>1. CASE n \in names
    BY <1>1, <1>4, <2>1
  <2>2. CASE n \notin names
    <3>1. n \in DOMAIN g <=> n \in DOMAIN f
      BY <1>1, <2>2
    <3>2. n \in DOMAIN g => g[n] = f[n]
      BY <1>1, <2>2, <3>1
    <3> QED
      BY <1>4, <1>5, <2>2, <3>1, <3>2
  <2> QED
    BY <2>1, <2>2
<1> QED
  BY <1>6 DEF HasTheLast, g, names

\* The loader opens the next file: it registers, fails or panics.
LEMMA OpenIInv ==
    ASSUME PluginsIInv, Open
    PROVE  PluginsIInv'
<1>1. /\ pluginsPc = "load" /\ pluginsPc' = "load" /\ position' = position + 1
      /\ UNCHANGED <<pluginKind, files, required, chain, respModifiers>>
      /\ position \in Nat \ {0} /\ position <= Len(files) /\ Len(files) \in Nat
      /\ files \in Seq(PluginFiles) /\ position \in 1 .. Len(files)
      /\ pluginKind \in PluginKinds
  BY DEF Open, PluginsFixed, PluginsIInv, FolderInv, PlaceInv
<1>2. files[position] \in PluginFiles
  BY <1>1
<1>3. Opened = position - 1 /\ Opened' = position
  BY <1>1 DEF Opened
<1>4. \A file, places : On(file, places)' = On(file, places)
  BY <1>1 DEF On, RegisteredBy
<1>5. FolderInv' /\ PlaceInv' /\ ChainInv'
  BY <1>1 DEF FolderInv, PlaceInv, ChainInv, PluginsIInv
<1>6. \A f, places, m : HasTheLast(f, places, m)' <=> HasTheLast(f, places, m)
  BY <1>1, <1>4 DEF HasTheLast, Having
<1>7. /\ loaded' = Cardinality(Good(Opened))' /\ loaded' + errors' = Opened'
      /\ loaded' \in Nat /\ errors' \in Nat
  <2>1. /\ loaded = Cardinality(Good(position - 1)) /\ loaded + errors = position - 1
        /\ loaded \in Nat /\ errors \in Nat
    BY <1>3 DEF PluginsIInv, RegisteredInv
  <2>2. Good(Opened)' = Good(position)
    BY <1>1, <1>3 DEF Good
  <2>3. CASE files[position].outcome = "registers"
    <3>1. loaded' = loaded + 1 /\ errors' = errors
      BY <2>3 DEF Open
    <3>2. Good(position) = Good(position - 1) \cup {position} /\ position \notin Good(position - 1)
      BY <1>1, <2>3 DEF Good
    <3>3. IsFiniteSet(Good(position - 1))
      <4>1. IsFiniteSet(1 .. position - 1)
        BY <1>1, FS_Interval
      <4> QED
        BY <4>1, FS_Subset DEF Good
    <3>4. Cardinality(Good(position)) = Cardinality(Good(position - 1)) + 1
      BY <3>2, <3>3, FS_AddElement
    <3> QED
      BY <1>1, <1>3, <2>1, <2>2, <3>1, <3>4
  <2>4. CASE files[position].outcome # "registers"
    <3>1. loaded' = loaded /\ errors' = errors + 1
      BY <2>4 DEF Open
    <3>2. Good(position) = Good(position - 1)
      BY <1>1, <2>4 DEF Good
    <3> QED
      BY <1>1, <1>3, <2>1, <2>2, <3>1, <3>2
  <2> QED
    BY <2>3, <2>4
<1>8. /\ DOMAIN pluginRegister' \subseteq PluginNames
      /\ HasTheLast(pluginRegister', {"request", "both"}, position)
  <2> DEFINE names == On(files[position], {"request", "both"})
  <2>1. pluginRegister' = Overwrite(pluginRegister, names, position)
    BY DEF Open, Registering
  <2>2. HasTheLast(pluginRegister, {"request", "both"}, position - 1)
        /\ DOMAIN pluginRegister \subseteq PluginNames
    BY <1>3 DEF PluginsIInv, RegisteredInv
  <2>3. names \subseteq PluginNames
    BY <1>2, NamesAreKnown
  <2>4. DOMAIN pluginRegister' = DOMAIN pluginRegister \cup names
    BY <2>1 DEF Overwrite
  <2> QED
    BY <1>1, <2>1, <2>2, <2>3, <2>4, TheLastOverwrites
<1>9. /\ DOMAIN response' \subseteq PluginNames
      /\ pluginKind = "modifier" => HasTheLast(response', {"response", "both"}, position)
      /\ pluginKind # "modifier" => response' = <<>>
  <2>1. CASE pluginKind # "modifier"
    BY <2>1 DEF Open, Registering, PluginsIInv, RegisteredInv
  <2>2. CASE pluginKind = "modifier"
    <3> DEFINE names == On(files[position], {"response", "both"})
    <3>1. response' = Overwrite(response, names, position)
      BY <2>2 DEF Open, Registering
    <3>2. HasTheLast(response, {"response", "both"}, position - 1)
          /\ DOMAIN response \subseteq PluginNames
      BY <1>3, <2>2 DEF PluginsIInv, RegisteredInv
    <3>3. names \subseteq PluginNames
      BY <1>2, NamesAreKnown
    <3>4. DOMAIN response' = DOMAIN response \cup names
      BY <3>1 DEF Overwrite
    <3> QED
      BY <1>1, <2>2, <3>1, <3>2, <3>3, <3>4, TheLastOverwrites
  <2> QED
    BY <2>1, <2>2
<1>10. RegisteredInv'
  <2>1. /\ HasTheLast(pluginRegister, {"request", "both"}, Opened)'
        /\ pluginKind = "modifier" => HasTheLast(response, {"response", "both"}, Opened)'
    BY <1>1, <1>3, <1>4, <1>8, <1>9 DEF HasTheLast, Having
  <2> QED
    BY <1>1, <1>7, <1>8, <1>9, <2>1 DEF RegisteredInv
<1> QED
  BY <1>5, <1>10 DEF PluginsIInv

\* What a step after the loaders leaves alone.
LEMMA RegistersAreKept ==
    ASSUME PluginsIInv, Opened' = Opened,
           UNCHANGED <<pluginKind, files, required, loaded, errors, pluginRegister, response>>
    PROVE  /\ FolderInv' /\ RegisteredInv'
           /\ Working(pluginRegister)' = Working(pluginRegister)
           /\ Working(response)' = Working(response) /\ NotForRequests' = NotForRequests
<1>1. FolderInv'
  BY DEF FolderInv, PluginsIInv
<1>2. \A file, places : On(file, places)' = On(file, places)
  BY DEF On, RegisteredBy
<1>3. Good(Opened)' = Good(Opened)
  BY DEF Good
<1>4. /\ HasTheLast(pluginRegister, {"request", "both"}, Opened)'
            <=> HasTheLast(pluginRegister, {"request", "both"}, Opened)
      /\ HasTheLast(response, {"response", "both"}, Opened)'
            <=> HasTheLast(response, {"response", "both"}, Opened)
  BY <1>2 DEF HasTheLast, Having
<1>5. RegisteredInv'
  BY <1>3, <1>4 DEF RegisteredInv, PluginsIInv
<1> QED
  BY <1>1, <1>5 DEF Working, Makes, NotForRequests

\* All the files were opened.
LEMMA LoadedIInv ==
    ASSUME PluginsIInv, Loaded
    PROVE  PluginsIInv'
<1>1. /\ pluginsPc = "load" /\ pluginsPc' = "require" /\ position' = 1
      /\ position = Len(files) + 1 /\ Len(files) \in Nat /\ Len(required) \in Nat
      /\ UNCHANGED <<pluginKind, files, required, loaded, errors, pluginRegister, response,
                     chain, respModifiers>>
      /\ chain = <<>> /\ respModifiers = <<>>
  BY DEF Loaded, PluginsFixed, PluginsIInv, FolderInv, PlaceInv, ChainInv
<1>2. Opened' = Opened
  BY <1>1 DEF Opened
<1>3. FolderInv' /\ RegisteredInv'
  BY <1>1, <1>2, RegistersAreKept
<1>4. PlaceInv'
  BY <1>1 DEF PlaceInv
<1>5. Seen' = {}
  BY <1>1 DEF Seen
<1>6. \A f : AreInOrder(required', <<>>, f, {})
  BY NoneAreInOrder
<1>7. Reverse(<<>>) = <<>>
  BY DEF Reverse
<1>8. ChainInv'
  <2>1. chain' = <<>> /\ respModifiers' = <<>> /\ Reverse(chain') = <<>>
    BY <1>1, <1>7
  <2>2. \A X : X \cap Seen' = {}
    BY <1>5
  <2>3. /\ AreInOrder(required, chain, pluginRegister, Working(pluginRegister) \cap Seen)'
        /\ AreInOrder(required, respModifiers, response, Working(response) \cap NotForRequests \cap Seen)'
        /\ AreInOrder(required, Reverse(chain), pluginRegister, Working(pluginRegister) \cap Seen)'
    BY <1>6, <2>1, <2>2
  <2> QED
    BY <1>1, <2>1, <2>3 DEF ChainInv
<1> QED
  BY <1>3, <1>4, <1>8 DEF PluginsIInv

\* An entry of the list is looked up.
LEMMA LookingUp ==
    ASSUME NEW S, NEW fs \in Seq(S), NEW f, NEW chosen, position \in Nat \ {0},
           AreInOrder(required, fs, f, chosen \cap Seen),
           position \in chosen => f[required[position]] \in S,
           NEW gs, gs = IF position \in chosen THEN Append(fs, f[required[position]]) ELSE fs
    PROVE  gs \in Seq(S) /\ AreInOrder(required, gs, f, chosen \cap (1 .. position))
<1>1. 1 .. position = Seen \cup {position} /\ Seen = 1 .. position - 1
  BY DEF Seen
<1>2. CASE position \in chosen
  <2>1. chosen \cap (1 .. position) = (chosen \cap Seen) \cup {position}
    BY <1>1, <1>2
  <2>2. chosen \cap Seen \in SUBSET (1 .. position - 1) /\ position \in Nat
    BY <1>1
  <2>3. f[required[position]] \in S
    BY <1>2
  <2>4. AreInOrder(required, Append(fs, f[required[position]]), f, (chosen \cap Seen) \cup {position})
    BY <2>2, <2>3, OneMoreIsInOrder
  <2>5. gs = Append(fs, f[required[position]])
    BY <1>2
  <2>6. gs \in Seq(S)
    BY <2>3, <2>5
  <2> QED
    BY <2>1, <2>4, <2>5, <2>6
<1>3. CASE position \notin chosen
  <2>1. chosen \cap (1 .. position) = chosen \cap Seen
    BY <1>1, <1>3
  <2> QED
    BY <1>3, <2>1
<1> QED
  BY <1>2, <1>3

\* What is known while the list is read.
LEMMA RequiringFacts ==
    ASSUME PluginsIInv, Requiring, Required
    PROVE  /\ pluginsPc = "require" /\ pluginsPc' = "require"
           /\ position \in 1 .. Len(required) /\ position' = position + 1
           /\ Len(required) \in Nat /\ Len(files) \in Nat /\ Seen' = 1 .. position
           /\ PlaceInv' /\ Opened' = Opened
           /\ UNCHANGED <<pluginKind, files, required, loaded, errors, pluginRegister, response>>
           /\ pluginKind \in PluginKinds
           /\ \A n \in DOMAIN pluginRegister : pluginRegister[n] \in 1 .. Len(files)
           /\ pluginKind = "modifier" => \A n \in DOMAIN response : response[n] \in 1 .. Len(files)
<1>1. /\ pluginsPc = "require" /\ pluginsPc' = "require" /\ position' = position + 1
      /\ position \in Nat \ {0} /\ position <= Len(required)
      /\ Len(required) \in Nat /\ Len(files) \in Nat /\ pluginKind \in PluginKinds
      /\ UNCHANGED <<pluginKind, files, required, loaded, errors, pluginRegister, response>>
  BY DEF Requiring, Required, PluginsFixed, PluginsIInv, FolderInv, PlaceInv
<1>2. PlaceInv' /\ Seen' = 1 .. position
  BY <1>1 DEF PlaceInv, Seen
<1>3. Opened = Len(files) /\ Opened' = Len(files)
  BY <1>1 DEF Opened
<1>4. \A n, places : Having(n, places, Len(files)) \subseteq 1 .. Len(files)
  BY DEF Having
<1>5. /\ \A n \in DOMAIN pluginRegister : pluginRegister[n] \in 1 .. Len(files)
      /\ pluginKind = "modifier" => \A n \in DOMAIN response : response[n] \in 1 .. Len(files)
  BY <1>3, <1>4 DEF PluginsIInv, RegisteredInv, HasTheLast
<1> QED
  BY <1>1, <1>2, <1>3, <1>5

\* The next name of the list of modifiers (plugin.go).
LEMMA ModifierIInv ==
    ASSUME PluginsIInv, RequireModifier
    PROVE  PluginsIInv'
<1> DEFINE n == required[position]
           W == Working(pluginRegister)
           R == Working(response) \cap NotForRequests
<1>1. /\ Requiring /\ Required /\ pluginKind = "modifier"
  BY DEF RequireModifier
<1>2. DOMAIN required = 1 .. Len(required)
  BY DEF PluginsIInv, FolderInv
<1>3. /\ position \in DOMAIN required /\ position \in Nat \ {0}
      /\ position \in W <=> n \in DOMAIN pluginRegister /\ Makes(pluginRegister[n])
      /\ position \in R <=> /\ n \in DOMAIN response /\ Makes(response[n])
                            /\ n \notin DOMAIN pluginRegister
  BY <1>1, <1>2, RequiringFacts DEF Working, NotForRequests
<1>4. /\ chain' = IF position \in W THEN Append(chain, pluginRegister[n]) ELSE chain
      /\ respModifiers' = IF position \in R THEN Append(respModifiers, response[n])
                          ELSE respModifiers
  BY <1>3 DEF RequireModifier
<1>5. /\ chain \in Seq(1 .. Len(files)) /\ respModifiers \in Seq(1 .. Len(files))
      /\ AreInOrder(required, chain, pluginRegister, W \cap Seen)
      /\ AreInOrder(required, respModifiers, response, R \cap Seen)
  BY <1>1, RequiringFacts DEF PluginsIInv, ChainInv
<1>6. /\ position \in W => pluginRegister[n] \in 1 .. Len(files)
      /\ position \in R => response[n] \in 1 .. Len(files)
  BY <1>1, <1>3, RequiringFacts
<1>7. FolderInv' /\ RegisteredInv' /\ W' = W /\ R' = R
  BY <1>1, RequiringFacts, RegistersAreKept
<1> HIDE DEF W, R
<1>8. chain' \in Seq(1 .. Len(files)) /\ AreInOrder(required, chain', pluginRegister, W \cap (1 .. position))
  BY <1>3, <1>4, <1>5, <1>6, LookingUp
<1>9. /\ respModifiers' \in Seq(1 .. Len(files))
      /\ AreInOrder(required, respModifiers', response, R \cap (1 .. position))
  BY <1>3, <1>4, <1>5, <1>6, LookingUp
<1>10. ChainInv'
  <2>1. /\ Seen' = 1 .. position /\ pluginsPc' = "require" /\ pluginKind' = "modifier"
        /\ UNCHANGED <<files, required, pluginRegister, response>>
    BY <1>1, RequiringFacts
  <2>2. AreInOrder(required, chain, pluginRegister, W \cap Seen)'
    BY <1>7, <1>8, <2>1
  <2>3. AreInOrder(required, respModifiers, response, R \cap Seen)'
    BY <1>7, <1>9, <2>1
  <2> QED
    BY <1>8, <1>9, <2>1, <2>2, <2>3 DEF ChainInv, W, R
<1> QED
  BY <1>1, <1>7, <1>10, RequiringFacts DEF PluginsIInv

\* The next name of the list of handlers, in front of the others.
LEMMA HandlerIInv ==
    ASSUME PluginsIInv, RequireHandler
    PROVE  PluginsIInv'
<1> DEFINE n == required[position]
           W == Working(pluginRegister)
<1>1. /\ Requiring /\ Required /\ pluginKind = "server" /\ respModifiers' = respModifiers
  BY DEF RequireHandler
<1>2. DOMAIN required = 1 .. Len(required)
  BY DEF PluginsIInv, FolderInv
<1>3. /\ position \in DOMAIN required /\ position \in Nat \ {0}
      /\ position \in W <=> n \in DOMAIN pluginRegister /\ Makes(pluginRegister[n])
  BY <1>1, <1>2, RequiringFacts DEF Working
<1>4. chain' = IF position \in W THEN <<pluginRegister[n]>> \o chain ELSE chain
  BY <1>3 DEF RequireHandler
<1>5. /\ chain \in Seq(1 .. Len(files)) /\ respModifiers \in Seq(1 .. Len(files))
      /\ AreInOrder(required, Reverse(chain), pluginRegister, W \cap Seen)
  BY <1>1, RequiringFacts DEF PluginsIInv, ChainInv
<1>6. position \in W => pluginRegister[n] \in 1 .. Len(files)
  BY <1>1, <1>3, RequiringFacts
<1>7. FolderInv' /\ RegisteredInv' /\ W' = W
  BY <1>1, RequiringFacts, RegistersAreKept
<1> HIDE DEF W
<1>8. /\ chain' \in Seq(1 .. Len(files)) /\ Reverse(chain) \in Seq(1 .. Len(files))
      /\ Reverse(chain') = IF position \in W THEN Append(Reverse(chain), pluginRegister[n])
                           ELSE Reverse(chain)
  <2>1. Reverse(chain) \in Seq(1 .. Len(files))
    <3>1. \A i \in 1 .. Len(chain) : /\ (Len(chain) - i) + 1 \in 1 .. Len(chain)
                                     /\ chain[(Len(chain) - i) + 1] \in 1 .. Len(files)
      BY <1>5
    <3>2. Reverse(chain) \in [1 .. Len(chain) -> 1 .. Len(files)] /\ Len(chain) \in Nat
      BY <1>5, <3>1 DEF Reverse
    <3> QED
      BY <3>2
  <2>2. CASE position \in W
    <3>1. chain' = <<pluginRegister[n]>> \o chain
      BY <1>4, <2>2
    <3> QED
      BY <1>5, <1>6, <2>2, <3>1, ReverseOfFront
  <2>3. CASE position \notin W
    BY <1>4, <1>5, <2>1, <2>3
  <2> QED
    BY <2>2, <2>3
<1>9. AreInOrder(required, Reverse(chain'), pluginRegister, W \cap (1 .. position))
  BY <1>3, <1>5, <1>6, <1>8, LookingUp
<1>10. ChainInv'
  <2>1. /\ Seen' = 1 .. position /\ pluginsPc' = "require" /\ pluginKind' = "server"
        /\ UNCHANGED <<files, required, pluginRegister, response>>
    BY <1>1, RequiringFacts
  <2>2. AreInOrder(required, Reverse(chain), pluginRegister, W \cap Seen)'
    BY <1>7, <1>9, <2>1
  <2> QED
    BY <1>1, <1>5, <1>8, <2>1, <2>2 DEF ChainInv, W
<1> QED
  BY <1>1, <1>7, <1>10, RequiringFacts DEF PluginsIInv

\* The name of the executor of a backend.
LEMMA ExecutorIInv ==
    ASSUME PluginsIInv, RequireExecutor
    PROVE  PluginsIInv'
<1> DEFINE n == required[1]
           W == Working(pluginRegister)
<1>1. /\ Requiring /\ Required /\ pluginKind = "client" /\ respModifiers' = respModifiers
  BY DEF RequireExecutor
<1>2. /\ Seen' = 1 .. position /\ pluginsPc' = "require" /\ pluginKind' = "client"
      /\ UNCHANGED <<files, required, pluginRegister, response>>
      /\ position \in 1 .. Len(required) /\ Len(required) \in Nat
      /\ DOMAIN required = 1 .. Len(required)
  BY <1>1, RequiringFacts DEF PluginsIInv, FolderInv
<1>3. FolderInv' /\ RegisteredInv' /\ W' = W
  BY <1>1, RequiringFacts, RegistersAreKept
<1>4. respModifiers \in Seq(1 .. Len(files))
  BY DEF PluginsIInv, ChainInv
<1>5. CASE Len(required) = 1
  <2>1. position = 1 /\ position \in Nat \ {0} /\ Seen = {}
    BY <1>2, <1>5 DEF Seen
  <2>2. 1 \in W <=> n \in DOMAIN pluginRegister /\ Makes(pluginRegister[n])
    BY <1>2, <1>5 DEF Working
  <2>3. chain' = IF 1 \in W THEN <<pluginRegister[n]>> ELSE <<>>
    BY <1>5, <2>2 DEF RequireExecutor
  <2>4. 1 \in W => pluginRegister[n] \in 1 .. Len(files)
    BY <1>1, <2>2, RequiringFacts
  <2> HIDE DEF W
  <2>5. /\ chain' = IF position \in W THEN Append(<<>>, pluginRegister[required[position]]) ELSE <<>>
        /\ position \in W => pluginRegister[required[position]] \in 1 .. Len(files)
    BY <2>1, <2>3, <2>4
  <2>6. AreInOrder(required, <<>>, pluginRegister, W \cap Seen) /\ <<>> \in Seq(1 .. Len(files))
    <3>1. W \cap Seen = {}
      BY <2>1
    <3>2. AreInOrder(required, <<>>, pluginRegister, W \cap Seen)
      BY <3>1, NoneAreInOrder
    <3>3. <<>> \in Seq(1 .. Len(files))
      OBVIOUS
    <3> QED
      BY <3>2, <3>3
  <2>7. /\ chain' \in Seq(1 .. Len(files))
        /\ AreInOrder(required, chain', pluginRegister, W \cap (1 .. position))
    <3>1. PICK none : none = <<>>
      OBVIOUS
    <3>2. /\ chain' = IF position \in W THEN Append(none, pluginRegister[required[position]])
                      ELSE none
          /\ AreInOrder(required, none, pluginRegister, W \cap Seen)
          /\ none \in Seq(1 .. Len(files))
      BY <2>5, <2>6, <3>1
    <3> QED
      BY <2>1, <2>5, <3>2, LookingUp
  <2>8. AreInOrder(required, chain, pluginRegister, W \cap Seen)'
    BY <1>2, <1>3, <2>7
  <2>9. ChainInv'
    BY <1>1, <1>2, <1>4, <1>5, <2>7, <2>8 DEF ChainInv, W
  <2> QED
    BY <1>1, <1>3, <2>9, RequiringFacts DEF PluginsIInv
<1>6. CASE Len(required) # 1
  <2>1. chain' = <<>> /\ <<>> \in Seq(1 .. Len(files))
    BY <1>6 DEF RequireExecutor
  <2>2. ChainInv'
    BY <1>1, <1>2, <1>4, <1>6, <2>1 DEF ChainInv
  <2> QED
    BY <1>1, <1>3, <2>2, RequiringFacts DEF PluginsIInv
<1> QED
  BY <1>5, <1>6

\* The chain is built, or nothing happens any more.
LEMMA BuiltIInv ==
    ASSUME PluginsIInv, Built \/ PluginsFinished \/ UNCHANGED pluginsVars
    PROVE  PluginsIInv'
<1>1. /\ UNCHANGED <<pluginKind, files, required, loaded, errors, pluginRegister, response,
                     position, chain, respModifiers>>
      /\ \/ pluginsPc = "require" /\ pluginsPc' = "built" /\ position > Len(required)
         \/ pluginsPc' = pluginsPc
  BY DEF Built, PluginsFinished, PluginsFixed, pluginsVars
<1>2. Opened' = Opened /\ Seen' = Seen
  BY <1>1 DEF Opened, Seen
<1>3. /\ FolderInv' /\ RegisteredInv'
      /\ Working(pluginRegister)' = Working(pluginRegister)
      /\ Working(response)' = Working(response) /\ NotForRequests' = NotForRequests
  BY <1>1, <1>2, RegistersAreKept
<1>4. Len(files) \in Nat /\ Len(required) \in Nat
  BY DEF PluginsIInv, FolderInv
<1>5. PlaceInv'
  BY <1>1, <1>4 DEF PluginsIInv, PlaceInv
<1>6. ChainInv'
  BY <1>1, <1>2, <1>3 DEF PluginsIInv, ChainInv
<1> QED
  BY <1>3, <1>5, <1>6 DEF PluginsIInv

\* The invariant of loaders and chains, for any folder and list.
LEMMA PluginsInvariance == PluginsSpec => []PluginsIInv
<1>1. PluginsIInv /\ [PluginsNext]_pluginsVars => PluginsIInv'
  BY OpenIInv, LoadedIInv, ModifierIInv, HandlerIInv, ExecutorIInv, BuiltIInv DEF PluginsNext
<1> QED
  BY <1>1, PluginsInitially, PTL DEF PluginsSpec

(***************************************************************************)
(* Every file is counted as loaded or as an error, registers hold files    *)
(* that exist under the names of plugins, and the chains are made of such  *)
(* files.                                                                  *)
(***************************************************************************)
THEOREM PluginsTypeCorrect == PluginsSpec => []PluginsTypeOK
<1>1. PluginsIInv => PluginsTypeOK
  <2> SUFFICES ASSUME PluginsIInv PROVE PluginsTypeOK
    OBVIOUS
  <2>1. /\ pluginKind \in PluginKinds /\ Len(files) <= MaxFiles /\ Len(files) \in Nat
        /\ Len(required) \in Nat /\ Len(required) <= MaxRequired
        /\ MaxFiles \in Nat /\ MaxRequired \in Nat
    BY BoundsAssumption DEF PluginsIInv, FolderInv
  <2>2. /\ pluginsPc \in {"load", "require", "built"}
        /\ position \in 1 .. MaxFiles + MaxRequired + 1
    BY <2>1 DEF PluginsIInv, PlaceInv
  <2>3. loaded + errors = IF pluginsPc = "load" THEN position - 1 ELSE Len(files)
    BY DEF PluginsIInv, RegisteredInv, Opened
  <2>4. \A n, places, m : Having(n, places, m) \subseteq 1 .. m
    BY DEF Having
  <2>5. Opened \in Nat /\ Opened <= Len(files)
    BY <2>1 DEF Opened, PluginsIInv, PlaceInv
  <2>6. 1 .. Opened \subseteq 1 .. Len(files)
    BY <2>1, <2>5
  <2>7. IsRegister(pluginRegister)
    BY <2>4, <2>6 DEF PluginsIInv, RegisteredInv, HasTheLast, IsRegister
  <2>8. IsRegister(response)
    <3>1. CASE pluginKind = "modifier"
      BY <2>4, <2>6, <3>1 DEF PluginsIInv, RegisteredInv, HasTheLast, IsRegister
    <3>2. CASE pluginKind # "modifier"
      <4>1. response = <<>> /\ DOMAIN <<>> = {}
        BY <3>2 DEF PluginsIInv, RegisteredInv
      <4> QED
        BY <4>1 DEF IsRegister
    <3> QED
      BY <3>1, <3>2
  <2> QED
    BY <2>1, <2>2, <2>3, <2>7, <2>8 DEF PluginsTypeOK, PluginsIInv, ChainInv
<1> QED
  BY <1>1, PluginsInvariance, PTL

\* The greatest of a set is the one that no other exceeds.
LEMMA MaxIs ==
    ASSUME NEW S \in SUBSET Int, NEW m \in S, \A x \in S : x <= m
    PROVE  Max(S) = m
<1>1. \A x \in S : m >= x
  OBVIOUS
<1>2. Max(S) \in S /\ \A y \in S : Max(S) >= y
  BY <1>1 DEF Max
<1>3. Max(S) \in Int /\ m \in Int /\ Max(S) >= m /\ Max(S) <= m
  BY <1>2
<1> HIDE DEF Max
<1> QED
  BY <1>3

(***************************************************************************)
(* For any folder and any list: a file that fails, or panics halfway,      *)
(* costs itself, every name is that of the last file that registered it,   *)
(* and what is required, exists and works is executed in the order of the  *)
(* list, except that a name registered for requests is never looked up     *)
(* among the modifiers of responses (plugin.go:61-66): of a plugin that is *)
(* registered for both the response half is not executed                   *)
(* (modifier.go:118-176, plugin.go:55-73, server.go:56-77).                *)
(***************************************************************************)
THEOREM PluginsOrdered == PluginsSpec => []PluginsAreInOrder
<1>1. PluginsIInv => FilesAreAccountedFor
  <2> SUFFICES ASSUME PluginsIInv, pluginsPc # "load" PROVE FilesAreAccountedFor
    BY DEF FilesAreAccountedFor
  <2> DEFINE H(n, places) == {i \in 1 .. Len(files) : n \in On(files[i], places)}
  <2>1. Opened = Len(files)
    BY DEF Opened
  <2>2. \A n, places : Having(n, places, Len(files)) = H(n, places)
    BY DEF Having
  <2>3. ASSUME NEW f, NEW places, HasTheLast(f, places, Len(files)), NEW n \in PluginNames
        PROVE  IF H(n, places) = {} THEN n \notin DOMAIN f
               ELSE n \in DOMAIN f /\ f[n] = Max(H(n, places))
    <3>1. /\ n \in DOMAIN f <=> H(n, places) # {}
          /\ n \in DOMAIN f => /\ f[n] \in H(n, places)
                               /\ \A i \in H(n, places) : i <= f[n]
      BY <2>2, <2>3 DEF HasTheLast
    <3>2. H(n, places) \in SUBSET Int
      OBVIOUS
    <3> HIDE DEF H
    <3> QED
      BY <3>1, <3>2, MaxIs
  <2>4. loaded = Cardinality({i \in 1 .. Len(files) : files[i].outcome = "registers"})
    BY <2>1 DEF PluginsIInv, RegisteredInv, Good
  <2>5. /\ HasTheLast(pluginRegister, {"request", "both"}, Len(files))
        /\ pluginKind = "modifier" => HasTheLast(response, {"response", "both"}, Len(files))
    BY <2>1 DEF PluginsIInv, RegisteredInv
  <2> QED
    BY <2>3, <2>4, <2>5 DEF FilesAreAccountedFor
<1>2. PluginsIInv => ChainIsAsListed
  <2> SUFFICES ASSUME PluginsIInv, pluginsPc = "built" PROVE ChainIsAsListed
    BY DEF ChainIsAsListed
  <2>1. Seen = 1 .. Len(required) /\ DOMAIN required = 1 .. Len(required)
    BY DEF PluginsIInv, PlaceInv, FolderInv, Seen
  <2>2. /\ \A f : Working(f) \cap Seen = Working(f)
        /\ \A f : Working(f) \cap NotForRequests \cap Seen = Working(f) \cap NotForRequests
    BY <2>1 DEF Working
  <2>3. CASE pluginKind = "modifier"
    BY <2>2, <2>3 DEF PluginsIInv, ChainInv, ChainIsAsListed
  <2>4. CASE pluginKind = "server"
    BY <2>2, <2>4 DEF PluginsIInv, ChainInv, ChainIsAsListed
  <2>5. CASE pluginKind = "client"
    BY <2>2, <2>5 DEF PluginsIInv, ChainInv, ChainIsAsListed
  <2> QED
    BY <2>3, <2>4, <2>5 DEF PluginsIInv, FolderInv, PluginKinds
<1> QED
  BY <1>1, <1>2, PluginsInvariance, PTL DEF PluginsAreInOrder

=============================================================================
