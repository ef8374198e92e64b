# A TLA+ model of the Lura API gateway framework

Lura (`src/`) is a Go framework for API gateways. A client request reaches an
*endpoint*; a router handler turns it into a `proxy.Request` and hands it to a
chain of *proxies* built from the endpoint's configuration. The chain fans the
request out to one or more backends, merges what they answer, and the handler
renders one response. Every element of the chain is a function
`(ctx, request) -> (response, error)`, several of them start goroutines, and all
of them live under a `context` that may end at any moment. That is what this
directory models.

The gateway keeps almost no state between requests (the exceptions are the
registers, the cached hosts of service discovery and the life of the server and of
the async agents), so a module follows one request through one middleware, or the
gateway through its start and its end, and the interesting states are those of the
goroutines and channels they create. The rest are algorithms that decide what is
built (the configuration, the routers, the plugins) or what is made of the data
(the formatter, the request builder): these are checked against a reference
definition over all their small inputs.

## Inventory

| component | state | operations | what is hard | what makes it correct |
|---|---|---|---|---|
| merging middleware (`proxy/merging.go`) | channels `parts`, `failed` (or `out`, `errCh`), the accumulator, for the sequential merger the params and their registry | filter, launch, collect, combine, resolve a replacement, reply | order of the reports, timeout against answer, shared maps | every backend is accounted for once; a complete reply is really complete; a param comes from the backend it names |
| concurrent middleware (`proxy/concurrent.go`) | channels `results`, `failed`, three levels of contexts, streams | spawn, wait, reply, cancel, close | replies while calls still run; cancellation of the winner | a success is not lost; nobody blocks; the reply is usable |
| shadow middleware (`proxy/shadow.go`) | a detached context | clone, spawn, forward | outlives the caller | the shadow never affects the reply, and ends |
| request (`proxy/request.go`) and backend stack (`proxy/factory.go`, `http.go`, `graphql.go`, filters, `balancing.go`) | the `Request`: method, URL, query, headers, params, body | clone, filter, build path, balance, execute | shared maps between clones; order of the middlewares | a map is not written while another goroutine reads it; what a middleware sets reaches the backend |
| formatter, static middleware (`proxy/formatter.go`, `static.go`) | none (pure) | allow, deny, map, group, target; strategies | order of the transformations | agrees with a reference definition |
| service discovery (`sd/`) | the balancer's counter, the cached hosts | `Host`, `Hosts`, refresh | refresh between reading the hosts and choosing one; weights of zero | never indexes out of range; each host gets its turn |
| registers (`register/`) | two levels of locked maps | register, get, add namespace | check, then act | nothing registered is lost |
| HTTP server (`transport/http/server`) | `done` channel, the server | start, serve, shut down | shutdown against a failing listener | `RunServer` returns; no goroutine is left |
| endpoint handlers (`router/mux`, `router/gin`) and renderers | the response headers, the writer | time out, set headers, render or fail | the context may end after the proxy has answered; static data and modifiers come after the merger | only a complete response is marked complete and cached; a failure is told as one |
| request builders (`router/*/endpoint.go`) | the proxy request | take params, headers, query strings | an asterisk anywhere in the list; a shared map | what the endpoint lists is passed on, nothing else |
| routers and engines (`router/*`) | the routes of the engine, the catalog of methods | register, health, OPTIONS, intercept | two endpoints on one path; engines that panic | every valid endpoint is served, by its own handler |
| HTTP client (`proxy/http.go`, `transport/http/client`) and encoding | the body of the request and of the answer | send, judge the status, decode, stream | bodies that break half way | a complete response stands for a whole answer; bodies are closed |
| async agents and backoff (`async/`, `backoff/`) | the error group, the attempt counter | start, retry, report, stop | one agent ends the others; overflow of the wait | a failure reaches the others and the service; waits are positive and bounded |
| configuration (`config/`) | the configuration tree | `Init`: normalise, defaults, inheritance, validation | order of the steps; params counted in several places | what Init accepts has the timeouts, hosts and params it needs |
| plugins (`proxy/plugin`, `transport/http/*/plugin`) | the registers, the chains | load, require, wrap | a file that fails among others; a name registered twice | the chain is the list of the configuration, in its order |
| logging, version | none | | I/O and constants | not modelled |

How they interact: handler -> plugin and static middleware -> (shadow) -> merging
middleware -> per backend: query string filter -> request builder -> concurrent
middleware -> load balancer -> header filter -> GraphQL -> plugin -> HTTP client.
The calls are plain function calls; the merging, concurrent and shadow
middlewares are where one goroutine becomes several. The context is passed down
all the way, with 85% of the endpoint's timeout at the merger and 75% of the
backend's at the concurrent middleware.

`PROJECT.json` lists every component and, under `hazards`, each place of the code
where one of these difficulties bites, with the properties that cover it. Some hazards
have no property: what the code does there is not what one would wish (or what a comment
says), so that the properties can only be stated around it. Their notes say so and name
the property that marks the border.

## Modules

One behaviour of a run is about one part of the system. The parts that share no state
are modelled in modules of their own, with variables of their own, and three modules
put several of them into one run (`MCCalls`, `MCService`, `MCParts`): the variable
`focus` says which part the behaviour is about, the others stay in an initial state.
Nothing is lost by that, since no action of a part reads or writes another part, and a
state space is the sum of those of the parts and not their product. Parts that do
share state are composed inside one module (`Endpoint`, `RequestSharing`,
`LoadBalancer`, `BackendAnswer`, `AsyncAgents`).

| module | models |
|---|---|
| `MergeAccumulator` | responses, `combineData`, `incrementalMergeAccumulator` (values and pure operators) |
| `MergeAccumulatorProofs` | what the accumulator computes: lemmas that the proofs about both mergers share |
| `MergeContract` | abstract specification: what a merger promises its caller |
| `ParallelMerge` | `parallelMerge` with its `requestPart` goroutines |
| `ParallelMergeProofs` | the theorems about `ParallelMerge`, its refinement of `MergeContract` among them |
| `SequentialMerge`, `MCSequentialMerge` | `sequentialMerge` with its replacements, and the endpoint it is checked on |
| `SequentialParams` | the lookup of a dotted replacement in the data of a response |
| `SequentialMergeProofs` | the theorems about `SequentialMerge`, its refinement and `SequentialParams` |
| `Concurrent` | `NewConcurrentMiddlewareWithLogger` and `processConcurrentCall`, with `readCloserWrapper` |
| `ConcurrentProofs` | the theorems about `Concurrent` |
| `Shadow`, `MCShadow` | the shadow middleware: the goroutine that outlives the request, its context over gin's pool |
| `RequestSharing`, `MCRequestSharing` | who reads and writes which part of a request, from the merger down the backend stack |
| `BackendAnswer`, `MCBackendAnswer` | `proxy/http.go`, the status handlers, the decoders, the no-op parser and its stream |
| `Formatter`, `MCFormatter` | the entity formatter: target, allow and deny list, mapping, group |
| `Endpoint`, `MCEndpoint` | the mux and gin handlers and the endpoint's chain: modifiers, flatmap, static data, deadline, headers, renderers |
| `RequestBuilder`, `MCRequestBuilder` | from the client's request to the proxy's, under the params extractor of each router |
| `Routers`, `MCRouters` | `Run` of the gin, mux, chi and gorilla routers up to the start of the server |
| `Server`, `MCServer` | `RunServer`: key pairs, serving, graceful shutdown, over several calls |
| `AsyncAgents`, `MCAsyncAgents` | `AgentStarter.Start`, the group of agents, the goroutine of the health endpoint |
| `Backoff` | the strategies, in integers of a fixed width |
| `ConfigInit`, `MCConfigInit` | `normalize` and `ServiceConfig.Init` |
| `Plugins`, `MCPlugins` | the loaders, and the chains that a configuration makes of plugins |
| `SrvRecords`, `SrvAnswers` | from a DNS SRV answer to the list of instances (pure operators), and every short answer to check them on |
| `LoadBalancer`, `MCLoadBalancer` | the balancers over the fixed and the DNS subscriber with its refresher |
| `Register` | `register.Namespaced` and `register.Untyped` |
| `CallsProofs` | the theorems about `Shadow`, `BackendAnswer`, `SrvRecords`, `LoadBalancer`, `Backoff` and `MCCalls` |
| `ServiceProofs` | the theorems about `Server`, `AsyncAgents`, `Endpoint` and `MCService` |
| `PartsProofs` | the theorems about `RequestSharing`, `RequestBuilder` and `ConfigInit` |
| `RegisterProofs` | the theorems about `Register`, `Routers` and `Plugins` |
| `MCCalls`, `MCService`, `MCParts` | the runs over several parts |

### MergeAccumulator

A backend is its position in the endpoint. The value under a key of a response is
abstracted to the backend that produced it (`Nobody`: no such key), which is
exactly what "whose value survives the merge" needs. `owner` is the identity of
the Go map behind `Response.Data`, `meta` stands for `Metadata` and `Io`.
`combineData` is the default `ResponseCombiner` as the accumulator calls it, with
two parts; `MergeError`, `MergeResponse` and `Result` are the methods.

### ParallelMerge

`pc`, `i`, `proxyCount`, `collected` and `acc` are the locals of the merger's
goroutine; `part[b]` is the program counter of the `requestPart` goroutine of
backend `b`; `parts` and `failed` are the channels. One action per iteration of
the launch loop (`Skip`, `Launch`), per case of the collect loop
(`CollectError`, `CollectResponse`) and per statement of `requestPart` that another
goroutine can observe. `ContextDone` may happen at any time, before the call too.
When both cases of a Go `select` are ready either may be taken, hence
`DeliverTooLate` next to `Deliver`.

### SequentialMerge

The part runs on the merger's own goroutine, so `pc` follows both. `Replace` is one
iteration of the replacement loop. `params` is `request.Params`, `registry` is
`sequentialMergeRegistry`, `received[b]` records the params backend `b` was called
with. `DataOf` is the subtle definition: a part's `Data` is a Go map, and
`combineData` keeps writing into the map of the first part, so `parts[b].Data` is
the *merged* data for the backend whose map it is.

### MergeContract

Each backend comes to an outcome (filtered, failed, answered); the reply must be
justified by the outcomes: it has data iff somebody answered, lists exactly the
failed backends, is complete iff nobody failed, nobody is pending and every answer
is complete (and, if there is anything to merge, has data), and holds for every key
the value of a backend that offered one. Both mergers implement it under the
mapping `outcomeBar`. The contract leaves open which of several offered values wins
(the order of arrival decides).

### Concurrent

`parentDone`, `localDone` and `callDone` are the three levels of contexts.
`processConcurrentCall` is split where another goroutine can observe it: sending
the report and the `cancel()` after it are separate steps, so the middleware can
return between them. `CloseOnCancel` is the goroutine of `NewReadCloserWrapper`.
`req[c]` records whether a call received a clone or the request itself.

### RequestSharing

One request is cloned per backend (`Request.Clone`, which shares everything, or
`CloneRequest`) and once more per concurrent call. A Go map is a reference, so a
request here says for each of its headers, params, query and body *whose object* it
is. An actor is a goroutine: the merger, a part, or a call of a part; `pos` is the
middleware it is about to enter. Each middleware that touches a shared object is one
action, `Touches` says what it reads and writes there, and `NoRace` is that no two
actors that can both move touch the same object, one of them to write. Contexts,
responses and failures are left to `ParallelMerge` and `Concurrent`; here every call
runs its course, which is when the most goroutines hold the request at once.
The configuration `conf` is a variable that never changes, so that one run checks
every endpoint of `SharingConfigs`.

### SrvRecords and LoadBalancer

`SrvRecords` is `resolve` without the lookup: `Sorted` puts each record in its `Place`,
`Preferred` keeps the best priority, `Compact` scales (`Normalize`) and reduces (`Gcd`) the weights, `Instances`
repeats the hosts. A host stands for the pair of target and port. `SrvAnswers` grows
an answer record by record, so that every answer up to `MaxLen` is a state. What the code
does in a loop (`Total`, `Gcd`, Euclid's algorithm) is a recursive function here, which the
provers can follow where they cannot follow a RECURSIVE operator.

`LoadBalancer` runs two kinds of processes: the refresher of `NewDetailedWithScheme`
(`Wake`, a lookup that answers or fails, `Store` under the lock) and the clients, whose
`Host()` is split between taking the hosts (`TakeHosts`: a copy under the read lock, or
`ErrNoHosts`) and choosing one (`RoundRobin`, `Random`), because the cache may be
replaced in between. The zone changes under the refresher's feet and the records of an
answer come in any order. `stored`, `seen`, `turns`, `draws` and `wraps` are history.

### Register

An `Untyped` register is a map under a lock: one action per method. The methods of a
`Namespaced` register look a namespace up and act on what they found without a lock
around the two: `Find` then `Store`, or `Create` then `Publish`. A pointer is the
position of its register in the order of `NewUntyped`. `done` is what was registered,
`early` the part of it whose call overlapped the creation of its namespace by another.

### Shadow

`phase`, `ginCtx` and `callerDone` are the handler's side of a request; `shadow`,
`elapsed` and `sent` the goroutine's. A request takes a context out of the pool
(`Arrive`) and puts it back (`Answer`), after which another request may have it: `holds`
says whose values a context has, and `saw` whose a shadow has read through
`contextWrapper.Value`. `Tick` is the time of the shadow's own deadline, which counts
from its start and is the longest of those its backends were granted. The shadows are built
by the factory of any endpoint, so more deadlines stand below that one (`serviceTimeouts`):
85% of the endpoint's timeout where several shadows are merged, 75% with
`concurrent_calls`. `ShadowIsApart` joins what must hold of a shadow: it is cut by nothing
but these deadlines, sends the body the client sent, and reads the values of the context
it was given, whoever has it by then.

### BackendAnswer

One call: the body of the client's request (absent, or whole or breaking half way, its
length passed on or not: `Content-Length` is one of the headers that are dropped unless
they are listed) may be read into memory for a redirect (`ReadBody`); the backend
takes what it gets (`Execute`); then the deadline, the status handler that the
configuration chose and the decoder of the encoding follow, one action each. `answer`
says what the backend sent: its status, what its body holds, whether it is compressed, as
it says or not, and how far it comes before it breaks (`arrives`): not past the gzip header,
into its first JSON value, past that, or to its end. `MayRead` is how far a read
comes, which the end of the context may shorten; `Wanted` how far a decoder reads: to the end for
a string, past the first value for JSON, whose decoder never looks at what follows.
`closeOnCancel` is the goroutine that closes a stream.

### Endpoint

`PipeReply` is every (response, error) that the chain below may come to: those
`MergeContract` allows a merger, for an endpoint with several backends, and those of
one backend. The chain above is a step per middleware of `proxy/factory.go`, then
come the handler's check of the context, its headers, and the renderer the router has
registered under the output encoding, with its fallback. `w` is what the client sees.
`full` remembers what the backends really did, so that `AnswerIsTrue` relates the
headers at the end to them, over every middleware in between. A response modifier replaces
data, completeness, headers, status and body at once (`Modified` is whatever it may hand
over), and from there on `full` is what it vouches for. Its data may be of a kind no encoder
takes (`opaque`): `RenderFails` is the renderer's error, which comes after the handler has
set its headers. A backend's status is 200, 500 or none; the no-op renderer sends it as it is.

### RequestBuilder and Routers

`RequestBuilder` follows the loop over the list of headers, the headers that the router
adds and the query strings. The value of a header is who wrote it. `shared` says that
the built request has the map of the client's request (`router/mux/endpoint.go:122`).
`Routers` registers the endpoints one after the other; of two
handlers for one route chi and `BasicEngine`, the repository's own, keep the last,
gorilla reaches the first, and gin panics. How the engines that are not in the
repository behave is external.

### Server and AsyncAgents

`Server` is `RunServer` called up to `Runs` times with configurations that share the
slice of key pairs. The serving goroutine is `serving`; `sending` is its block on the
unbuffered `done`. Both cases of the `select` may be ready, so both actions may be taken.
`AsyncAgents` builds and offers the agents one after the other, then runs those that were
taken: an agent connects, again while `ShouldContinue` holds, reports and consumes. The
end of one cancels the others, and `Wait` returns the first error once all have ended. The
agents' loops are not in the repository: an agent that is stopped may return the error of
its context, or none.

### Formatter, SequentialParams, ConfigInit, Backoff, Plugins

Each starts in every input of a set and computes; the property compares the end with a
definition written from what the configuration means. `Formatter` works on
trees, `Rename` takes the entries of the mapping in any order (a Go map), and
the reference (`FormatIsAsConfigured`) is a set of fields, filtered and renamed as a
whole. `SequentialParams` walks a set of paths. `ConfigInit` does a step of `Init`
per action, endpoint by endpoint and backend by backend, and stops at the first error
(the first may be that of the service's address).
`Backoff` wraps at `Width` bits at every operation that Go does in an int or a Duration;
`Intn` is every number that `rand.Intn` may draw (one in `Stride` of them and both ends in
the run, all of them with a `Stride` of 1).
`Plugins` opens the files of a folder in order, then builds the chain of a list of
required names, for the modifiers of a proxy, the executor of a backend or the handlers
of the server.

## Runs

| run | instance | shows |
|---|---|---|
| `ParallelMerge` | 3 backends, 1 key | no send blocks, no report is lost or counted twice, nothing arrives after the reply, a complete reply is true, (nil, nil) iff everything was filtered, merging is monotone, everyone finishes, `MergeContract` is implemented |
| `SequentialMerge` | 3 backends, 3 keys, replacements of two generations, one no-op backend, one blank value | abort rule, origin and stability of the params, termination, `MergeContract` is implemented |
| `Concurrent` | 3 calls of a no-op backend | no send blocks although the middleware leaves early, the request is handed out after the last clone, a success is not lost, a failure is explained, everyone finishes and every body is closed |
| `Calls` | `Shadow` with 2 requests over a pool of 2 contexts; `BackendAnswer` with every status, content and place to break | shadows leave the reply alone, are cut by the deadlines they have and by nothing else, and end; what a complete response holds was sent whole; a refusal is told; streams stay open as long as they must and are closed |
| `LoadBalancer` | 2 clients, 3 hosts, 3 zones, fixed lists of 0, 1 and 3 hosts, both balancers | no index out of range, no stale or invented host, fair turns across refreshes and wraps, the cache follows the zone |
| `Service` | `Endpoint` with every router, encoding, modifier and strategy (288 setups); `Server` with 2 calls of `RunServer` and 2 requests; `AsyncAgents` with 2 agents | headers and body tell the truth about the backends, once; every request is answered; a shutdown cuts nobody it must not, failures of the listener and of the keys are reported, `RunServer` returns; the failure of an agent reaches the others and the service, a connection the health endpoint |
| `Parts` | `Register`, `RequestSharing`, `SrvAnswers`, `Formatter`, `SequentialParams`, `ConfigInit`, `Backoff`, `RequestBuilder`, `Plugins`, `Routers` | one property for each, named below |
| `SequentialAliasing` | as `SequentialMerge`, no blank value | violated: a param that names one backend holds another's value |
| `ConcurrentStream` | 2 calls of a no-op backend | violated: the body of the winner is closed while the caller is there |
| `SharingRace` | `RequestSharing`: deep clones, GraphQL over GET beside a plain backend | violated: the `Query` map is written while another call reads it |
| `SharingGraphQL` | the same | violated: the operation does not reach the backend |
| `EndpointPanic` | `Endpoint`: several backends, flatmap and modifiers | violated: a response modifier is run on no response, and the handler panics |

Properties of `Parts`: `NothingLostOnceKnown` and `KnownStays` (`Register`: nothing is lost
once its namespace is known, and a known namespace keeps its register);
`RequestsAreApart` (no race except on `Query` with GraphQL over GET, every body is read
whole, query strings do not mix); `InstancesStandForTheZone` (ratios are kept, a zone
never loses all its hosts, the list is bounded, the order of the records is irrelevant,
only the best priority is used); `FormatterIsExact`; `LookupIsSound` (a lookup follows
the keys in their order and goes no further than they do); `InitIsSound` (what Init lets
through has a source for each param, a deadline and hosts for each backend; a no-op
endpoint has one backend); `WaitsAreSane` (a wait goes wrong only once a third of what
a Duration can hold, some 97 years, has passed, and the jitter is a third at most); `RequestIsAsListed`;
`PluginsAreInOrder` (a file that fails costs itself, and what a list requires runs in its
order, but for the response half of a name that is registered for both);
`RoutesAreThoseConfigured` (each endpoint that is valid is served,
OPTIONS lists exactly the methods, and only two endpoints on one route keep gin from
starting). Several of these properties are conjunctions with a named conjunct for each
claim; a violation shows which one fails.

Bounds. Three backends (calls) are the least number with a first, a middle and a
last report: an error or an empty part before, between and after others, two
reports waiting while a third is merged. One key is enough for the parallel merger
because the combiner treats the keys independently; a response offers it or not.
The sequential merger needs three keys: one used at once, one whose value is blank,
and one first used late, by which time the merged map has grown. No counter of these
modules grows beyond the number of backends or calls, so no state constraint is used.

`RequestSharing` has the two backends a conflict needs, one of them with two calls, the
least number that can conflict inside one backend. `SrvAnswers` scales to 2 instead of
100: three records are then one more than the scale (the reason why the scale grows with
the records, `subscriber.go:187`), and the weights above 2 force scaling, which 0 and 1 do
not where they are few.
`LoadBalancer` wraps its counter at 4 (2^64 in the code), which is no multiple of the
lists of 3 instances; 5 draws (`MaxDraws`) go round a list of 2 or 3 and past the wrap;
lists above 2 (`ShuffleAbove`, 100 in the code) are shuffled; 2 changes of the zone
(`MaxChanges`) let a list shrink under a client and grow back. `Register` has three
goroutines and creates at most 3 registers (`MaxRegisters`), in one namespace:
no step looks at two, so a second one adds only interleavings. The proofs have no bound.

`Shadow` needs two requests, one to use the context another has left, and a second
context to let them overlap; its endpoints have a timeout of 2 and a `shadow_timeout` of 0,
2 or 3, so that a shadow's own deadline comes before or after those of the merger and of the
concurrent middleware (1, rounded down). `Endpoint` has lists in which a modifier that
changes a response, or one that fails, comes after one that keeps what it is given.
`Server` needs two calls of `RunServer` (`Runs`), for the second finds what the first
appended to the keys, and two requests (`MaxRequests`), one of which returns while the other is cut. `AsyncAgents` has two agents, so that one can end
the other, two attempts (`MaxAttempts`) for an agent without a limit, and no factory or
two. `Backoff` has integers of 14 bits (`Width`), a second of 10 milliseconds and a
millisecond of 3 ticks: the overflows come in the same order as with 64 bits and 10^9,
within 12 retries (`MaxLinear`). `Formatter` has objects of two
keys and two levels, lists of up to two fields (one before the other, one below
the other, twice the same) and mappings of two keys (chained, swapped, onto itself,
nested). `SequentialParams` has every tree of two keys and depth 3 (`Depth`), the least
with a missing level in the middle. `RequestBuilder` has lists of up to 2 different
entries (`MaxList`), so that the asterisk may come first or last. `Plugins` has two files
(`MaxFiles`) and lists of two names (`MaxRequired`). `Routers` has up to 3 endpoints
(`MaxEndpoints`) on 2 paths, one of which is the custom health path in some behaviours.
`ConfigInit` has an endpoint of every form before a bare one, to see that one's
defaults do not leak into the next.

Deadlock is checked in every run. Where the system may stop (a finished request, a
service that is down, an input that is computed) an action that stutters says so.

Fairness. Every goroutine is scheduled (weak fairness of its own steps); the timer
of `context.WithTimeout` fires; and a call that is inside `next()` returns once its
context is done, because the HTTP client is given that context. Nothing is assumed
of a backend before the deadline and, for the concurrent middleware, nothing of the
caller's context. A custom proxy that ignores its context would block `parallelMerge`,
which waits for every part: the assumption is needed, not decoration.
`LoadBalancer` assumes weak fairness of the refresher's own steps, and strong fairness of
`LookupAnswers`: a DNS lookup that is tried again and again is answered at last. Nothing
can be said of the cache if the DNS never answers. `CacheFollowsZone` is then about the
code: a failure must not end the loop, and the zone, once stable, must reach the cache.

`ShadowFairness` is that a handler answers and that time passes; that a shadow heeds its
context is a premise (`ShadowsHeedTheirContext`) of the part of `NothingIsLeftBehind`
that needs it, and of no other: the client is answered without it. `EndpointFairness`
has the handler's own steps, the chain giving up once the context is done and the
endpoint's timeout. `ServerFairness` has the steps of `RunServer` and the listener that
closes after `Shutdown` was called; that the handlers of requests return
(`HandlersReturn`) is a premise where a property needs it, which is where no maximum wait is
configured. Nothing is assumed of the arrival of requests, of the end of contexts, of
failures or of calls of `RunServer`. `AgentsFairness` has the starter's steps and those
of each agent, which comes to an end once the context of the group does. `MCCalls` and
`MCService` ask for each of them only in the behaviours about that part.

### Findings

* `SequentialAliasing`: `combineData` reuses the map of the first part
  (`merging.go:601`), and the replacement loop reads that map as the first backend's
  answer. A param first used by a later backend than another answer to the same key
  holds the wrong value. The registry (`:356`) hides it when an earlier backend used
  the param already.
* `ConcurrentStream`: a no-op response is a stream tied to the context of the call
  that fetched it; `concurrent.go:52` and `:92` cancel that context right after the
  response is handed over.
* `SharingRace`: `CloneRequest` promises that the two requests share no pointer
  (`request.go:70`), but `Query` is the same map. The GraphQL middleware adds to it
  (`graphql.go:103`) while the load balancer of another part encodes it.
* `SharingGraphQL`: what the GraphQL middleware adds to `Query` never reaches the
  backend, because the load balancer above it has already built the URL.
* `EndpointPanic`: the mergers return neither response nor error when every backend was
  filtered out; `executeResponseModifiers` (`plugin.go:169`) and flatmap
  (`formatter.go:345`) dereference the response whenever there is no error.

### What the models keep of the code against its texts

The properties are stated so that they hold of the code as it is; where that leaves
a case out which a comment or a test promises, the case is named in the property.

* Two first registrations under one namespace at once lose the entry of one of
  them (`register.go:33`, `:40`); `:31` says that `Register` stores it. Hence `early` in
  `NothingLostOnceKnown`. The gateway is not bitten as long as it loads its plugins one
  after another.
* A shadow reads values through the caller's context after the handler has returned
  (`shadow.go:165`); gin may have given it to another request by then.
* With `send_body_on_redirect` a client's body that breaks while it is read is sent on as
  if it were whole: the error of `ReadFrom` is dropped (`http.go:78`; `:56` promises the
  body's content).
* The decoder is looked up whatever the case of the encoding, the no-op parser only under
  `no-op` (`config.go:619`): a backend with `NO-OP` answers complete and empty responses.
* Only an endpoint's output encoding is checked: one that renders JSON may have a no-op
  backend among several (`config.go:523`, against the error at `:387`).
* With the allow list `a`, `a.b` only `a.b` is kept, with `a.b`, `a` all of `a`
  (`formatter.go:145`); `config.go:266` calls the list a set. Hence `ListIsPlain`.
* The mapping is applied entry by entry in the order of a Go map (`formatter.go:69-74`): a
  field mapped to itself is deleted, and chained names depend on the order;
  `config.go:270` says they are renamed. Hence `MappingIsPlain`.
* `Start` stops at the first factory that takes an agent (`asyncagent.go:100`); the comment
  at `:46` says all the factories are executed for each agent. `Offer` follows the code; no
  property takes sides.
* The source of the jitter has no lock (`backoff.go:73`) and is shared by the agents,
  so that two may draw one number; `:47` says the jitter prevents synchronised requests.
  No property claims that their waits differ.
* gorilla and httptreemux put the letters of a param after the first in lower case
  (`gorilla/router.go:45`), Init does not (`config.go:664`): the param `userId` is never
  replaced in a backend's URL (`config.go:283`).
* A prefix of a dotted replacement that is missing ends the walk but not the
  lookup (`merging.go:346`): `Resp0_struct.foo` gets the `foo` of the top level. The test
  (`merging_test.go:217`) passes either way.
* A plugin that is registered as a modifier of both requests and responses never
  modifies a response (`plugin.go:61-66`): `:17-19` and `:31-33` say that all the required
  plugins are loaded and that the modifiers of responses are executed. Hence
  `NotForRequests` in `PluginsAreInOrder`.
* `shadow.go:23` says that the factory sets the `shadow_timeout` of the configuration. With
  two shadows or more the factory puts a merger below it, with `concurrent_calls` the
  concurrent middleware (`shadow.go:50-53`, `factory.go:81`, `:96`), which end the calls after
  85% and 75% of the *endpoint's* timeout (`merging.go:29`, `concurrent.go:22`): a longer
  `shadow_timeout` has no effect there. `CutOnlyAfterItsTime` names both deadlines.
* The JSON decoders stop after the first value (`encoding.go:50`, `:58`, `:78`): an answer that
  breaks behind it, or goes on with something else, is a complete response.
  `CompleteIsTheAnswer` asks for the value, not for the body.
* Cache-Control is set as soon as there is complete data, before the response is rendered.
  It therefore goes with an error status in two cases: a no-op backend that answered one, with
  static data added (`mux/render.go:133`), and data that mux cannot encode
  (`mux/render.go:75-79`, `:95-99`). gin answers the latter with 200, nothing in the body and
  `X-Krakend-Completed: true`. `CachedIsWhole` names the two cases.
* An error with the code of its backend (`return_error_code`) is passed on with that code,
  a 204 included: the client is told of a success that the proxy took for a failure.
  `FailureIsNotASuccess` names it.

## Proofs

The runs look at small instances; the theorems hold for every value of the constants that
satisfies the named assumptions of the modules. They are in eight modules:

| module | about | inductive invariants | safety proved |
|---|---|---|---|
| `MergeAccumulatorProofs` | `MergeAccumulator` | (lemmas only) | |
| `ParallelMergeProofs` | `ParallelMerge` | `IInv`, `CInv` | `TypeOK`, `MergerSafety`, `MergeIsMonotone`, `ImplementsContract` |
| `SequentialMergeProofs` | `SequentialMerge`, `SequentialParams` | `IInv`, `CInv`, `LookupIInv` | `TypeOK`, `SequentialSafety`, `ParamsNeverChange`, `ImplementsContract`, `LookupIsSound` |
| `ConcurrentProofs` | `Concurrent` | `IInv` | `TypeOK`, `ConcurrentSafety` |
| `CallsProofs` | `Shadow`, `BackendAnswer`, `SrvRecords`, `LoadBalancer`, `Backoff` | `ShadowIInv`, `AnswerIInv`, `BalancerIInv`, `SharesIInv`, `BackoffIInv` | `ShadowIsApart`, `AnswerIsTold`, `TypesOK` of `MCCalls`, `InstancesStandForTheZone`, `TypeOK`, `RepliesAreSound`, `SharesAreFair`, `WaitsAreSane` |
| `ServiceProofs` | `Server`, `AsyncAgents`, `Endpoint` | `ServerIInv`, `AgentsIInv`, `EndpointIInv` | `ShutdownIsOrderly`, `AnswerIsTrue`, `TypesOK` of `MCService` |
| `PartsProofs` | `RequestSharing`, `RequestBuilder`, `ConfigInit` | `SharingIInv`, `BuilderIInv`, `ConfigIInv` | `RequestsAreApart`, `RequestIsAsListed`, `InitIsSound` |
| `RegisterProofs` | `Register`, `Routers`, `Plugins` | `IInv`, `RoutersIInv`, `PluginsIInv` | `NothingLostOnceKnown`, `KnownStays`, `RoutesAreThoseConfigured`, `PluginsAreInOrder` |

Each of them proves the type invariant of its modules too. The proofs have one form: a
lemma for the initial states, one per action, the lemmas that the actions share, and a
theorem `...Invariance` from which the others follow. None of the properties is
inductive by itself; what each needed is the interesting part.

`CallsAreTheirParts` and `ServiceIsItsParts` join the parts of a run again: an initial
state of the composition is one of every part, and a step of it a step or a stutter of
every part, so what is proved of a part holds in the run that checks it with others. The
invariance theorems of these parts are for that reason about `Init /\ [][Next]_vars`: no
safety property rests on the fairness that a part's specification adds.

### The mergers and their contract

`ParallelMerge` (`NumBackends >= 2`: with one backend the middleware is bypassed). `IInv`
ties the four places a report can be in to the program counters: the number of parts in
each state agrees with the lengths of the channels, of the error list and with
`collected`; `proxyCount` plus the skipped backends is the number of backends; an answer
that was delivered is still in `parts`, or has been merged, and then the completeness flag
implies that it was complete. `Counts` is the counting lemma of the actions: moving one
backend from one state to another takes one from the first count and adds one to the
second. No send blocks because a part that is about to send is not among those that have
sent, so fewer than `NumBackends` reports were ever made.

`SequentialMerge`. `OrderInv` says where each backend is, given `i` and `pc`; `ReportInv`
which channel holds the one report; `AnswerInv` what the accumulator is and that the map
it writes to is that of the first response with one; `ParamInv` that the registry mirrors
the params and that each of them has a source. `ParamsPinned` follows from the last: a
param that was resolved is in the registry, so the next replacement does not read the map,
which may hold another value by then.

The refinements (`Refinement`, in both modules). `outcomeBar` maps the program counters of
the parts to the outcomes of `MergeContract`. A step of a part is a step of the contract
that brings one backend to its outcome; the merger's own steps stutter until it replies. That
the reply is justified needs what the accumulator stands for, whatever the order of arrival:
`Folded(acc, M, got)` of `MergeAccumulatorProofs`, which says that `acc` has taken exactly the
answers of the backends in `M`. It is kept by `MergeResponse` and `MergeError` and gives
the contract's conditions at `Result` (`FoldedResponse`, `FoldedError`, `FoldedResult`). `CInv` is
`IInv` with that and with what is still in the channels.

`LookupSound` needs, besides the invariant of the walk, that a tree is closed under
beginnings: the first level that is missing is found with the least element of a set of
numbers (`WFMin`), where a pencil proof would use induction.

### Concurrent calls, shadows, answers, load balancing

`Concurrent` (`NumCalls >= 2`). `CountInv` counts the reports that were taken off the
channels; as long as the caller is there they are as many as the iterations of the loop. A
reply without a complete response then comes after `NumCalls` reports, which are all there
are (`ReplyInv`), and no complete response is among those that were taken (`ContentInv`).

`Shadow` ties values to contexts in both directions (`ValuesInv`), so that the reuse of a
context is the only way to read another request's values. `maxTimeout` computes the longest
deadline in a loop over the backends; that it is the longest is `DeadlineIsTheLongest`, again
with least elements. `BackendAnswer` needs where the body is at each step
(`ProgressInv`). `LoadBalancer` needs that a client that chooses holds hosts of an answer it has
seen (`ChoosingInv`) while `stored` has only the list in the cache (`SubscriberInv`); the draws
are bounded by what is drawn and what is about to be (`DrawsInv`).

`BalancerFair`. While the zone is the same, whatever is fetched is an order of it, whatever is
in the cache is the list of its instances, and every client that chooses holds that list
(`ListedInv`): this is where `OrdersResolveAlike` is needed, that the rotation of an answer
does not show in the instances. The turns of a host since the last wrap are then those of
a counter that came from 0 (`TurnsBy`); those before lie between bounds that give away one round for
each wrap (`Fair`, kept by a draw in `FairStep`); and rounds of sums differ from sums of rounds by one at
most (`RoundsOfSums`, `TurnsOfRun`).

### Instances and waits: loops in numbers

`ResolverIsRight` has no invariant of interest (every list of records is a state); the work
is in the operators. A loop over a list is a recursive function on `0 .. Len(ws)`. That it has a
value, and what the value is, would be shown by induction, whose theorem the provers
cannot apply; `LoopHasResult`, `UpTo` and `EuclidIsRight` do without, from the least
counterexample: the set of numbers for which the claim is wrong would have a least element
(`LeastNumber`, from the well-foundedness of `<`), and the claim would pass to it from the number
before. On these rest the sum (`TotalIsTheSum`, `TotalsCompare`), the divisor (`EuclidIsRight`,
`GcdIsRight`), the scaled list (`NormalizeIsRight`, `CompactIsRight`) and so each conjunct
of `InstancesStandForTheZone`. The sort is a count: the place of a record is the number of those before
it, and two answers with the same records have the same sorted list because it is the only one that
is ordered (`SortedIsUnique`).

`BackoffSane`. The plain wait `exact` is compared with all that was waited before: `AddsUp` says that
three times the latter is at least twice the former, less three milliseconds per retry and two
seconds. As long as they fit, a wait is at least two thirds of the plain one, less a millisecond
(`WaitsFit`), and the next plain wait is no more than the double. When the
plain wait and a third no longer fit into a Duration, `LifetimePasses` turns `AddsUp` into a
third of the longest Duration. The other half is that an overflow that does not show is
none: a jittered wait that is neither negative nor too short comes from a number that fits
(`JitterIsSane`), by the ranges in which `Wrap` may land (`WrapIs`).

### The service

`Server`: a call is in one of a few situations, which tell what its goroutine does and what it
returns (`CallInv`); the shared slice of key pairs only grows by pairs that are configured
(`KeysInv`). `AsyncAgents`: only the factory that was asked last can have taken an agent
(`OfferInv`); that is all its types need, and what an agent's failure leads to is
liveness.
`Endpoint`: `full` and the response's flag agree until a static or a modifier lowers it
(`CompletenessInv`), and the headers are what the renderer will find (`RenderInv`).

### Requests, registers, routes, plugins, configuration

`RequestSharing`: which object each request holds, by the position of its goroutine
(`OwnInv`, `BodyInv`, `QueryInv`), and who can move at once (`MergerInv`, `PartsInv`). The race
rule is then a comparison of owners. `RequestBuilder`: while a list is read, the headers and
queries are those of the entries so far, of which none was the asterisk.

`Register`: a published pointer is that of a register that exists (`PointersInv`), a call
that is alone with its namespace writes to the register the namespace has or is about to
have (`AloneInv`), and no call is about to replace the register of a safe entry
(`SafeInv`): once an entry is safe, any later call finds the namespace and writes into the
register that is already there.

`Routers`: the table is a function of the endpoints below `nextEndpoint`. For gin a route has
one endpoint at most and the catalogue of a path lists each method once (`GinInv`); for the
others it has the last that was built, or the first with gorilla (`OtherInv`). That gin panics
*only* at a clash is a count: the endpoint that holds the route and the one that
wants it are two.

`Plugins`: after each file the registers hold the last of the files so far for every name
(`RegisteredInv`), and after each entry of the list the chain is in order for the entries so
far (`ChainInv`). "In order" is a strictly increasing map from the places of the chain onto the
entries that work (`AreInOrder`); an entry more extends the map (`OneMoreIsInOrder`), and the
server, which puts each handler in front, builds the reverse (`ReverseOfFront`).

`ConfigInit`: the loops leave ready endpoints below `endpointIndex` and ready backends below
`backendIndex` (`LoopInv`), where a backend is ready in two steps, with its defaults and then
with its params. An endpoint's own defaults come first, and what its backends took from
it must still be so at the end: `CurrentBackendReplaced` says what a step about one
backend leaves alone. That the count of params never refuses an endpoint whose params are all
defined is a comparison of finite sets: what is counted is among the inputs (`CountLetsPass`).

### Assumptions

The assumptions are types and bounds of the constants (`FilesAssumption` of `ConfigInit` says what
a file may hold: any numbers, lists of any length, durations that are missing, positive, negative or
not understood), but for two: `HealthPathAssumption` (no
endpoint has `/__health`: `Init` refuses it, `config.go:385`, `:701`) and `UnitsAssumption` of
`Backoff`: a second has 10 milliseconds at least, a millisecond 3 ticks, and 8 seconds fit into
a Duration (in Go they are 1000, 10^6, and 9 * 10^9 seconds fit).

What the proofs taught about the model: `CloningIsEnough` has the premise that a body is deeply
cloned (`merging.go:263-267` does not clone if all the backends use GET or HEAD, and two parts would
then read one body); `MaxList` of 0 has no index to start from; and the cases of
`EndpointsAreServed`, of `Decoded` and of `BackendHost` are now apart, for TLA+ leaves open
which of two true guards of a CASE counts, whatever TLC makes of them.

### What is only model-checked

* Liveness (`EveryoneFinishes`, `AlwaysReturns`, `CacheFollowsZone`, `NothingIsLeftBehind`,
  `RequestsAreAnswered`, `RunServerReturns`, `AgentsMakeProgress`): ENABLED is out of the prover's
  reach.
* `FormatterIsExact`: the formatter and the reference it is compared with are recursive over trees,
  which no set holds that a recursive function could have for its domain, and a module with
  RECURSIVE operators is out of reach.
* `TypesOK` of `MCParts`, because `Formatter` is one of its parts; the types of the other parts
  are proved one by one.

## Plan

Done: every component but logging, at the level the table of modules says; proofs about
all the modules of the table above.

Further models: `PipeReply` of `Endpoint` bound to the mergers themselves instead of to
what `MergeContract` allows; the GraphQL extractor.

## Not modelled

* Text: the parsing of JSON and of durations beyond what is understood and what is not,
  the regular expressions that find placeholders in URL patterns, the cleaning of host
  names, `GeneratePath`, the rendering of values, the address of the client. These are pure
  conversions; the modules have what they decide (found or not, clean or not).
* The GraphQL extractor, which builds a body from a template; what the middleware does to
  the request is in `RequestSharing`.
* The operations of flatmap: they work on a tree of an external library. That flatmap
  runs, on what and when is in `Endpoint`.
* The options of the gin engine, its check of encoded params, the order of third-party
  middlewares, the debug and echo handlers: they keep no state.
* The options of the TLS configuration (versions, ciphers, client certificates) and the
  default transport; which key pairs are served is in `Server`.
* The scan of a plugin folder and what a plugin does with a request.
* Logging and version: I/O and constants.
