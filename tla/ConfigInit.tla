------------------------------ MODULE ConfigInit ------------------------------
(***************************************************************************)
(* The way from a parsed configuration file to the configuration that the  *)
(* gateway runs: normalize (config/parser.go) and ServiceConfig.Init       *)
(* (config/config.go, config/uri.go), step by step, for every              *)
(* configuration of a given set.  Init stops at the first error.           *)
(*                                                                         *)
(* Paths are sequences of placeholders; a placeholder is a number, in the  *)
(* order of the names.                                                     *)
(***************************************************************************)
EXTENDS Integers, Sequences, FiniteSets, SequencesExt

CONSTANTS
    Configs,      \* the configurations to check
    Placeholders, \* the placeholders
    Sequential,   \* those of the form resp0_...
    Methods       \* as a file may write them, "" if it does not

ASSUME NamesAssumption ==
    /\ Placeholders \subseteq Nat /\ Sequential \subseteq Placeholders
    /\ {"", "GET"} \subseteq Methods

Encodings == {"", "json", "no-op"}
HostForms == {"none", "raw", "bad", "clean"}
Addresses == {"", "ip", "bad"}

\* What the file says of a duration: nothing, 3s or -3s, or 3 without a unit.
Durations == {"", "3s", "-3s", "3"}

\* What a file may hold.  A negative number is left as it is.
WrittenBackends == [host : HostForms, sanitize : BOOLEAN, method : Methods,
                    encoding : Encodings, path : Seq(Placeholders)]
WrittenEndpoints == [valid : BOOLEAN, path : Seq([name : Placeholders, slash : BOOLEAN]),
                     method : Methods, timeout : Durations, calls : Int,
                     output : Encodings, backends : Seq(WrittenBackends)]
WrittenAgents == [timeout : Durations, workers : Int, backends : Seq(WrittenBackends)]

ASSUME FilesAssumption ==
    Configs \subseteq [version : Int, timeout : Durations, host : HostForms,
                       output : Encodings, strict : BOOLEAN, address : Addresses,
                       endpoints : Seq(WrittenEndpoints), agents : Seq(WrittenAgents)]

VARIABLES
    cfg,      \* the configuration, as it was written at first
    configPc, \* the step that comes next
    endpointIndex, backendIndex, \* the endpoint and the backend it is about
    error     \* why Init has stopped, "none" if it has not

configVars == <<cfg, configPc, endpointIndex, backendIndex, error>>

Errors == {"none", "version", "address", "host", "path", "no backends", "no-op",
           "number of params", "undefined param"}

ConfigTypeOK ==
    /\ configPc \in {"normalize", "global", "agents", "endpoint", "backend", "mappings",
                     "next", "ready", "failed"}
    /\ endpointIndex \in Nat /\ backendIndex \in Nat /\ error \in Errors
    /\ (error # "none") = (configPc = "failed")
    /\ configPc # "normalize" => cfg.timeout \in {-3, 0, 2, 3}
    /\ configPc \notin {"normalize", "global", "failed"} => cfg.timeout # 0

ConfigInit ==
    /\ cfg \in Configs
    /\ configPc = "normalize" /\ endpointIndex = 1 /\ backendIndex = 1
    /\ error = "none"

\* What was initialized before an error stays behind and is not used.
Fail(reason) == configPc' = "failed" /\ error' = reason
Go(step) == configPc' = step /\ UNCHANGED error

-----------------------------------------------------------------------------
(* The file                                                                *)

\* parseDuration: what it does not understand is 0, as what is not there.
parseDuration(v) == IF v = "3s" THEN 3 ELSE IF v = "-3s" THEN -3 ELSE 0

\* normalize of a backend: its timeout and calls are not its own.
NormalBackend(b) == [host |-> b.host, sanitize |-> b.sanitize, method |-> b.method,
                     encoding |-> b.encoding, path |-> b.path, keys |-> {},
                     timeout |-> 0, calls |-> 0]

NormalBackends(bs) == [k \in DOMAIN bs |-> NormalBackend(bs[k])]

\* normalize of an endpoint or an agent.
Normal(e) == [e EXCEPT !.timeout = parseDuration(@), !.backends = NormalBackends(@)]

NormalizeConfig ==
    /\ configPc = "normalize"
    /\ cfg' = [cfg EXCEPT !.timeout = parseDuration(@),
                           !.endpoints = [k \in DOMAIN @ |-> Normal(@[k])],
                           !.agents = [k \in DOMAIN @ |-> Normal(@[k])]]
    /\ Go("global")
    /\ UNCHANGED <<endpointIndex, backendIndex>>

-----------------------------------------------------------------------------
(* ServiceConfig.Init                                                      *)

\* SafeCleanHosts: a scheme is added; what is not a host is an error.
Clean(host) == IF host = "raw" THEN "clean" ELSE host

\* A host of the backend's own, or the service's; as it is if so wanted.
BackendHost(b) == IF b.host = "none" THEN cfg.host
                  ELSE IF b.sanitize THEN Clean(b.host) ELSE b.host

\* 2 seconds.
DefaultTimeout(timeout) == IF timeout = 0 THEN 2 ELSE timeout

\* The version, the address to listen on, and the defaults of the service.
InitGlobalParams ==
    /\ configPc = "global"
    /\ IF cfg.version # 3 THEN Fail("version") /\ UNCHANGED cfg
       ELSE IF cfg.address = "bad" THEN Fail("address") /\ UNCHANGED cfg
       ELSE IF cfg.host = "bad" THEN Fail("host") /\ UNCHANGED cfg
       ELSE /\ cfg' = [cfg EXCEPT !.timeout = DefaultTimeout(@), !.host = Clean(@)]
            /\ Go("agents")
    /\ UNCHANGED <<endpointIndex, backendIndex>>

BadHost(b) == b.host = "bad" /\ b.sanitize

\* What is not given is taken from elsewhere.
Given(value, nothing, default) == IF value = nothing THEN default ELSE value

AgentBackend(b, timeout) ==
    [b EXCEPT !.timeout = timeout, !.host = BackendHost(b), !.method = Given(@, "", "GET")]

\* initAsyncAgentDefaults and the backends of an agent.
ReadyAgent(a) ==
    LET timeout == Given(a.timeout, 0, cfg.timeout)
    IN  [a EXCEPT !.timeout = timeout,
                  !.workers = IF @ < 1 THEN 1 ELSE @,
                  !.backends = [k \in DOMAIN @ |-> AgentBackend(@[k], timeout)]]

InitAsyncAgents ==
    /\ configPc = "agents"
    /\ IF \E a \in DOMAIN cfg.agents : \E b \in DOMAIN cfg.agents[a].backends :
              BadHost(cfg.agents[a].backends[b])
       THEN Fail("host") /\ UNCHANGED cfg
       ELSE /\ cfg' = [cfg EXCEPT !.agents = [k \in DOMAIN @ |-> ReadyAgent(@[k])]]
            /\ Go(IF cfg.endpoints = <<>> THEN "ready" ELSE "endpoint")
    /\ UNCHANGED <<endpointIndex, backendIndex>>

\* The placeholders of an endpoint; a strict one takes those after a slash.
InputSet(e) == {p.name : p \in {q \in Range(e.path) : cfg.strict => q.slash}}

\* initEndpointDefaults
EndpointDefaults(e) ==
    [e EXCEPT !.method = Given(@, "", "GET"), !.timeout = Given(@, 0, cfg.timeout),
              !.calls = Given(@, 0, 1),
              !.output = Given(@, "", Given(cfg.output, "", "json"))]

\* The encoding of the endpoint, its own or the service's.
IsNoop(e) == EndpointDefaults(e).output = "no-op"

\* validate, the defaults, and the one backend of a no-op endpoint.
InitEndpoint ==
    /\ configPc = "endpoint"
    /\ LET e == cfg.endpoints[endpointIndex]
       IN  IF ~e.valid THEN Fail("path") /\ UNCHANGED cfg
           ELSE IF e.backends = <<>> THEN Fail("no backends") /\ UNCHANGED cfg
           ELSE /\ cfg' = [cfg EXCEPT !.endpoints[endpointIndex] = EndpointDefaults(e)]
                /\ IF IsNoop(e) /\ Len(e.backends) > 1 THEN Fail("no-op") ELSE Go("backend")
    /\ backendIndex' = 1
    /\ UNCHANGED endpointIndex

\* initBackendDefaults
BackendDefaults(b, e) ==
    [b EXCEPT !.host = BackendHost(b),
              !.method = Given(@, "", e.method),
              !.encoding = IF e.output = "no-op" THEN "no-op" ELSE @,
              !.timeout = e.timeout, !.calls = e.calls]

InitBackend ==
    /\ configPc = "backend"
    /\ LET e == cfg.endpoints[endpointIndex]
           b == e.backends[backendIndex]
       IN  IF BadHost(b) THEN Fail("host") /\ UNCHANGED cfg
           ELSE /\ cfg' = [cfg EXCEPT !.endpoints[endpointIndex].backends[backendIndex] = BackendDefaults(b, e)]
                /\ Go("mappings")
    /\ UNCHANGED <<endpointIndex, backendIndex>>

\* The placeholders of a backend, each once, and how many of them are no
\* sequential ones, but for the last of their order, which the loop does not count.
uniqueOutput(path) ==
    [outputs |-> Range(path),
     size |-> IF path = <<>> THEN 0
              ELSE Cardinality((Range(path) \ {Max(Range(path))}) \ Sequential)]

\* Mappings that rely on the number of params alone.
CountOnly ==
    /\ configPc = "mappings"
    /\ LET u == uniqueOutput(cfg.endpoints[endpointIndex].backends[backendIndex].path)
       IN  IF u.size > Cardinality(InputSet(cfg.endpoints[endpointIndex]))
           THEN Fail("number of params") /\ UNCHANGED cfg
           ELSE Go("next") /\ cfg' = [cfg EXCEPT !.endpoints[endpointIndex].backends[backendIndex].keys = u.outputs]
    /\ UNCHANGED <<endpointIndex, backendIndex>>

\* The number of params, then each of them: an input or a sequential one.
InitBackendURLMappings ==
    /\ configPc = "mappings"
    /\ LET u == uniqueOutput(cfg.endpoints[endpointIndex].backends[backendIndex].path)
           inputs == InputSet(cfg.endpoints[endpointIndex])
       IN  IF u.size > Cardinality(inputs)
           THEN Fail("number of params") /\ UNCHANGED cfg
           ELSE IF ~(u.outputs \subseteq inputs \cup Sequential)
           THEN Fail("undefined param") /\ UNCHANGED cfg
           ELSE Go("next") /\ cfg' = [cfg EXCEPT !.endpoints[endpointIndex].backends[backendIndex].keys = u.outputs]
    /\ UNCHANGED <<endpointIndex, backendIndex>>

\* The loops over the backends and the endpoints.
NextOne ==
    /\ configPc = "next"
    /\ IF backendIndex < Len(cfg.endpoints[endpointIndex].backends) THEN Go("backend") /\ backendIndex' = backendIndex + 1 /\ endpointIndex' = endpointIndex
       ELSE /\ backendIndex' = 1
            /\ IF endpointIndex < Len(cfg.endpoints) THEN Go("endpoint") /\ endpointIndex' = endpointIndex + 1
               ELSE Go("ready") /\ endpointIndex' = endpointIndex
    /\ UNCHANGED cfg

ConfigFinished == configPc \in {"ready", "failed"} /\ UNCHANGED configVars

ConfigNext == \/ NormalizeConfig \/ InitGlobalParams \/ InitAsyncAgents \/ InitEndpoint
              \/ InitBackend \/ InitBackendURLMappings \/ NextOne \/ ConfigFinished

ConfigSpec == ConfigInit /\ [][ConfigNext]_configVars

-----------------------------------------------------------------------------
(* Properties                                                              *)

AllBackends(Test(_, _)) ==
    \A e \in Range(cfg.endpoints) : \A b \in Range(e.backends) : Test(b, e)

(***************************************************************************)
(* Whatever an accepted endpoint asks of a backend can be filled in from   *)
(* the request or from an earlier response: the count of params, which is  *)
(* one short (config.go:680-698), never lets a param pass that the lookup  *)
(* of each one (config.go:651-663) would have to refuse.                   *)
(***************************************************************************)
ParamsHaveASource ==
    configPc = "ready" => AllBackends(LAMBDA b, e : /\ b.keys = Range(b.path)
                                                    /\ b.keys \subseteq InputSet(e) \cup Sequential)

(***************************************************************************)
(* An endpoint is refused for its params only if one of them is undefined: *)
(* neither a param that is used twice nor a sequential one counts as one   *)
(* too many (config.go:635-647).                                           *)
(***************************************************************************)
RefusedForAParam ==
    error \in {"number of params", "undefined param"} =>
        LET e == cfg.endpoints[endpointIndex]
        IN  ~(Range(e.backends[backendIndex].path) \subseteq InputSet(e) \cup Sequential)

(***************************************************************************)
(* Every backend of a running gateway has a timeout, that of its endpoint  *)
(* or agent, whatever durations the file lacks or gets wrong (a negative   *)
(* one is taken as it is); it has a method and no host that was not        *)
(* cleaned or left as it is on purpose                                     *)
(* (config.go:460-462, 571-573, 588-590, 602-618; parser.go:416-422).      *)
(***************************************************************************)
BackendsAreReady ==
    configPc = "ready" =>
        /\ AllBackends(LAMBDA b, e : /\ b.timeout = e.timeout /\ b.timeout # 0
                                     /\ b.calls = e.calls /\ b.calls # 0
                                     /\ b.method # ""
                                     /\ b.host \in {"clean", "none"} \/ ~b.sanitize)
        /\ \A a \in Range(cfg.agents) :
               /\ a.workers > 0
               /\ \A b \in Range(a.backends) : /\ b.timeout = a.timeout /\ b.timeout # 0
                                               /\ b.method # ""
                                               /\ b.host \in {"clean", "none"} \/ ~b.sanitize

(***************************************************************************)
(* An endpoint that copies a body has one backend to copy it from, which   *)
(* does not decode it, whether the endpoint or the service asked for the   *)
(* encoding (config.go:523-525, 577-583, 614-616): the renderer for no-op  *)
(* (RenderNoop of Endpoint) relies on it.                                  *)
(***************************************************************************)
NoopIsAlone ==
    configPc = "ready" => AllBackends(LAMBDA b, e :
        e.output = "no-op" => Len(e.backends) = 1 /\ b.encoding = "no-op")

(***************************************************************************)
(* What Init accepts the rest of the gateway can run: every param has a    *)
(* source and only a missing one is refused, every backend can be called,  *)
(* and a copied body has one origin.                                       *)
(***************************************************************************)
InitIsSound ==
    /\ ParamsHaveASource /\ RefusedForAParam
    /\ BackendsAreReady /\ NoopIsAlone
=============================================================================
