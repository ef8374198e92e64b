----------------------------- MODULE MCConfigInit -----------------------------
(***************************************************************************)
(* Three families of configurations.  Params: one endpoint with up to two  *)
(* placeholders, after a slash or not, and a backend with up to three, any *)
(* of them repeated or sequential.  Defaults: two endpoints, every way to  *)
(* give or not to give a value at the service, the endpoint and the        *)
(* backend.  Agents: the same for an agent.                                *)
(***************************************************************************)
EXTENDS ConfigInit

MCPlaceholders == 1 .. 4
MCSequential == {3}

BareBackend == [host |-> "raw", sanitize |-> TRUE, method |-> "", encoding |-> "json", path |-> <<>>]
BareEndpoint == [valid |-> TRUE, path |-> <<>>, method |-> "", timeout |-> "", calls |-> 0,
                 output |-> "", backends |-> <<BareBackend>>]
BareService == [version |-> 3, timeout |-> "", host |-> "raw", output |-> "", strict |-> TRUE, address |-> "",
                endpoints |-> <<BareEndpoint>>, agents |-> <<>>]

InPaths == [name : MCPlaceholders, slash : BOOLEAN]

ParamConfigs ==
    {[BareService EXCEPT !.strict = s, !.endpoints[1].path = p, !.endpoints[1].backends[1].path = q] :
        s \in BOOLEAN, p \in BoundedSeq(InPaths, 2), q \in BoundedSeq(MCPlaceholders, 3)}

Backends == {[BareBackend EXCEPT !.host = h, !.sanitize = s, !.encoding = e, !.method = "POST"] :
                 h \in HostForms \ {"clean"}, s \in BOOLEAN, e \in {"", "no-op"}}

Agents == {<<>>} \cup {<<[timeout |-> t, workers |-> IF t = "" THEN 0 ELSE 2, backends |-> <<b>>]>> :
                           t \in Durations, b \in {BareBackend, [BareBackend EXCEPT !.host = "bad"]}}

\* The endpoint under test comes before a bare one.
DefaultEndpoints ==
    [valid : {TRUE}, path : {<<>>}, method : {""}, timeout : Durations \ {"-3s"}, calls : {3},
     output : {"", "json", "no-op"},
     backends : {<<>>, <<BareBackend>>} \cup {<<BareBackend, c>> : c \in Backends}]

DefaultConfigs ==
    [version : {3}, timeout : Durations, host : {"none", "raw"}, output : {"", "no-op"},
     strict : {TRUE}, address : {""}, endpoints : {<<e, BareEndpoint>> : e \in DefaultEndpoints},
     agents : {<<>>}]

AgentConfigs ==
    [version : {3}, timeout : Durations, host : {"none", "raw"}, output : {""}, strict : {TRUE},
     address : {"ip"}, endpoints : {<<BareEndpoint>>}, agents : Agents]

RefusedConfigs == {[BareService EXCEPT !.version = 2], [BareService EXCEPT !.host = "bad"],
                   [BareService EXCEPT !.address = "bad"],
                   [BareService EXCEPT !.endpoints[1].valid = FALSE], [BareService EXCEPT !.endpoints = <<>>]}

MCConfigs == ParamConfigs \cup DefaultConfigs \cup AgentConfigs \cup RefusedConfigs
=============================================================================
