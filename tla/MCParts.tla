-------------------------------- MODULE MCParts --------------------------------
(***************************************************************************)
(* The parts about which only safety is stated: the shared registers and   *)
(* requests, and the algorithms that configure the gateway and build what  *)
(* serves a request.  They share no state with each other, so a behaviour  *)
(* is about one of them (focus) and the others stay in an initial state.   *)
(***************************************************************************)
EXTENDS Register, MCRequestSharing, SrvAnswers, MCFormatter, SequentialParams,
        MCConfigInit, Backoff, MCRequestBuilder, MCPlugins, MCRouters

VARIABLE focus

\* An initial state of each part that has several.
SharingIdle   == conf = (CHOOSE c \in SharingConfigs : TRUE) /\ SharingInit
FormatterIdle == setup = (CHOOSE s \in Setups : TRUE) /\ FormatterInit
LookupIdle    == tree = {} /\ source = <<"a">> /\ LookupInit
ConfigIdle    == cfg = BareService /\ ConfigInit
BackoffIdle   == strategy = "linear" /\ BackoffInit
BuilderIdle   == /\ extractor = "noop" /\ toPass = <<>> /\ queryString = <<>>
                 /\ path = {} /\ forwarded = [headers |-> {}, queries |-> {}]
                 /\ BuilderInit
PluginsIdle   == /\ pluginKind = "modifier" /\ files = <<>> /\ required = <<>>
                 /\ PluginsInit
RoutersIdle   == routerKind = "mux" /\ service = <<>> /\ RoutersInit

PartsInit ==
    \/ /\ focus = "register"
       /\ SharingIdle /\ AnswersInit /\ FormatterIdle /\ LookupIdle /\ ConfigIdle
       /\ BackoffIdle /\ BuilderIdle /\ PluginsIdle /\ RoutersIdle
       /\ Init
    \/ /\ focus = "sharing"
       /\ Init /\ AnswersInit /\ FormatterIdle /\ LookupIdle /\ ConfigIdle
       /\ BackoffIdle /\ BuilderIdle /\ PluginsIdle /\ RoutersIdle
       /\ SharingInit
    \/ /\ focus = "instances"
       /\ Init /\ SharingIdle /\ FormatterIdle /\ LookupIdle /\ ConfigIdle
       /\ BackoffIdle /\ BuilderIdle /\ PluginsIdle /\ RoutersIdle
       /\ AnswersInit
    \/ /\ focus = "formatter"
       /\ Init /\ SharingIdle /\ AnswersInit /\ LookupIdle /\ ConfigIdle
       /\ BackoffIdle /\ BuilderIdle /\ PluginsIdle /\ RoutersIdle
       /\ FormatterInit
    \/ /\ focus = "lookup"
       /\ Init /\ SharingIdle /\ AnswersInit /\ FormatterIdle /\ ConfigIdle
       /\ BackoffIdle /\ BuilderIdle /\ PluginsIdle /\ RoutersIdle
       /\ LookupInit
    \/ /\ focus = "config"
       /\ Init /\ SharingIdle /\ AnswersInit /\ FormatterIdle /\ LookupIdle
       /\ BackoffIdle /\ BuilderIdle /\ PluginsIdle /\ RoutersIdle
       /\ ConfigInit
    \/ /\ focus = "backoff"
       /\ Init /\ SharingIdle /\ AnswersInit /\ FormatterIdle /\ LookupIdle
       /\ ConfigIdle /\ BuilderIdle /\ PluginsIdle /\ RoutersIdle
       /\ BackoffInit
    \/ /\ focus = "builder"
       /\ Init /\ SharingIdle /\ AnswersInit /\ FormatterIdle /\ LookupIdle
       /\ ConfigIdle /\ BackoffIdle /\ PluginsIdle /\ RoutersIdle
       /\ BuilderInit
    \/ /\ focus = "plugins"
       /\ Init /\ SharingIdle /\ AnswersInit /\ FormatterIdle /\ LookupIdle
       /\ ConfigIdle /\ BackoffIdle /\ BuilderIdle /\ RoutersIdle
       /\ PluginsInit
    \/ /\ focus = "routers"
       /\ Init /\ SharingIdle /\ AnswersInit /\ FormatterIdle /\ LookupIdle
       /\ ConfigIdle /\ BackoffIdle /\ BuilderIdle /\ PluginsIdle
       /\ RoutersInit

PartsNext ==
    \/ /\ focus = "register" /\ Next
       /\ UNCHANGED <<focus, sharingVars, srvs, formatterVars, lookupVars,
                      configVars, backoffVars, builderVars, pluginsVars, routersVars>>
    \/ /\ focus = "sharing" /\ SharingNext
       /\ UNCHANGED <<focus, vars, srvs, formatterVars, lookupVars,
                      configVars, backoffVars, builderVars, pluginsVars, routersVars>>
    \/ /\ focus = "instances" /\ AnswersNext
       /\ UNCHANGED <<focus, vars, sharingVars, formatterVars, lookupVars,
                      configVars, backoffVars, builderVars, pluginsVars, routersVars>>
    \/ /\ focus = "formatter" /\ FormatterNext
       /\ UNCHANGED <<focus, vars, sharingVars, srvs, lookupVars,
                      configVars, backoffVars, builderVars, pluginsVars, routersVars>>
    \/ /\ focus = "lookup" /\ LookupNext
       /\ UNCHANGED <<focus, vars, sharingVars, srvs, formatterVars,
                      configVars, backoffVars, builderVars, pluginsVars, routersVars>>
    \/ /\ focus = "config" /\ ConfigNext
       /\ UNCHANGED <<focus, vars, sharingVars, srvs, formatterVars,
                      lookupVars, backoffVars, builderVars, pluginsVars, routersVars>>
    \/ /\ focus = "backoff" /\ BackoffNext
       /\ UNCHANGED <<focus, vars, sharingVars, srvs, formatterVars,
                      lookupVars, configVars, builderVars, pluginsVars, routersVars>>
    \/ /\ focus = "builder" /\ BuilderNext
       /\ UNCHANGED <<focus, vars, sharingVars, srvs, formatterVars,
                      lookupVars, configVars, backoffVars, pluginsVars, routersVars>>
    \/ /\ focus = "plugins" /\ PluginsNext
       /\ UNCHANGED <<focus, vars, sharingVars, srvs, formatterVars,
                      lookupVars, configVars, backoffVars, builderVars, routersVars>>
    \/ /\ focus = "routers" /\ RoutersNext
       /\ UNCHANGED <<focus, vars, sharingVars, srvs, formatterVars,
                      lookupVars, configVars, backoffVars, builderVars, pluginsVars>>

partsVars == <<focus, vars, sharingVars, srvs, formatterVars, lookupVars,
               configVars, backoffVars, builderVars, pluginsVars, routersVars>>

PartsSpec == PartsInit /\ [][PartsNext]_partsVars

\* Every variable of the parts has its type.
TypesOK ==
    /\ TypeOK /\ SharingTypeOK /\ FormatterTypeOK /\ LookupTypeOK /\ ConfigTypeOK
    /\ BackoffTypeOK /\ BuilderTypeOK /\ PluginsTypeOK /\ RoutersTypeOK
=============================================================================
