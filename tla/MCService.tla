------------------------------- MODULE MCService -------------------------------
(***************************************************************************)
(* The service: an endpoint's handler, the server that it runs in, and the *)
(* agents next to it.  The three share no state, so a behaviour is about   *)
(* one of them (focus) and the other two stay in an initial state.         *)
(***************************************************************************)
EXTENDS MCEndpoint, MCServer, MCAsyncAgents

VARIABLE focus

serviceVars == <<focus, endpointVars, serverVars, agentsVars>>

EndpointIdle == EndpointInit /\ setup = CHOOSE s \in Setups : TRUE
ServerIdle   == ServerInit /\ cfg = CHOOSE s \in Services : TRUE
AgentsIdle   == /\ AgentsInit /\ factories = CHOOSE n \in FactoryCounts : TRUE
                /\ broken = {} /\ \A a, b \in Agents : maxRetries[a] = maxRetries[b]
                /\ maxRetries[1] = CHOOSE n \in Retries : TRUE

ServiceInit ==
    \/ focus = "endpoint" /\ ServerIdle /\ AgentsIdle /\ EndpointInit
    \/ focus = "server"   /\ EndpointIdle /\ AgentsIdle /\ ServerInit
    \/ focus = "agents"   /\ EndpointIdle /\ ServerIdle /\ AgentsInit

ServiceNext ==
    \/ focus = "endpoint" /\ EndpointNext /\ UNCHANGED <<focus, serverVars, agentsVars>>
    \/ focus = "server"   /\ ServerNext   /\ UNCHANGED <<focus, endpointVars, agentsVars>>
    \/ focus = "agents"   /\ AgentsNext   /\ UNCHANGED <<focus, endpointVars, serverVars>>

\* ServerFairness asks for nothing before RunServer is called; EndpointFairness
\* and AgentsFairness, when the behaviour is about them.
ServiceFairness ==
    /\ WF_endpointVars(focus = "endpoint" /\ HandlerStep)
    /\ WF_endpointVars(focus = "endpoint" /\ PipeGivesUp)
    /\ WF_endpointVars(focus = "endpoint" /\ RequestCtxDone)
    /\ ServerFairness
    /\ WF_agentsVars(focus = "agents" /\ Starter)
    /\ \A a \in Agents : WF_agentsVars(focus = "agents" /\ Agent(a))

ServiceSpec == ServiceInit /\ [][ServiceNext]_serviceVars /\ ServiceFairness

\* Every variable of the three parts has its type.
TypesOK == EndpointTypeOK /\ ServerTypeOK /\ AgentsTypeOK

\* EveryRequestIsAnswered, of the behaviours about a request.
RequestsAreAnswered == focus = "endpoint" => EveryRequestIsAnswered
=============================================================================
