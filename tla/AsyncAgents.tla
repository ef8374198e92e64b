----------------------------- MODULE AsyncAgents ------------------------------
(***************************************************************************)
(* AgentStarter.Start (async/asyncagent.go): for each agent of the         *)
(* configuration a proxy is built and the factories are tried until one of *)
(* them takes the agent.  The agents that were taken run in one errgroup,  *)
(* with the options they were given: they connect, and again while         *)
(* ShouldContinue holds, report to AgentPing and consume until the context *)
(* of the group ends.  The reports are read by the goroutine of the health *)
(* endpoint (router/gin/engine.go).                                        *)
(*                                                                         *)
(* The factories and the agents' loops are not part of the repository:     *)
(* they are what the options ask for.                                      *)
(***************************************************************************)
EXTENDS Integers, Sequences, FiniteSets

CONSTANTS
    N,             \* the number of agents
    FactoryCounts, \* how many factories there may be
    Retries,       \* what max_retries may be
    Health,        \* whether the health endpoint is served
    MaxAttempts    \* bound on the attempts of an agent without a limit

ASSUME NumbersAssumption == N \in Nat /\ FactoryCounts \subseteq Nat /\ MaxAttempts \in Nat
ASSUME RetriesAssumption == Retries \subseteq Int /\ Health \in BOOLEAN

Agents == 1 .. N
Unlimited == MaxAttempts + 1   \* math.MaxInt

\* What the function that Start returns may return, next to the number of the
\* agent whose error it is.
Pending == -2
ErrNoAgents == -1
Nil == 0

VARIABLES
    factories,  \* the number of the factories, fixed
    startPc,    \* of Start and what follows it: "next", "offer", "wait", "returned"
    agent,      \* the one Start is about
    offered,    \* per agent, the number of factories that were tried
    taken,      \* per agent, the factories that took it
    broken,     \* those whose proxy cannot be built, fixed
    maxRetries, \* per agent
    state,      \* per agent
    attempt,    \* per agent, the number of the retry
    live,       \* the context of the group
    failure,    \* the group's error: the agent it came from, or Nil
    startResult, \* what the function that Start returned has returned
    reports     \* of the health endpoint

agentsVars == <<factories, startPc, agent, offered, taken, broken, maxRetries, state, attempt, live,
                failure, startResult, reports>>

States == {"none", "connecting", "failed", "reporting",
           "consuming", "ended"}

AgentsTypeOK ==
    /\ factories \in FactoryCounts
    /\ startPc \in {"next", "offer", "wait", "returned"}
    /\ agent \in 1 .. N + 1
    /\ offered \in [Agents -> 0 .. factories]
    /\ taken \in [Agents -> SUBSET (1 .. factories)] /\ broken \subseteq Agents
    /\ \A a \in Agents : taken[a] # {} => maxRetries[a] > 0
    /\ maxRetries \in [Agents -> Retries \cup {Unlimited}]
    /\ state \in [Agents -> States]
    /\ attempt \in [Agents -> 0 .. MaxAttempts + 1]
    /\ live \in BOOLEAN
    /\ failure \in Agents \cup {Nil}
    /\ startResult \in Agents \cup {Pending, ErrNoAgents, Nil}
    /\ reports \subseteq Agents

AgentsInit ==
    /\ factories \in FactoryCounts
    /\ startPc = "next" /\ agent = 1
    /\ offered = [a \in Agents |-> 0] /\ taken = [a \in Agents |-> {}]
    /\ broken \in SUBSET Agents
    /\ maxRetries \in [Agents -> Retries]
    /\ state = [a \in Agents |-> "none"]
    /\ attempt = [a \in Agents |-> 0]
    /\ live = TRUE /\ failure = Nil /\ startResult = Pending /\ reports = {}

Unchanged == UNCHANGED <<factories, broken, live, failure, reports>>

-----------------------------------------------------------------------------
(* Start                                                                   *)

\* Without factories the function it returns has nothing to wait for.
NoFactories ==
    /\ startPc = "next" /\ factories = 0
    /\ startPc' = "returned" /\ startResult' = ErrNoAgents
    /\ UNCHANGED <<agent, offered, taken, maxRetries, state, attempt>> /\ Unchanged

\* The next agent, or the wait: one whose proxy cannot be built is left out.
\* A limit of 0 or less is none.
NextAgent ==
    /\ startPc = "next" /\ factories > 0
    /\ IF agent > N THEN startPc' = "wait" /\ UNCHANGED <<agent, maxRetries>>
       ELSE IF agent \in broken
       THEN agent' = agent + 1 /\ UNCHANGED <<startPc, maxRetries>>
       ELSE /\ startPc' = "offer"
            /\ maxRetries' = [maxRetries EXCEPT ![agent] = IF @ <= 0 THEN Unlimited ELSE @]
            /\ UNCHANGED agent
    /\ UNCHANGED <<offered, taken, state, attempt, startResult>> /\ Unchanged

\* A factory that takes the agent starts it in the group.
Take ==
    /\ taken' = [taken EXCEPT ![agent] = @ \cup {offered'[agent]}]
    /\ state' = [state EXCEPT ![agent] = "connecting"]

\* The factories in their order, up to the first that takes the agent.
Offer ==
    /\ startPc = "offer"
    /\ offered' = [offered EXCEPT ![agent] = @ + 1]
    /\ \/ Take /\ startPc' = "next" /\ agent' = agent + 1
       \/ /\ UNCHANGED <<taken, state>>
          /\ IF offered'[agent] = factories
             THEN startPc' = "next" /\ agent' = agent + 1
             ELSE UNCHANGED <<startPc, agent>>
    /\ UNCHANGED <<maxRetries, attempt, startResult>> /\ Unchanged

\* g.Wait: for all of them; it ends the context.
Wait ==
    /\ startPc = "wait" /\ \A a \in Agents : taken[a] # {} => state[a] = "ended"
    /\ startPc' = "returned"
    /\ startResult' = failure
    /\ live' = FALSE
    /\ UNCHANGED <<factories, agent, offered, taken, broken, maxRetries, state, attempt,
                   failure, reports>>

-----------------------------------------------------------------------------
(* An agent and its options                                                *)

Start == <<factories, startPc, agent, offered, taken, broken, maxRetries, startResult>>

\* The connection is made, or not.
Connect(a) ==
    /\ state[a] = "connecting" /\ live
    /\ \E s \in {"reporting", "failed"} : state' = [state EXCEPT ![a] = s]
    /\ UNCHANGED <<attempt, live, failure, reports>> /\ UNCHANGED Start

ShouldContinue(a, i) == i <= maxRetries[a]

\* A group that has no context: the others do not learn of an error.
RetryAlone(a) ==
    /\ state[a] = "failed" /\ live
    /\ attempt[a] <= MaxAttempts
    /\ attempt' = [attempt EXCEPT ![a] = @ + 1]
    /\ IF ShouldContinue(a, attempt'[a])
       THEN state' = [state EXCEPT ![a] = "connecting"] /\ UNCHANGED failure
       ELSE /\ state' = [state EXCEPT ![a] = "ended"]
            /\ failure' = IF failure = Nil THEN a ELSE failure
    /\ UNCHANGED <<live, reports>> /\ UNCHANGED Start

\* The end of the wait before a retry, or the end of the agent with an error,
\* the first of which ends the group's context.
Retry(a) ==
    /\ state[a] = "failed" /\ live
    /\ attempt[a] <= MaxAttempts
    /\ attempt' = [attempt EXCEPT ![a] = @ + 1]
    /\ IF ShouldContinue(a, attempt'[a])
       THEN state' = [state EXCEPT ![a] = "connecting"] /\ UNCHANGED <<live, failure>>
       ELSE /\ state' = [state EXCEPT ![a] = "ended"]
            /\ failure' = IF failure = Nil THEN a ELSE failure
            /\ live' = FALSE
    /\ UNCHANGED <<reports>> /\ UNCHANGED Start

\* The channel has no buffer: the report is taken by the goroutine of the
\* health endpoint, or not at all.
Report(a) ==
    /\ state[a] = "reporting" /\ live
    /\ Health
    /\ reports' = reports \cup {a}
    /\ state' = [state EXCEPT ![a] = "consuming"]
    /\ UNCHANGED <<attempt, live, failure>> /\ UNCHANGED Start

\* The connection is lost, or it is time for the next report.
Consume(a) ==
    /\ state[a] = "consuming" /\ live
    /\ \E s \in {"reporting", "connecting"} : state' = [state EXCEPT ![a] = s]
    /\ attempt' = [attempt EXCEPT ![a] = IF state'[a] = "connecting" THEN 0 ELSE @]
    /\ UNCHANGED <<live, failure, reports>> /\ UNCHANGED Start

\* The context of the group ends an agent wherever it is; that may return the
\* error of the context.
Stop(a) ==
    /\ state[a] \notin {"none", "ended"} /\ ~live
    /\ state' = [state EXCEPT ![a] = "ended"]
    /\ failure' \in {failure, IF failure = Nil THEN a ELSE failure}
    /\ UNCHANGED <<attempt, live, reports>> /\ UNCHANGED Start

\* The service is told to end.
Cancel ==
    /\ live
    /\ live' = FALSE
    /\ UNCHANGED <<state, attempt, failure, reports>> /\ UNCHANGED Start

AgentsFinished == startPc = "returned" /\ (\A a \in Agents : state[a] \in {"none", "ended"}) /\ UNCHANGED agentsVars

Agent(a) == Connect(a) \/ Retry(a) \/ Report(a) \/ Consume(a) \/ Stop(a)
Starter == NoFactories \/ NextAgent \/ Offer \/ Wait

AgentsNext == Starter \/ (\E a \in Agents : Agent(a)) \/ Cancel \/ AgentsFinished

(***************************************************************************)
(* Start runs, and every agent does what it can do: it connects or fails,  *)
(* waits, reports while somebody listens, and ends with its context.  The  *)
(* end of the service is not promised.                                     *)
(***************************************************************************)
AgentsFairness == /\ WF_agentsVars(Starter)
                  /\ \A a \in Agents : WF_agentsVars(Agent(a))

AgentsSpec == AgentsInit /\ [][AgentsNext]_agentsVars /\ AgentsFairness

-----------------------------------------------------------------------------
(* Properties                                                              *)

(***************************************************************************)
(* The first agent that returns an error takes the others with it, and the *)
(* service learns of it (errgroup.WithContext, asyncagent.go:58, 107).     *)
(***************************************************************************)
FailureEndsTheService == (failure # Nil) ~> (startPc = "returned" /\ startResult = failure)

(***************************************************************************)
(* An agent that has connected is seen at the health endpoint, unless the  *)
(* service ends first: the goroutine behind it takes every report          *)
(* (engine.go:123-129).  Without the endpoint nobody does.                 *)
(***************************************************************************)
ConnectedIsReported ==
    \A a \in Agents : (Health /\ state[a] = "reporting") ~> (a \in reports \/ ~live)

(***************************************************************************)
(* What an agent has to say is heard: its last error by the service, a     *)
(* connection by the health endpoint.                                      *)
(***************************************************************************)
AgentsMakeProgress == FailureEndsTheService /\ ConnectedIsReported
=============================================================================
