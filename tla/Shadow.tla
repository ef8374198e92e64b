------------------------------- MODULE Shadow --------------------------------
(***************************************************************************)
(* The shadow middleware (proxy/shadow.go): an endpoint whose backends are *)
(* partly shadows answers from its regular backends, and a goroutine sends *)
(* a clone of the request to the shadows, whose answer nobody reads.  That *)
(* goroutine outlives the request.  Its context has the deadline of the    *)
(* shadow, and takes its values from the caller's context.  The shadows    *)
(* are built by the factory of any endpoint (proxy/factory.go): several of *)
(* them get a merger, and concurrent_calls the concurrent middleware, each *)
(* with a deadline of its own, a part of the endpoint's timeout.           *)
(*                                                                         *)
(* The caller is a gin handler: the values of its context are those of a   *)
(* *gin.Context, which gin takes from a pool when a request arrives and    *)
(* puts back when the handler returns.                                     *)
(***************************************************************************)
EXTENDS Integers, Sequences, FiniteSetsExt

CONSTANTS Requests,   \* the client's requests
          Contexts,   \* the pool of *gin.Context
          Endpoints   \* the endpoints to check

NoTimeout == -1
NoContext == "none"

\* An endpoint: its timeout, which its backends have too (config.go:617), its
\* concurrent_calls (config.go:618), its backends: shadows or not, with their
\* "shadow_timeout".
Backends == [shadow : BOOLEAN, shadowTimeout : Nat \cup {NoTimeout}]
ASSUME EndpointsAssumption ==
    Endpoints \subseteq [timeout : Nat, concurrentCalls : Nat, backends : Seq(Backends)]

VARIABLES
    endpoint,   \* the configuration, fixed
    phase,      \* [Requests -> {"idle", "serving", "answered"}], the handlers
    ginCtx,     \* [Requests -> Contexts], the *gin.Context of the handler
    holds,      \* [Contexts -> SUBSET Requests], whose values a context has
    callerDone, \* [Requests -> BOOLEAN], the handler's context is done
    shadowBody, \* [Requests -> {"none", "own", "shared"}], the shadow's body
    sent,       \* [Requests -> {"nothing", "whole", "broken"}], what of the
                \* body the shadow has sent
    shadow,     \* [Requests -> {"none", "running", "ended", "cut"}]
    elapsed,    \* [Requests -> Nat], the time the shadow has had
    saw         \* [Requests -> SUBSET Requests], whose values a shadow read

shadowVars == <<endpoint, phase, ginCtx, holds, callerDone, shadowBody, sent, shadow, elapsed, saw>>
goroutineVars == <<shadowBody, sent, shadow, elapsed, saw>>

-----------------------------------------------------------------------------
(* The factory.                                                            *)

\* How long a shadow backend may take.
shadowDuration(e, i) ==
    IF e.backends[i].shadowTimeout # NoTimeout THEN e.backends[i].shadowTimeout ELSE e.timeout

Shadows(e) == {i \in DOMAIN e.backends : e.backends[i].shadow}
Regulars(e) == DOMAIN e.backends \ Shadows(e)

\* A factory that remembers the last shadow.
LastTimeout(e) == IF Shadows(e) = {} THEN 0 ELSE shadowDuration(e, Max(Shadows(e)))

\* The deadline of the context all the shadows share.
maxTimeout(e) == Max({0} \cup {shadowDuration(e, i) : i \in Shadows(e)})

\* serviceTimeout of the merger, which two shadows or more have, and that of the
\* concurrent middleware.
serviceTimeouts(e) ==
    (IF Cardinality(Shadows(e)) > 1 THEN {(85 * e.timeout) \div 100} ELSE {})
        \cup (IF e.concurrentCalls > 1 THEN {(75 * e.timeout) \div 100} ELSE {})

\* The endpoint is built: with shadows only, the factory of the regular ones
\* answers ErrNoBackends.
Built(e) == Regulars(e) # {}

ShadowTypeOK ==
    /\ endpoint \in Endpoints
    /\ phase \in [Requests -> {"idle", "serving", "answered"}]
    /\ ginCtx \in [Requests -> Contexts \cup {NoContext}]
    /\ holds \in [Contexts -> SUBSET Requests]
    /\ callerDone \in [Requests -> BOOLEAN]
    /\ shadowBody \in [Requests -> {"none", "own", "shared"}]
    /\ sent \in [Requests -> {"nothing", "whole", "broken"}]
    /\ shadow \in [Requests -> {"none", "running", "ended", "cut"}]
    /\ elapsed \in [Requests -> 0 .. maxTimeout(endpoint)]
    /\ saw \in [Requests -> SUBSET Requests]

ShadowInit ==
    /\ endpoint \in Endpoints
    /\ phase = [r \in Requests |-> "idle"]
    /\ ginCtx = [r \in Requests |-> NoContext]
    /\ holds = [c \in Contexts |-> {}]
    /\ callerDone = [r \in Requests |-> FALSE]
    /\ shadowBody = [r \in Requests |-> "none"]
    /\ sent = [r \in Requests |-> "nothing"]
    /\ shadow = [r \in Requests |-> "none"]
    /\ elapsed = [r \in Requests |-> 0]
    /\ saw = [r \in Requests |-> {}]

-----------------------------------------------------------------------------
(* The handler, with the shadow proxy it calls.                            *)

InUse == {ginCtx[r] : r \in {q \in Requests : phase[q] = "serving"}}

\* newContextWrapperWithTimeout, CloneRequest, go p2(...).
StartShadow(r) ==
    /\ shadowBody' = [shadowBody EXCEPT ![r] = "own"]
    /\ shadow' = [shadow EXCEPT ![r] = "running"]
    /\ UNCHANGED <<sent, elapsed, saw>>

\* gin takes a context out of the pool and resets it; the handler calls the
\* proxy.
Arrive(r, c) ==
    /\ phase[r] = "idle" /\ c \notin InUse /\ Built(endpoint)
    /\ phase' = [phase EXCEPT ![r] = "serving"]
    /\ ginCtx' = [ginCtx EXCEPT ![r] = c]
    /\ holds' = [holds EXCEPT ![c] = {r}]
    /\ IF Shadows(endpoint) = {} THEN UNCHANGED goroutineVars ELSE StartShadow(r)
    /\ UNCHANGED <<endpoint, callerDone>>

\* The client goes away, or the endpoint's timeout fires.
CallerDone(r) ==
    /\ phase[r] = "serving" /\ ~callerDone[r]
    /\ callerDone' = [callerDone EXCEPT ![r] = TRUE]
    /\ UNCHANGED <<endpoint, phase, ginCtx, holds, goroutineVars>>

\* A shadow proxy that calls p2 before p1, on the handler's goroutine.
AnswerAfterShadow(r) ==
    /\ phase[r] = "serving" /\ shadow[r] # "running"
    /\ phase' = [phase EXCEPT ![r] = "answered"]
    /\ callerDone' = [callerDone EXCEPT ![r] = TRUE]
    /\ UNCHANGED <<endpoint, ginCtx, holds, goroutineVars>>

\* p1 returns, the handler answers and cancels its context.
Answer(r) ==
    /\ phase[r] = "serving"
    /\ phase' = [phase EXCEPT ![r] = "answered"]
    /\ callerDone' = [callerDone EXCEPT ![r] = TRUE]
    /\ UNCHANGED <<endpoint, ginCtx, holds, goroutineVars>>

-----------------------------------------------------------------------------
(* The goroutine of the shadow.                                            *)

\* contextWrapper: the embedded context is a child of context.Background().  The
\* calls of the backends end with it or with a context below it.
shadowDone(r) ==
    \E t \in {maxTimeout(endpoint)} \cup serviceTimeouts(endpoint) : elapsed[r] >= t

\* contextWrapper.Value: asks the caller's context.
ReadValue(r) ==
    /\ shadow[r] = "running"
    /\ saw' = [saw EXCEPT ![r] = @ \cup holds[ginCtx[r]]]
    /\ UNCHANGED <<endpoint, phase, ginCtx, holds, callerDone, shadowBody, sent, shadow, elapsed>>

\* The body is sent: the server closes the handler's own when it has answered.
SendBody(r) ==
    /\ shadow[r] = "running" /\ sent[r] = "nothing"
    /\ sent' = [sent EXCEPT ![r] =
                   IF shadowBody[r] = "shared" /\ phase[r] = "answered" THEN "broken"
                                                                       ELSE "whole"]
    /\ UNCHANGED <<endpoint, phase, ginCtx, holds, callerDone, shadowBody, shadow, elapsed, saw>>

\* p2 returns, cancel().
ShadowEnds(r) ==
    /\ shadow[r] = "running"
    /\ shadow' = [shadow EXCEPT ![r] = "ended"]
    /\ UNCHANGED <<endpoint, phase, ginCtx, holds, callerDone, shadowBody, sent, elapsed, saw>>

\* p2 returns because the context of its calls is done.
ShadowCut(r) ==
    /\ shadow[r] = "running" /\ shadowDone(r)
    /\ shadow' = [shadow EXCEPT ![r] = "cut"]
    /\ UNCHANGED <<endpoint, phase, ginCtx, holds, callerDone, shadowBody, sent, elapsed, saw>>

\* Time passes, up to the deadline of the shadow.
Tick(r) ==
    /\ shadow[r] = "running" /\ elapsed[r] < maxTimeout(endpoint)
    /\ elapsed' = [elapsed EXCEPT ![r] = @ + 1]
    /\ UNCHANGED <<endpoint, phase, ginCtx, holds, callerDone, shadowBody, sent, shadow, saw>>

ShadowFinished ==
    /\ Built(endpoint) => \A r \in Requests : /\ phase[r] = "answered"
                                              /\ shadow[r] # "running"
    /\ UNCHANGED shadowVars

ShadowNext ==
    \/ \E r \in Requests :
        \/ \E c \in Contexts : Arrive(r, c)
        \/ CallerDone(r) \/ Answer(r)
        \/ ReadValue(r) \/ SendBody(r) \/ ShadowEnds(r) \/ ShadowCut(r)
        \/ Tick(r)
    \/ ShadowFinished

(***************************************************************************)
(* The regular proxy returns and time passes.  That a shadow proxy returns *)
(* once its context is done (ShadowsHeedTheirContext) is assumed only      *)
(* where a property says so.                                               *)
(***************************************************************************)
ShadowFairness ==
    \A r \in Requests : WF_shadowVars(Answer(r)) /\ WF_shadowVars(Tick(r))

ShadowsHeedTheirContext == \A r \in Requests : WF_shadowVars(ShadowCut(r))

ShadowSpec == ShadowInit /\ [][ShadowNext]_shadowVars /\ ShadowFairness

-----------------------------------------------------------------------------
(* Properties                                                              *)

(***************************************************************************)
(* A shadow is not cut by the end of the request it was cloned from        *)
(* (shadow.go:168-174), nor by the deadline of another shadow, shorter and *)
(* listed after it (shadow.go:40-44, 53).  A lone shadow has all of its    *)
(* time.  One of several, or of an endpoint with concurrent_calls, has no  *)
(* more than 85% or 75% of the endpoint's timeout, however long its        *)
(* shadow_timeout is: the middlewares below the shadow's context cut it    *)
(* (shadow.go:50-53, factory.go:81, 96-98, merging.go:29,                  *)
(* concurrent.go:22), although the factory "Sets the "shadow_timeout"      *)
(* defined in the config" (shadow.go:23).                                  *)
(***************************************************************************)
CutOnlyAfterItsTime ==
    \A r \in Requests : shadow[r] = "cut" =>
        \/ \A i \in Shadows(endpoint) : shadowDuration(endpoint, i) <= elapsed[r]
        \/ /\ Cardinality(Shadows(endpoint)) > 1
           /\ (85 * endpoint.timeout) \div 100 <= elapsed[r]
        \/ /\ endpoint.concurrentCalls > 1
           /\ (75 * endpoint.timeout) \div 100 <= elapsed[r]

(***************************************************************************)
(* The shadow has the client's body whole, even when the handler has sent  *)
(* or closed its own: CloneRequest reads it before the goroutine starts    *)
(* (shadow.go:118-119).  What several shadows make of the one body that    *)
(* they are handed is the matter of RequestSharing.                        *)
(***************************************************************************)
ShadowSendsTheBody == \A r \in Requests : sent[r] # "broken"

(***************************************************************************)
(* What a shadow reads through the caller's context are the values of its  *)
(* own request as long as that is served. Afterwards they may be another   *)
(* request's (the context goes back to gin's pool), but only one's that    *)
(* was given the very same context: nothing else is mixed up               *)
(* (shadow.go:165-174).                                                    *)
(***************************************************************************)
ValuesOfItsContext ==
    \A r \in Requests : /\ phase[r] = "serving" => saw[r] \subseteq {r}
                        /\ saw[r] \subseteq {q \in Requests : ginCtx[q] = ginCtx[r]}

(***************************************************************************)
(* A shadow is apart from the request it was cloned from: neither that     *)
(* request's end, nor its body, nor the values of others served meanwhile  *)
(* reach it before its own deadlines or the reuse of its context.          *)
(***************************************************************************)
ShadowIsApart == CutOnlyAfterItsTime /\ ShadowSendsTheBody /\ ValuesOfItsContext

(***************************************************************************)
(* The client is answered whatever the shadows do, even if they ignore     *)
(* their context and never return, and no goroutine is left behind: a      *)
(* shadow that heeds its context ends, by its deadline if nothing else     *)
(* (shadow.go:119-123). A request is served once and has one shadow at     *)
(* most.                                                                   *)
(***************************************************************************)
ShadowsEnd ==
    /\ []<>(\A r \in Requests : phase[r] # "serving")
    /\ ShadowsHeedTheirContext => []<>(\A r \in Requests : shadow[r] # "running")
=============================================================================
