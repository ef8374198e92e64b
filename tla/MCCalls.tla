-------------------------------- MODULE MCCalls --------------------------------
(***************************************************************************)
(* What happens between an endpoint and a backend: the goroutine of a      *)
(* shadow, and one answer over HTTP.  The two share no state, so a         *)
(* behaviour is about one of them (focus) and the other stays in an        *)
(* initial state.                                                          *)
(***************************************************************************)
EXTENDS MCShadow, MCBackendAnswer

VARIABLE focus

callsVars == <<focus, shadowVars, answerVars>>

ShadowIdle == ShadowInit /\ endpoint = CHOOSE e \in Endpoints : TRUE
AnswerIdle == AnswerInit /\ setup = CHOOSE s \in Setups : TRUE

CallsInit ==
    \/ focus = "shadow" /\ AnswerIdle /\ ShadowInit
    \/ focus = "answer" /\ ShadowIdle /\ AnswerInit

CallsNext ==
    \/ focus = "shadow" /\ ShadowNext /\ UNCHANGED <<focus, answerVars>>
    \/ focus = "answer" /\ AnswerNext /\ UNCHANGED <<focus, shadowVars>>

\* ShadowFairness asks for nothing before a request arrives; AnswerFairness,
\* when the behaviour is about the answer.
CallsFairness ==
    /\ ShadowFairness
    /\ WF_answerVars(focus = "answer" /\ ProxyStep)
    /\ WF_answerVars(focus = "answer" /\ closeOnCancel)
    /\ WF_answerVars(focus = "answer" /\ CtxEnds)

CallsSpec == CallsInit /\ [][CallsNext]_callsVars /\ CallsFairness

\* Every variable of the two parts has its type.
TypesOK == ShadowTypeOK /\ AnswerTypeOK

(***************************************************************************)
(* Nothing outlives a backend call for good: the client of a shadowed      *)
(* request is answered and its shadow ends, within the shadow's own        *)
(* timeout when its client has gone; and the stream of an answer is closed *)
(* once the context of the call has ended, whoever read it.                *)
(***************************************************************************)
NothingIsLeftBehind == ShadowsEnd /\ StreamIsClosed
=============================================================================
