------------------------------ MODULE CallsProofs ------------------------------
(***************************************************************************)
(* Proofs about what happens between an endpoint and a backend: the        *)
(* goroutine of a shadow (Shadow), the host that a call is sent to         *)
(* (SrvRecords on the answers of SrvAnswers, LoadBalancer), one answer     *)
(* over HTTP (BackendAnswer) and the waits between retries (Backoff).      *)
(***************************************************************************)
EXTENDS MCCalls, LoadBalancer, SrvAnswers, Backoff,
        FiniteSetTheorems, FunctionTheorems, WellFoundedInduction, TLAPS

-----------------------------------------------------------------------------
\* A set of natural numbers that is not empty has a least one.
LEMMA LeastNumber ==
    ASSUME NEW S, S \subseteq Nat, S # {}
    PROVE  \E k \in S : \A j \in S : k <= j
<1>1. PICK k \in S : \A j \in S : <<j, k>> \notin OpToRel(<, Nat)
  BY NatLessThanWellFounded, WFMin
<1>2. \A j \in S : ~ (j < k)
  BY <1>1 DEF OpToRel
<1> QED
  BY <1>2

-----------------------------------------------------------------------------
(* The deadline that the shadows of an endpoint share.                     *)

\* The times that the deadline is chosen from.
Times(e) == {0} \cup {shadowDuration(e, i) : i \in Shadows(e)}

\* What a shadow may take is a natural number.
LEMMA DurationType ==
    ASSUME NEW e \in Endpoints, NEW i \in DOMAIN e.backends
    PROVE  shadowDuration(e, i) \in Nat
<1>1. e.backends \in Seq(Backends) /\ e.timeout \in Nat
  BY EndpointsAssumption
<1>2. e.backends[i] \in Backends
  BY <1>1
<1> QED
  BY <1>1, <1>2 DEF Backends, shadowDuration

\* A finite list of shadows has a longest one: the first prefix without a bound
\* would get one from the prefix before it.
LEMMA TimesAreBounded ==
    ASSUME NEW e \in Endpoints
    PROVE  \E m \in Nat : \A t \in Times(e) : t <= m
<1> DEFINE Bounded(k) == \E m \in Nat : \A i \in Shadows(e) :
                             i <= k => shadowDuration(e, i) <= m
<1>1. /\ Len(e.backends) \in Nat /\ DOMAIN e.backends = 1 .. Len(e.backends)
      /\ Shadows(e) \subseteq 1 .. Len(e.backends)
  BY EndpointsAssumption DEF Shadows
<1>2. Bounded(0)
  BY <1>1
<1>3. ASSUME NEW k \in Nat, Bounded(k) PROVE Bounded(k + 1)
  <2>1. PICK m \in Nat : \A i \in Shadows(e) : i <= k => shadowDuration(e, i) <= m
    BY <1>3
  <2>2. CASE k + 1 \in Shadows(e)
    <3> DEFINE d == shadowDuration(e, k + 1)
               n == IF m <= d THEN d ELSE m
    <3>1. d \in Nat
      BY <1>1, <2>2, DurationType
    <3>2. \A i \in Shadows(e) : shadowDuration(e, i) \in Nat
      BY <1>1, DurationType
    <3>3. \A i \in Shadows(e) : i <= k + 1 => i <= k \/ i = k + 1
      BY <1>1
    <3> HIDE DEF d
    <3>4. n \in Nat /\ d <= n /\ m <= n
      BY <3>1
    <3>5. \A i \in Shadows(e) : i <= k + 1 => shadowDuration(e, i) <= n
      <4> SUFFICES ASSUME NEW i \in Shadows(e), i <= k + 1
                   PROVE  shadowDuration(e, i) <= n
        OBVIOUS
      <4>1. CASE i <= k
        BY <2>1, <3>2, <3>4, <4>1
      <4>2. CASE i = k + 1
        BY <3>4, <4>2 DEF d
      <4> QED
        BY <3>3, <4>1, <4>2
    <3> QED
      BY <3>4, <3>5
  <2>3. CASE k + 1 \notin Shadows(e)
    <3>1. \A i \in Shadows(e) : i <= k + 1 => i <= k
      BY <1>1, <2>3
    <3> QED
      BY <2>1, <3>1
  <2> QED
    BY <2>2, <2>3
<1> HIDE DEF Bounded
<1>4. Bounded(Len(e.backends))
  <2> DEFINE Unbounded == {k \in Nat : ~Bounded(k)}
  <2> SUFFICES ASSUME Unbounded # {} PROVE FALSE
    BY <1>1
  <2>1. PICK k \in Unbounded : \A j \in Unbounded : k <= j
    BY LeastNumber
  <2>2. k # 0 /\ k - 1 \in Nat
    BY <1>2
  <2>3. Bounded(k - 1)
    BY <2>1, <2>2
  <2>4. Bounded(k - 1 + 1)
    BY <1>3, <2>2, <2>3
  <2> QED
    BY <2>4
<1>5. PICK m \in Nat : \A i \in Shadows(e) : i <= Len(e.backends) => shadowDuration(e, i) <= m
  BY <1>4 DEF Bounded
<1>6. \A i \in Shadows(e) : i <= Len(e.backends)
  BY <1>1
<1>7. \A t \in Times(e) : t <= m
  BY <1>5, <1>6 DEF Times
<1> QED
  BY <1>7

\* The deadline is one of the times, and no shadow is granted more.
LEMMA DeadlineIsTheLongest ==
    ASSUME NEW e \in Endpoints
    PROVE  /\ maxTimeout(e) \in Nat
           /\ \A i \in Shadows(e) : shadowDuration(e, i) <= maxTimeout(e)
<1>1. PICK m \in Nat : \A t \in Times(e) : t <= m
  BY TimesAreBounded
<1>2. Times(e) \subseteq Nat
  BY DurationType DEF Times, Shadows
<1> DEFINE Gaps == {g \in Nat : \E t \in Times(e) : g = m - t}
<1>3. 0 \in Times(e)
  BY DEF Times
<1>4. Gaps # {}
  BY <1>1, <1>3
<1>5. PICK g \in Gaps : \A h \in Gaps : g <= h
  BY <1>4, LeastNumber
<1>6. PICK t \in Times(e) : g = m - t
  BY <1>5
<1>7. \A u \in Times(e) : t >= u
  <2> SUFFICES ASSUME NEW u \in Times(e) PROVE t >= u
    OBVIOUS
  <2>1. m - u \in Gaps
    BY <1>1, <1>2
  <2> QED
    BY <1>2, <1>5, <1>6, <2>1
<1>8. maxTimeout(e) = Max(Times(e))
  BY DEF maxTimeout, Times
<1>9. Max(Times(e)) \in Times(e) /\ \A u \in Times(e) : Max(Times(e)) >= u
  BY <1>6, <1>7 DEF Max
<1> QED
  BY <1>2, <1>8, <1>9 DEF Times

-----------------------------------------------------------------------------
(* The shadow middleware.                                                  *)

\* A request that has arrived has a context, and only then a shadow.
ContextInv ==
    \A r \in Requests :
        /\ phase[r] # "idle" => ginCtx[r] \in Contexts
        /\ shadow[r] # "none" \/ saw[r] # {} => phase[r] # "idle"

\* The values of a context are those of a request that was given it, and of the
\* one it is serving.
ValuesInv ==
    /\ \A c \in Contexts : \A q \in holds[c] : phase[q] # "idle" /\ ginCtx[q] = c
    /\ \A r \in Requests : phase[r] = "serving" => holds[ginCtx[r]] = {r}
    /\ \A r \in Requests : \A q \in saw[r] : phase[q] # "idle" /\ ginCtx[q] = ginCtx[r]
    /\ \A r \in Requests : phase[r] = "serving" => saw[r] \subseteq {r}

\* Clones have bodies of their own, and a shadow is cut at a deadline.
CloneInv ==
    /\ \A r \in Requests : shadowBody[r] # "shared" /\ sent[r] # "broken"
    /\ \A r \in Requests : shadow[r] = "cut" => shadowDone(r)

ShadowIInv == ShadowTypeOK /\ ContextInv /\ ValuesInv /\ CloneInv

\* A request has just one context while it is served.
LEMMA ArriveInv ==
    ASSUME ShadowIInv, NEW r \in Requests, NEW c \in Contexts, Arrive(r, c)
    PROVE  ShadowIInv'
<1> USE DEF ShadowIInv
<1>1. ShadowTypeOK'
  BY DEF Arrive, StartShadow, goroutineVars, ShadowTypeOK
<1>2. /\ phase[r] = "idle" /\ phase'[r] = "serving" /\ ginCtx'[r] = c
      /\ holds'[c] = {r} /\ saw' = saw /\ elapsed' = elapsed /\ endpoint' = endpoint
      /\ sent' = sent
      /\ \A q \in Requests : q # r => /\ phase'[q] = phase[q] /\ ginCtx'[q] = ginCtx[q]
                                      /\ shadow'[q] = shadow[q]
      /\ \A d \in Contexts : d # c => holds'[d] = holds[d]
      /\ \A q \in Requests : phase[q] = "serving" => ginCtx[q] # c
  BY DEF Arrive, StartShadow, goroutineVars, ShadowTypeOK, InUse
<1>3. ContextInv'
  BY <1>2 DEF ContextInv
<1>4. ValuesInv'
  <2>1. ASSUME NEW d \in Contexts, NEW q \in holds'[d]
        PROVE  phase'[q] # "idle" /\ ginCtx'[q] = d
    BY <1>2, <2>1 DEF ValuesInv, ShadowTypeOK
  <2>2. ASSUME NEW q \in Requests, phase'[q] = "serving"
        PROVE  holds'[ginCtx'[q]] = {q} /\ saw'[q] \subseteq {q}
    BY <1>2, <2>2 DEF ValuesInv, ContextInv
  <2>3. ASSUME NEW p \in Requests, NEW q \in saw'[p]
        PROVE  phase'[q] # "idle" /\ ginCtx'[q] = ginCtx'[p]
    BY <1>2, <2>3 DEF ValuesInv, ContextInv, ShadowTypeOK
  <2> QED
    BY <2>1, <2>2, <2>3 DEF ValuesInv
<1>5. CloneInv'
  <2>1. \A q \in Requests : shadowBody'[q] \in {shadowBody[q], "own"}
    BY DEF Arrive, StartShadow, goroutineVars, ShadowTypeOK
  <2>2. \A q \in Requests : shadow'[q] = "cut" => shadow[q] = "cut"
    BY DEF Arrive, StartShadow, goroutineVars, ShadowTypeOK
  <2> QED
    BY <1>2, <2>1, <2>2 DEF CloneInv, shadowDone
<1> QED
  BY <1>1, <1>3, <1>4, <1>5

\* A shadow may read the values of the context it was started with.
LEMMA ReadInv ==
    ASSUME ShadowIInv, NEW r \in Requests, ReadValue(r)
    PROVE  ShadowIInv'
<1> USE DEF ShadowIInv
<1>1. ginCtx[r] \in Contexts
  BY DEF ReadValue, ContextInv
<1>2. /\ saw'[r] = saw[r] \cup holds[ginCtx[r]]
      /\ \A q \in Requests : q # r => saw'[q] = saw[q]
  BY DEF ReadValue, ShadowTypeOK
<1>3. ShadowTypeOK'
  BY <1>1 DEF ReadValue, ShadowTypeOK
<1>4. ContextInv'
  BY <1>2 DEF ReadValue, ContextInv
<1>5. ValuesInv'
  <2>1. UNCHANGED <<phase, ginCtx, holds>>
    BY DEF ReadValue
  <2>2. ASSUME NEW p \in Requests, NEW q \in saw'[p]
        PROVE  phase[q] # "idle" /\ ginCtx[q] = ginCtx[p]
    BY <1>1, <1>2, <2>2 DEF ValuesInv
  <2>3. ASSUME NEW q \in Requests, phase[q] = "serving" PROVE saw'[q] \subseteq {q}
    BY <1>2, <2>3 DEF ValuesInv
  <2> QED
    BY <2>1, <2>2, <2>3 DEF ValuesInv
<1>6. CloneInv'
  BY DEF ReadValue, CloneInv, shadowDone
<1> QED
  BY <1>3, <1>4, <1>5, <1>6

\* The other steps of a shadow change its own state only.
LEMMA GoroutineInv ==
    ASSUME ShadowIInv, NEW r \in Requests,
           SendBody(r) \/ ShadowEnds(r) \/ ShadowCut(r) \/ Tick(r)
    PROVE  ShadowIInv'
<1> USE DEF ShadowIInv
<1>1. UNCHANGED <<endpoint, phase, ginCtx, holds, callerDone, shadowBody, saw>>
  BY DEF SendBody, ShadowEnds, ShadowCut, Tick
<1>2. maxTimeout(endpoint) \in Nat
  BY DeadlineIsTheLongest DEF ShadowTypeOK
<1>3. /\ shadow[r] = "running"
      /\ shadow' \in [Requests -> {"none", "running", "ended", "cut"}]
      /\ sent' \in [Requests -> {"nothing", "whole"}] \/ sent' = sent
      /\ elapsed' \in [Requests -> 0 .. maxTimeout(endpoint)]
  <2>1. CASE SendBody(r)
    <3>1. sent'[r] = "whole" /\ sent' = [sent EXCEPT ![r] = sent'[r]]
      BY <2>1 DEF SendBody, CloneInv, ShadowTypeOK
    <3> QED
      BY <2>1, <3>1 DEF SendBody, CloneInv, ShadowTypeOK
  <2>2. CASE ShadowEnds(r) \/ ShadowCut(r)
    BY <2>2 DEF ShadowEnds, ShadowCut, ShadowTypeOK
  <2>3. CASE Tick(r)
    BY <1>2, <2>3 DEF Tick, ShadowTypeOK
  <2> QED
    BY <2>1, <2>2, <2>3
<1>4. \A q \in Requests : /\ shadow'[q] = "none" <=> shadow[q] = "none"
                          /\ shadow'[q] = "cut" => shadowDone(q)'
  BY <1>2, <1>3 DEF SendBody, ShadowEnds, ShadowCut, Tick, shadowDone, ShadowTypeOK, CloneInv
<1>5. ShadowTypeOK'
  BY <1>1, <1>3 DEF ShadowTypeOK
<1>6. ContextInv' /\ ValuesInv'
  BY <1>1, <1>4 DEF ContextInv, ValuesInv
<1>7. CloneInv'
  BY <1>1, <1>3, <1>4 DEF CloneInv
<1> QED
  BY <1>5, <1>6, <1>7

\* The invariant of the shadow middleware, with the types it needs.
THEOREM ShadowInvariance == ShadowInit /\ [][ShadowNext]_shadowVars => []ShadowIInv
<1>1. ShadowInit => ShadowIInv
  <2> SUFFICES ASSUME ShadowInit PROVE ShadowIInv
    OBVIOUS
  <2>1. 0 \in 0 .. maxTimeout(endpoint)
    BY DeadlineIsTheLongest DEF ShadowInit
  <2> QED
    BY <2>1 DEF ShadowInit, ShadowIInv, ShadowTypeOK, ContextInv, ValuesInv, CloneInv
<1>2. ShadowIInv /\ [ShadowNext]_shadowVars => ShadowIInv'
  <2> SUFFICES ASSUME ShadowIInv, [ShadowNext]_shadowVars PROVE ShadowIInv'
    OBVIOUS
  <2>1. CASE \E r \in Requests, c \in Contexts : Arrive(r, c)
    BY <2>1, ArriveInv
  <2>2. CASE \E r \in Requests : CallerDone(r) \/ Answer(r)
    <3>1. PICK r \in Requests : CallerDone(r) \/ Answer(r)
      BY <2>2
    <3>2. /\ UNCHANGED <<endpoint, ginCtx, holds, goroutineVars>>
          /\ callerDone' = [callerDone EXCEPT ![r] = TRUE]
          /\ phase' = phase \/ (phase[r] = "serving" /\ phase' = [phase EXCEPT ![r] = "answered"])
      BY <3>1 DEF CallerDone, Answer
    <3>3. \A q \in Requests : /\ phase'[q] = "idle" <=> phase[q] = "idle"
                              /\ phase'[q] = "serving" => phase[q] = "serving"
      BY <3>2 DEF ShadowIInv, ShadowTypeOK
    <3>4. ShadowTypeOK'
      BY <3>2 DEF goroutineVars, ShadowIInv, ShadowTypeOK
    <3>5. ContextInv' /\ CloneInv'
      BY <3>2, <3>3 DEF goroutineVars, ShadowIInv, ContextInv, CloneInv, shadowDone
    <3>6. ValuesInv'
      BY <3>2, <3>3 DEF goroutineVars, ShadowIInv, ValuesInv, ShadowTypeOK
    <3> QED
      BY <3>4, <3>5, <3>6 DEF ShadowIInv
  <2>3. CASE \E r \in Requests : ReadValue(r)
    BY <2>3, ReadInv
  <2>4. CASE \E r \in Requests : SendBody(r) \/ ShadowEnds(r) \/ ShadowCut(r) \/ Tick(r)
    BY <2>4, GoroutineInv
  <2>5. CASE UNCHANGED shadowVars
    BY <2>5 DEF shadowVars, ShadowIInv, ShadowTypeOK, ContextInv, ValuesInv, CloneInv,
                  shadowDone
  <2> QED
    BY <2>1, <2>2, <2>3, <2>4, <2>5 DEF ShadowNext, ShadowFinished
<1> QED
  BY <1>1, <1>2, PTL

(***************************************************************************)
(* The variables of the shadow middleware keep their types: no shadow has  *)
(* more time than the deadline it shares (shadow.go:40-57).                *)
(***************************************************************************)
THEOREM ShadowTypeCorrect == ShadowSpec => []ShadowTypeOK
<1>1. ShadowIInv => ShadowTypeOK
  BY DEF ShadowIInv
<1> QED
  BY <1>1, ShadowInvariance, PTL DEF ShadowSpec

\* What the shadow middleware promises follows from its invariant.
LEMMA ShadowPromise == ShadowIInv => ShadowIsApart
<1> SUFFICES ASSUME ShadowIInv PROVE ShadowIsApart
  OBVIOUS
<1>1. CutOnlyAfterItsTime
  <2>1. ASSUME NEW t \in serviceTimeouts(endpoint)
        PROVE  \/ Cardinality(Shadows(endpoint)) > 1 /\ t = (85 * endpoint.timeout) \div 100
               \/ endpoint.concurrentCalls > 1 /\ t = (75 * endpoint.timeout) \div 100
    BY DEF serviceTimeouts
  <2>2. ASSUME NEW r \in Requests, shadow[r] = "cut"
        PROVE  \/ \A i \in Shadows(endpoint) : shadowDuration(endpoint, i) <= elapsed[r]
               \/ \E t \in serviceTimeouts(endpoint) : t <= elapsed[r]
    <3>1. /\ endpoint \in Endpoints /\ maxTimeout(endpoint) \in Nat
          /\ elapsed[r] \in 0 .. maxTimeout(endpoint)
      BY DeadlineIsTheLongest DEF ShadowIInv, ShadowTypeOK
    <3>2. \A i \in Shadows(endpoint) : shadowDuration(endpoint, i) \in Nat
      BY <3>1, DurationType DEF Shadows
    <3>3. \A i \in Shadows(endpoint) : shadowDuration(endpoint, i) <= maxTimeout(endpoint)
      BY <3>1, DeadlineIsTheLongest
    <3>4. shadowDone(r)
      BY <2>2 DEF ShadowIInv, CloneInv
    <3>5. elapsed[r] >= maxTimeout(endpoint) \/ \E t \in serviceTimeouts(endpoint) : t <= elapsed[r]
      BY <3>4 DEF shadowDone
    <3>6. ASSUME elapsed[r] >= maxTimeout(endpoint)
          PROVE  \A i \in Shadows(endpoint) : shadowDuration(endpoint, i) <= elapsed[r]
      BY <3>1, <3>2, <3>3, <3>6
    <3> QED
      BY <3>5, <3>6
  <2>3. ASSUME NEW r \in Requests, shadow[r] = "cut",
               NEW t \in serviceTimeouts(endpoint), t <= elapsed[r]
        PROVE  \/ /\ Cardinality(Shadows(endpoint)) > 1
                  /\ (85 * endpoint.timeout) \div 100 <= elapsed[r]
               \/ /\ endpoint.concurrentCalls > 1
                  /\ (75 * endpoint.timeout) \div 100 <= elapsed[r]
    BY <2>1, <2>3
  <2> QED
    BY <2>2, <2>3 DEF CutOnlyAfterItsTime
<1>2. ShadowSendsTheBody
  BY DEF ShadowIInv, CloneInv, ShadowSendsTheBody
<1>3. ValuesOfItsContext
  BY DEF ShadowIInv, ShadowTypeOK, ValuesInv, ValuesOfItsContext
<1> QED
  BY <1>1, <1>2, <1>3 DEF ShadowIsApart

(***************************************************************************)
(* A shadow is apart from the request it was cloned from, for any number   *)
(* of requests, of pooled contexts and of shadow backends: it is cut only  *)
(* after the time of each of them or, where a merger (several shadows) or  *)
(* the concurrent middleware stands below its context, after 85% or 75% of *)
(* the endpoint's timeout; it sends the whole body, and reads values of    *)
(* requests that were given its context only (shadow.go:40-124, 156-174,   *)
(* merging.go:29, concurrent.go:22).                                       *)
(***************************************************************************)
THEOREM ShadowApart == ShadowSpec => []ShadowIsApart
<1>1. ShadowIInv => ShadowIsApart
  BY ShadowPromise
<1> QED
  BY <1>1, ShadowInvariance, PTL DEF ShadowSpec

-----------------------------------------------------------------------------
(* One answer of a backend.                                                *)

\* Until its return the proxy holds nothing but the answer, whose body is open.
ProgressInv ==
    /\ proxyPc \in {"build", "call"} =>
          proxyReply = NoReply /\ answer = NoAnswer /\ answerBody = "none"
    /\ proxyPc = "deadline" =>
          \/ proxyReply = NoReply /\ answer \in Answers /\ answerBody = "open"
          \/ proxyReply = Failure("network") /\ answer = NoAnswer /\ answerBody = "none"
    /\ proxyPc \in {"status", "parse"} =>
          proxyReply = NoReply /\ answer \in Answers /\ answerBody = "open"
    /\ proxyPc = "parse" => Accepted

AnswerIInv == AnswerTypeOK /\ AnswerIsTold /\ ProgressInv

\* The replies of the proxy have their type.
LEMMA ReplyTypes ==
    /\ NoReply \in Replies
    /\ NoReply.error = "none" /\ ~NoReply.complete /\ ~NoReply.stream
    /\ \A kind \in {"network", "context", "status", "decode"} :
          /\ Failure(kind) \in Replies
          /\ Failure(kind).error = kind /\ ~Failure(kind).complete
          /\ ~Failure(kind).stream /\ Failure(kind).status = 0
<1>1. NoReply \in Replies
  BY DEF NoReply, Replies
<1>2. ASSUME NEW kind \in {"network", "context", "status", "decode"}
      PROVE  Failure(kind) \in Replies
  BY <1>1, <1>2 DEF Failure, Replies
<1> QED
  BY <1>1, <1>2 DEF NoReply, Failure

\* Only the return, the end of the context and the wrapper of a stream touch
\* what was promised; the rest is on the way.
LEMMA StreamInv ==
    ASSUME AnswerIInv, closeOnCancel \/ CtxEnds
    PROVE  AnswerIInv'
<1> USE DEF AnswerIInv
<1>1. /\ UNCHANGED <<setup, proxyPc, incoming, buffer, received, answer, proxyReply>>
      /\ callCtx' \in {callCtx, "done"} /\ callCtx' \in {"live", "done"}
      /\ answerBody' = answerBody \/ (proxyReply.stream /\ callCtx' = "done" /\ answerBody' = "closed")
  BY DEF closeOnCancel, CtxEnds, AnswerTypeOK
<1>2. AnswerTypeOK'
  BY <1>1 DEF AnswerTypeOK
<1>3. proxyReply.stream => proxyPc = "returned"
  BY ReplyTypes DEF ProgressInv, AnswerTypeOK
<1>4. ProgressInv'
  BY <1>1, <1>3 DEF ProgressInv, Accepted, StatusHandler
<1>5. AnswerIsTold'
  BY <1>1 DEF AnswerIsTold, CompleteIsTheAnswer, RefusalIsTold, OnlyRefusedBodiesAreLeft,
              StreamStaysOpen, Returned
<1> QED
  BY <1>2, <1>4, <1>5

\* Reading the body, the call and the check of the deadline.
LEMMA RequestInv ==
    ASSUME AnswerIInv, ReadBody \/ Execute \/ CheckDeadline
    PROVE  AnswerIInv'
<1> USE DEF AnswerIInv
<1>1. CASE ReadBody
  <2>1. AnswerTypeOK'
    BY <1>1, ReplyTypes DEF ReadBody, ReturnReply, AnswerTypeOK, ProgressInv
  <2>2. ProgressInv'
    BY <1>1 DEF ReadBody, ReturnReply, ProgressInv
  <2>3. AnswerIsTold'
    BY <1>1, ReplyTypes
       DEF ReadBody, ReturnReply, ProgressInv, NoAnswer,
           AnswerIsTold, CompleteIsTheAnswer, RefusalIsTold, OnlyRefusedBodiesAreLeft,
           StreamStaysOpen, Returned
  <2> QED
    BY <2>1, <2>2, <2>3
<1>2. CASE Execute
  <2>1. AnswerTypeOK'
    BY <1>2, ReplyTypes DEF Execute, Sent, AnswerTypeOK, ProgressInv
  <2>2. ProgressInv'
    BY <1>2 DEF Execute, ProgressInv
  <2>3. AnswerIsTold'
    BY <1>2, <2>2, ReplyTypes
       DEF Execute, ProgressInv,
           AnswerIsTold, CompleteIsTheAnswer, RefusalIsTold, OnlyRefusedBodiesAreLeft,
           StreamStaysOpen, Returned
  <2> QED
    BY <2>1, <2>2, <2>3
<1>3. CASE CheckDeadline
  <2>1. AnswerTypeOK'
    BY <1>3, ReplyTypes DEF CheckDeadline, ReturnReply, AnswerTypeOK
  <2>2. ProgressInv'
    BY <1>3, ReplyTypes DEF CheckDeadline, ReturnReply, ProgressInv
  <2>3. AnswerIsTold'
    BY <1>3, <2>2, ReplyTypes
       DEF CheckDeadline, ReturnReply, ProgressInv, NoAnswer,
           AnswerIsTold, CompleteIsTheAnswer, RefusalIsTold, OnlyRefusedBodiesAreLeft,
           StreamStaysOpen, Returned
  <2> QED
    BY <2>1, <2>2, <2>3
<1> QED
  BY <1>1, <1>2, <1>3

\* A read of the body goes no further than the body comes.
LEMMA ReadTypes ==
    ASSUME answer \in Answers, NEW read \in MayRead
    PROVE  /\ answer.status \in {200, 201, 204, 404}
           /\ answer.content \in Contents
           /\ answer.arrives \in 0 .. 3 /\ read \in 0 .. 3 /\ read <= answer.arrives
<1>1. /\ answer.status \in {200, 201, 204, 404} /\ answer.content \in Contents
      /\ answer.arrives \in 0 .. 3
  BY DEF Answers, Nowhere, ToItsEnd
<1> QED
  BY <1>1 DEF MayRead, Nowhere

\* An answer that is refused.
LEMMA StatusInv ==
    ASSUME AnswerIInv, CheckStatus
    PROVE  AnswerIInv'
<1> USE DEF AnswerIInv
<1>1. CASE Accepted
  <2>1. /\ proxyPc = "status" /\ proxyPc' = "parse"
        /\ UNCHANGED <<setup, callCtx, incoming, buffer, received, answer, answerBody, proxyReply>>
    BY <1>1 DEF CheckStatus
  <2> QED
    BY <1>1, <2>1, ReplyTypes
       DEF AnswerTypeOK, ProgressInv, Accepted, StatusHandler,
           AnswerIsTold, CompleteIsTheAnswer, RefusalIsTold, OnlyRefusedBodiesAreLeft,
           StreamStaysOpen, Returned
<1>2. CASE ~Accepted /\ StatusHandler = "default"
  <2>1. /\ proxyPc = "status" /\ proxyPc' = "returned" /\ proxyReply' = Failure("status")
        /\ UNCHANGED <<setup, callCtx, incoming, buffer, received, answer, answerBody>>
    BY <1>2 DEF CheckStatus, ReturnReply
  <2>2. AnswerTypeOK'
    BY <2>1, ReplyTypes DEF AnswerTypeOK
  <2>3. ~ (setup.details = "name" \/ (setup.details = "absent" /\ setup.code))
          \/ setup.encoding = "no-op"
    BY <1>2 DEF StatusHandler
  <2> QED
    BY <2>1, <2>2, <2>3, ReplyTypes
       DEF ProgressInv, AnswerIsTold, CompleteIsTheAnswer, RefusalIsTold,
           OnlyRefusedBodiesAreLeft, StreamStaysOpen, Returned
<1>3. CASE ~Accepted /\ StatusHandler # "default"
  <2>1. PICK read \in MayRead :
          /\ proxyPc = "status" /\ proxyPc' = "returned" /\ proxyReply' = Refusal(read)
          /\ answerBody' = "closed"
          /\ UNCHANGED <<setup, callCtx, incoming, buffer, received, answer>>
    BY <1>3 DEF CheckStatus, ReturnReply
  <2>2. StatusHandler \in {"detailed", "error"}
    BY <1>3 DEF Accepted, StatusHandler
  <2>3. /\ ~proxyReply'.complete /\ ~proxyReply'.stream /\ proxyReply'.status = answer.status
        /\ proxyReply'.message = IF read = ToItsEnd THEN "whole" ELSE "empty"
        /\ proxyReply'.error # "none" \/ proxyReply'.data = "error"
    BY <2>1, <2>2 DEF Refusal, Failure, NoReply, Message
  <2>5. /\ answer.status \in {200, 201, 204, 404}
        /\ read = ToItsEnd => answer.arrives = ToItsEnd
    BY <2>1, ReadTypes DEF ProgressInv, ToItsEnd
  <2>4. AnswerTypeOK'
    <3>1. answer.status \in {200, 201, 204, 404}
      BY <2>5
    <3>2. Refusal(read) \in Replies
      <4>1. CASE StatusHandler = "error"
        <5>1. Refusal(read) =
                [nil |-> TRUE, data |-> "nil", complete |-> FALSE, stream |-> FALSE,
                 status |-> answer.status, error |-> "code", message |-> Message(read)]
          BY <4>1 DEF Refusal, Failure, NoReply
        <5> QED
          BY <3>1, <5>1 DEF Replies, Message
      <4>2. CASE StatusHandler # "error"
        <5>1. Refusal(read) =
                [nil |-> FALSE, data |-> "error", complete |-> FALSE, stream |-> FALSE,
                 status |-> answer.status, error |-> "none", message |-> Message(read)]
          BY <4>2 DEF Refusal, NoReply
        <5> QED
          BY <3>1, <5>1 DEF Replies, Message
      <4> QED
        BY <4>1, <4>2
    <3> QED
      BY <2>1, <3>2 DEF AnswerTypeOK
  <2> QED
    BY <2>1, <2>3, <2>4, <2>5
       DEF ProgressInv, AnswerIsTold, CompleteIsTheAnswer, RefusalIsTold,
           OnlyRefusedBodiesAreLeft, StreamStaysOpen, Returned
<1> QED
  BY <1>1, <1>2, <1>3

\* What decoding comes to.
LEMMA DecodeTypes ==
    ASSUME AnswerTypeOK, answer \in Answers, NEW read \in MayRead
    PROVE  /\ Decode(read) \in {"error", "nil", "object", "collection", "content"}
           /\ (Decode(read) # "error" /\ setup.encoding \notin {"no-op", "NO-OP"}) =>
                 /\ answer.gzip # "fake"
                 /\ answer.arrives >= IF setup.encoding = "string" THEN ToItsEnd ELSE PastValue
                 /\ setup.encoding # "string" => answer.content \in Values
                 /\ Decode(read) = "nil" => answer.content = "null"
<1>1. setup.encoding \in Encodings
  BY SetupsAssumption DEF AnswerTypeOK
<1>2. /\ Decoder = "no-op" => setup.encoding \in {"no-op", "NO-OP"}
      /\ Decoder = "string" <=> setup.encoding = "string"
  BY <1>1 DEF Decoder, Encodings
<1>3. Decoded \in {"error", "nil", "object", "collection", "content"}
  BY DEF Decoded
<1>4. Decoded = "nil" => Decoder = "no-op" \/ answer.content = "null"
  BY DEF Decoded
<1>5. Decoded # "error" /\ Decoder \notin {"no-op", "string"} => answer.content \in Values
  BY ReadTypes DEF Decoded, Contents
<1>6. Decode(read) # "error" =>
          answer.gzip # "fake" /\ ~(read < Wanted) /\ Decode(read) = Decoded
  BY DEF Decode
<1>7. ASSUME setup.encoding \notin {"no-op", "NO-OP"}, ~(read < Wanted)
      PROVE  answer.arrives >= IF setup.encoding = "string" THEN ToItsEnd ELSE PastValue
  <2>1. Wanted = IF setup.encoding = "string" THEN ToItsEnd ELSE PastValue
    BY <1>2, <1>7 DEF Wanted
  <2> QED
    BY <1>7, <2>1, ReadTypes DEF ToItsEnd, PastValue
<1> QED
  BY <1>2, <1>3, <1>4, <1>5, <1>6, <1>7 DEF Decode

\* An answer that is decoded or streamed.
LEMMA ParseInv ==
    ASSUME AnswerIInv, Parse \/ Stream
    PROVE  AnswerIInv'
<1> USE DEF AnswerIInv
<1>1. CASE Parse
  <2>1. PICK read \in MayRead :
          IF Decode(read) = "error" THEN ReturnReply(Failure("decode"))
          ELSE ReturnReply([NoReply EXCEPT !.nil = FALSE, !.complete = TRUE,
                                           !.data = Decode(read)])
    BY <1>1 DEF Parse
  <2>2. /\ proxyPc = "parse" /\ StatusHandler # "no-op" /\ answerBody' = "closed"
        /\ UNCHANGED <<setup, callCtx, incoming, buffer, received, answer>>
        /\ Accepted /\ answer \in Answers
    BY <1>1 DEF Parse, ProgressInv
  <2>3. answer.status \in {200, 201} /\ setup.encoding # "no-op"
    BY <2>2 DEF Accepted, StatusHandler
  <2>4. CASE Decode(read) = "error"
    <3>1. proxyPc' = "returned" /\ proxyReply' = Failure("decode")
      BY <2>1, <2>4 DEF ReturnReply
    <3>2. AnswerTypeOK'
      BY <2>2, <3>1, ReplyTypes DEF AnswerTypeOK
    <3> QED
      BY <2>2, <2>3, <3>1, <3>2, ReplyTypes
         DEF ProgressInv, AnswerIsTold, CompleteIsTheAnswer, RefusalIsTold,
             OnlyRefusedBodiesAreLeft, StreamStaysOpen, Returned
  <2>5. CASE Decode(read) # "error"
    <3>1. /\ proxyPc' = "returned"
          /\ proxyReply' = [NoReply EXCEPT !.nil = FALSE, !.complete = TRUE,
                                           !.data = Decode(read)]
      BY <2>1, <2>5 DEF ReturnReply
    <3>2. AnswerTypeOK'
      <4>1. Decode(read) \in {"nil", "object", "collection", "content"}
        BY <2>2, <2>5, DecodeTypes
      <4>2. proxyReply' \in Replies
        <5>1. proxyReply' = [nil |-> FALSE, data |-> Decode(read), complete |-> TRUE,
                             stream |-> FALSE, status |-> 0, error |-> "none",
                             message |-> "none"]
          BY <3>1 DEF NoReply
        <5> QED
          BY <4>1, <5>1 DEF Replies
      <4> QED
        BY <2>2, <3>1, <4>2 DEF AnswerTypeOK
    <3>3. /\ proxyReply'.data = Decode(read) /\ ~proxyReply'.stream
          /\ proxyReply'.complete
      BY <3>1 DEF NoReply
    <3>4. setup.encoding # "NO-OP" =>
            /\ answer.gzip # "fake"
            /\ answer.arrives >= IF setup.encoding = "string" THEN ToItsEnd ELSE PastValue
            /\ setup.encoding # "string" => answer.content \in Values
            /\ proxyReply'.data = "nil" => answer.content = "null"
      BY <2>2, <2>3, <2>5, <3>3, DecodeTypes
    <3> QED
      BY <2>2, <2>3, <3>1, <3>2, <3>3, <3>4
         DEF ProgressInv, AnswerIsTold, CompleteIsTheAnswer, RefusalIsTold,
             OnlyRefusedBodiesAreLeft, StreamStaysOpen, Returned
  <2> QED
    BY <2>4, <2>5
<1>2. CASE Stream
  <2>1. /\ proxyPc = "parse" /\ proxyPc' = "returned" /\ setup.encoding = "no-op"
        /\ proxyReply'.stream /\ answerBody = "open"
        /\ UNCHANGED <<setup, callCtx, incoming, buffer, received, answer, answerBody>>
    BY <1>2 DEF Stream, ReturnReply, ProgressInv, StatusHandler, NoReply
  <2>2. AnswerTypeOK'
    <3>1. answer.status \in {200, 201, 204, 404}
      BY <1>2 DEF Stream, ProgressInv, Answers
    <3>2. proxyReply' \in Replies
      <4>1. proxyReply' = [nil |-> FALSE, data |-> "none", complete |-> TRUE,
                           stream |-> TRUE, status |-> answer.status, error |-> "none",
                           message |-> "none"]
        BY <1>2 DEF Stream, ReturnReply, NoReply
      <4> QED
        BY <3>1, <4>1 DEF Replies
    <3> QED
      BY <2>1, <3>2 DEF AnswerTypeOK
  <2> QED
    BY <2>1, <2>2
       DEF ProgressInv, AnswerIsTold, CompleteIsTheAnswer, RefusalIsTold,
           OnlyRefusedBodiesAreLeft, StreamStaysOpen, Returned
<1> QED
  BY <1>1, <1>2

\* The invariant of a backend call: what is told, and where the call is.
THEOREM AnswerInvariance == AnswerInit /\ [][AnswerNext]_answerVars => []AnswerIInv
<1>1. AnswerInit => AnswerIInv
  BY ReplyTypes
     DEF AnswerInit, AnswerIInv, AnswerTypeOK, ProgressInv, AnswerIsTold,
         CompleteIsTheAnswer, RefusalIsTold, OnlyRefusedBodiesAreLeft,
         StreamStaysOpen, Returned
<1>2. AnswerIInv /\ [AnswerNext]_answerVars => AnswerIInv'
  <2> SUFFICES ASSUME AnswerIInv, [AnswerNext]_answerVars PROVE AnswerIInv'
    OBVIOUS
  <2>1. CASE UNCHANGED answerVars
    BY <2>1 DEF answerVars, AnswerIInv, AnswerTypeOK, ProgressInv, Accepted, StatusHandler,
                AnswerIsTold, CompleteIsTheAnswer, RefusalIsTold,
                OnlyRefusedBodiesAreLeft, StreamStaysOpen, Returned
  <2> QED
    BY <2>1, StreamInv, RequestInv, StatusInv, ParseInv
       DEF AnswerNext, ProxyStep, AnswerFinished
<1> QED
  BY <1>1, <1>2, PTL

(***************************************************************************)
(* The variables of a backend call keep their types (http.go:66-136).      *)
(***************************************************************************)
THEOREM AnswerTypeCorrect == AnswerSpec => []AnswerTypeOK
<1>1. AnswerIInv => AnswerTypeOK
  BY DEF AnswerIInv
<1> QED
  BY <1>1, AnswerInvariance, PTL DEF AnswerSpec

(***************************************************************************)
(* For every configuration of a backend and every answer, however far it   *)
(* comes before it breaks, and wherever the context ends: what a complete  *)
(* response holds was sent whole, which is all of the body for a string    *)
(* and the first JSON value otherwise; a refusal is told as one, and only  *)
(* a refused body, a stream or an answer too late is left open             *)
(* (http.go:66-136, status.go:52-156, encoding.go:46-108,                  *)
(* http_response.go:33-80).                                                *)
(***************************************************************************)
THEOREM AnswerTold == AnswerSpec => []AnswerIsTold
<1>1. AnswerIInv => AnswerIsTold
  BY DEF AnswerIInv
<1> QED
  BY <1>1, AnswerInvariance, PTL DEF AnswerSpec

-----------------------------------------------------------------------------
(* The calls.                                                              *)

(***************************************************************************)
(* A shadow and a backend's answer share no state: a step of one is a step *)
(* of it alone.  So a behaviour of the composition is one of each part,    *)
(* types and promises included (shadow.go:40-124, http.go:66-136).         *)
(***************************************************************************)
THEOREM CallsAreTheirParts == CallsSpec => [](TypesOK /\ ShadowIsApart /\ AnswerIsTold)
<1>1. CallsInit => ShadowInit /\ AnswerInit
  BY DEF CallsInit, ShadowIdle, AnswerIdle
<1>2. [CallsNext]_callsVars => [ShadowNext]_shadowVars /\ [AnswerNext]_answerVars
  BY DEF CallsNext, callsVars
<1>3. ShadowIInv => ShadowTypeOK /\ ShadowIsApart
  BY ShadowPromise DEF ShadowIInv
<1>4. AnswerIInv => AnswerTypeOK /\ AnswerIsTold
  BY DEF AnswerIInv
<1>5. ShadowTypeOK /\ AnswerTypeOK => TypesOK
  BY DEF TypesOK
<1> QED
  BY <1>1, <1>2, <1>3, <1>4, <1>5, ShadowInvariance, AnswerInvariance, PTL DEF CallsSpec

-----------------------------------------------------------------------------
(* Loops.                                                                  *)

\* The values of a loop's variable, which the i-th iteration changes by step.
Iterates(f, n, S, b, step) ==
    /\ f \in [0 .. n -> S]
    /\ f[0] = b /\ \A i \in 1 .. n : f[i] = step[<<f[i - 1], i>>]

\* What a loop computes in n iterations exists: the shortest loop without a
\* result would get one from the loop that is shorter by one.
LEMMA LoopHasResult ==
    ASSUME NEW n \in Nat, NEW S, NEW b \in S, NEW step \in [S \X (1 .. n) -> S]
    PROVE  \E f : Iterates(f, n, S, b, step)
<1> DEFINE Good(k) == \E f \in [0 .. k -> S] :
                         f[0] = b /\ \A i \in 1 .. k : f[i] = step[<<f[i - 1], i>>]
           Bad == {k \in 0 .. n : ~Good(k)}
<1>1. Good(0)
  <2> DEFINE f == [i \in 0 .. 0 |-> b]
  <2>1. f \in [0 .. 0 -> S] /\ f[0] = b
    OBVIOUS
  <2>2. 1 .. 0 = {}
    OBVIOUS
  <2> HIDE DEF f
  <2> QED
    BY <2>1, <2>2
<1>2. ASSUME NEW k \in 0 .. n - 1, Good(k) PROVE Good(k + 1)
  <2>1. PICK f \in [0 .. k -> S] : f[0] = b /\ \A i \in 1 .. k : f[i] = step[<<f[i - 1], i>>]
    BY <1>2
  <2> DEFINE g == [i \in 0 .. k + 1 |-> IF i = k + 1 THEN step[<<f[k], k + 1>>] ELSE f[i]]
  <2>2. <<f[k], k + 1>> \in S \X (1 .. n)
    BY <2>1
  <2>3. g \in [0 .. k + 1 -> S] /\ g[0] = b
    BY <2>1, <2>2
  <2>4. ASSUME NEW i \in 1 .. k + 1 PROVE g[i] = step[<<g[i - 1], i>>]
    <3>1. CASE i = k + 1
      <4>1. g[i] = step[<<f[k], k + 1>>] /\ g[i - 1] = f[k]
        BY <3>1
      <4> QED
        BY <3>1, <4>1
    <3>2. CASE i # k + 1
      <4>1. i \in 1 .. k /\ i - 1 \in 0 .. k
        BY <3>2
      <4>2. g[i] = f[i] /\ g[i - 1] = f[i - 1]
        BY <4>1
      <4> QED
        BY <2>1, <4>1, <4>2
    <3> QED
      BY <3>1, <3>2
  <2> HIDE DEF g
  <2> QED
    BY <2>3, <2>4
<1>3. Good(n)
  <2> SUFFICES ASSUME n \in Bad PROVE FALSE
    OBVIOUS
  <2>1. Bad \subseteq Nat /\ Bad # {}
    OBVIOUS
  <2> HIDE DEF Bad
  <2>2. PICK k \in Bad : \A j \in Bad : k <= j
    BY <2>1, LeastNumber
  <2> USE DEF Bad
  <2> HIDE DEF Good
  <2>3. k # 0
    BY <1>1, <2>2
  <2>4. k - 1 \in 0 .. n - 1 /\ Good(k - 1)
    BY <2>2, <2>3
  <2>5. Good(k - 1 + 1)
    BY <1>2, <2>4
  <2>6. k - 1 + 1 = k
    BY <2>2
  <2> QED
    BY <2>2, <2>5, <2>6
<1> QED
  BY <1>3 DEF Iterates

\* What holds of 0 and with each number of the next holds up to n.
LEMMA UpTo ==
    ASSUME NEW n \in Nat, NEW T, 0 \in T, \A k \in 0 .. n - 1 : k \in T => k + 1 \in T
    PROVE  \A k \in 0 .. n : k \in T
<1> DEFINE Bad == (0 .. n) \ T
<1> SUFFICES ASSUME Bad # {} PROVE FALSE
  OBVIOUS
<1>0. Bad \subseteq Nat
  OBVIOUS
<1> HIDE DEF Bad
<1>1. PICK k \in Bad : \A j \in Bad : k <= j
  BY <1>0, LeastNumber
<1> USE DEF Bad
<1>2. k # 0 /\ k \in 1 .. n
  OBVIOUS
<1>3. k - 1 \in T /\ k - 1 \in 0 .. n - 1
  BY <1>1, <1>2
<1> QED
  BY <1>2, <1>3

-----------------------------------------------------------------------------
(* Quotients and divisors.                                                 *)

\* Division with remainder.
LEMMA Quotients ==
    ASSUME NEW m \in Nat, NEW n \in Nat \ {0}
    PROVE  /\ m \div n \in Nat /\ m % n \in 0 .. n - 1
           /\ (m \div n) * n <= m /\ m < ((m \div n) + 1) * n
           /\ m = ((m \div n) * n) + (m % n)
OBVIOUS

\* A division that leaves nothing.
LEMMA ExactQuotients ==
    ASSUME NEW m \in Nat, NEW n \in Nat \ {0}, m % n = 0
    PROVE  m \div n \in Nat /\ m = (m \div n) * n
BY Quotients

\* Products distribute: a fact the solver is to use on purpose only.
LEMMA Products ==
    ASSUME NEW a \in Nat, NEW b \in Nat, NEW c \in Nat
    PROVE  (a + b) * c = (a * c) + (b * c) /\ a * c \in Nat
OBVIOUS

\* A multiple leaves no remainder.
LEMMA MultiplesDivide ==
    ASSUME NEW q \in Int, NEW n \in Nat \ {0}, q * n >= 0
    PROVE  (q * n) % n = 0
OBVIOUS

\* The step of Euclid's algorithm keeps the common divisors.
LEMMA RemainderKeepsDivisors ==
    ASSUME NEW a \in Nat, NEW b \in Nat \ {0}, NEW d \in Nat \ {0}
    PROVE  (a % d = 0 /\ b % d = 0) <=> (b % d = 0 /\ (a % b) % d = 0)
<1> DEFINE q == a \div b
           r == a % b
           k == b \div d
<1>1. a = (q * b) + r /\ q \in Nat /\ r \in Nat
  BY Quotients
<1> HIDE DEF q, r
<1> SUFFICES ASSUME b % d = 0
             PROVE  a % d = 0 <=> r % d = 0
  BY DEF r
<1>2. b = k * d /\ k \in Nat
  BY Quotients
<1> HIDE DEF k
<1> DEFINE n == q * k
<1>3. q * b = n * d /\ n \in Nat
  BY <1>1, <1>2
<1> HIDE DEF n
<1>4. ASSUME a % d = 0 PROVE r % d = 0
  <2> DEFINE m == a \div d
  <2>1. a = m * d /\ m \in Nat
    BY <1>4, Quotients
  <2> HIDE DEF m
  <2>2. r = (m - n) * d /\ m - n \in Int
    BY <1>1, <1>3, <2>1
  <2> QED
    BY <1>1, <2>2, MultiplesDivide
<1>5. ASSUME r % d = 0 PROVE a % d = 0
  <2> DEFINE m == r \div d
  <2>1. r = m * d /\ m \in Nat
    BY <1>1, <1>5, Quotients
  <2> HIDE DEF m
  <2>2. a = (m + n) * d /\ m + n \in Int
    BY <1>1, <1>3, <2>1
  <2> QED
    BY <2>2, MultiplesDivide
<1> QED
  BY <1>4, <1>5

\* A divisor of a positive number is not greater.
LEMMA DivisorsAreLess ==
    ASSUME NEW n \in Nat \ {0}, NEW d \in Nat \ {0}, n % d = 0
    PROVE  d <= n
<1>1. n = (n \div d) * d /\ n \div d \in Nat
  BY Quotients
<1> QED
  BY <1>1

-----------------------------------------------------------------------------
(* Euclid's algorithm.                                                     *)

Divisors(p) == {d \in Nat \ {0} : p[1] % d = 0 /\ p[2] % d = 0}

\* The recursion of localGCD has a solution, the greatest common divisor.
LEMMA EuclidEnds ==
    \A p \in Nat \X Nat :
        localGCD[p] = IF p[2] = 0 THEN p[1] ELSE localGCD[<<p[2], p[1] % p[2]>>]
<1> DEFINE Greatest(S) == CHOOSE x \in S : \A y \in S : y <= x
           f == [p \in Nat \X Nat |-> IF p[2] = 0 THEN p[1] ELSE Greatest(Divisors(p))]
           g == [p \in Nat \X Nat |-> IF p[2] = 0 THEN p[1] ELSE f[<<p[2], p[1] % p[2]>>]]
<1>1. ASSUME NEW p \in Nat \X Nat, p[2] # 0
      PROVE  f[p] = f[<<p[2], p[1] % p[2]>>]
  <2> DEFINE r == <<p[2], p[1] % p[2]>>
  <2>1. p[1] \in Nat /\ p[2] \in Nat \ {0} /\ p[1] % p[2] \in Nat
    <3>1. p[1] \in Nat /\ p[2] \in Nat \ {0}
      BY <1>1
    <3>2. p[1] % p[2] \in 0 .. p[2] - 1
      BY <3>1, Quotients
    <3> QED
      BY <3>1, <3>2
  <2>2. r \in Nat \X Nat
    BY <2>1
  <2>3. Divisors(r) = Divisors(p)
    BY <2>1, RemainderKeepsDivisors DEF Divisors
  <2>4. CASE p[1] % p[2] # 0
    BY <1>1, <2>2, <2>3, <2>4
  <2>5. CASE p[1] % p[2] = 0
    <3>1. p[2] \in Divisors(p)
      BY <2>1, <2>5, MultiplesDivide DEF Divisors
    <3>2. \A d \in Divisors(p) : d \in Nat /\ d <= p[2]
      BY <2>1, DivisorsAreLess DEF Divisors
    <3> HIDE DEF Divisors
    <3>3. \A x \in Divisors(p) : (\A y \in Divisors(p) : y <= x) => x = p[2]
      BY <2>1, <3>1, <3>2
    <3>4. Greatest(Divisors(p)) = p[2]
      BY <3>1, <3>2, <3>3
    <3>5. f[r] = p[2]
      BY <2>2, <2>5
    <3> HIDE DEF Greatest
    <3>6. f[p] = p[2]
      BY <1>1, <3>4
    <3> QED
      BY <3>5, <3>6
  <2> QED
    BY <2>4, <2>5
<1>2. \A p \in Nat \X Nat : f[p] = g[p]
  BY <1>1
<1>3. f = g
  <2>1. DOMAIN f = Nat \X Nat /\ DOMAIN g = Nat \X Nat
    OBVIOUS
  <2> HIDE DEF f, g
  <2>2. f = [p \in DOMAIN f |-> f[p]] /\ g = [p \in DOMAIN g |-> g[p]]
    BY DEF f, g
  <2> QED
    BY <1>2, <2>1, <2>2, Zenon
<1>4. f = [p \in Nat \X Nat |-> IF p[2] = 0 THEN p[1] ELSE f[<<p[2], p[1] % p[2]>>]]
  BY <1>3
<1> HIDE DEF f
<1>5. localGCD = [p \in Nat \X Nat |->
                    IF p[2] = 0 THEN p[1] ELSE localGCD[<<p[2], p[1] % p[2]>>]]
  BY <1>4 DEF localGCD
<1> QED
  BY <1>5

\* The divisors of the result are the common divisors of the two numbers.
LEMMA EuclidIsRight ==
    ASSUME NEW a \in Nat, NEW b \in Nat
    PROVE  /\ localGCD[<<a, b>>] \in Nat
           /\ \A d \in Nat \ {0} :
                 localGCD[<<a, b>>] % d = 0 <=> a % d = 0 /\ b % d = 0
<1> DEFINE Right(x, y) ==
        /\ localGCD[<<x, y>>] \in Nat
        /\ \A d \in Nat \ {0} : localGCD[<<x, y>>] % d = 0 <=> x % d = 0 /\ y % d = 0
    Failing == {y \in Nat : \E x \in Nat : ~Right(x, y)}
<1> SUFFICES ASSUME Failing # {} PROVE FALSE
  OBVIOUS
<1>1. PICK y \in Failing : \A z \in Failing : y <= z
  <2>1. Failing \subseteq Nat
    OBVIOUS
  <2> HIDE DEF Failing
  <2> QED
    BY <2>1, LeastNumber
<1>2. PICK x \in Nat : ~Right(x, y)
  OBVIOUS
<1>3. CASE y = 0
  <2>1. localGCD[<<x, y>>] = x
    BY <1>3, EuclidEnds
  <2>2. \A d \in Nat \ {0} : 0 % d = 0
    OBVIOUS
  <2> QED
    BY <1>2, <1>3, <2>1, <2>2
<1>4. CASE y # 0
  <2> DEFINE r == x % y
  <2>1. y \in Nat \ {0} /\ r \in Nat /\ r < y
    BY <1>4, Quotients
  <2>2. Right(y, r)
    <3> SUFFICES ASSUME ~Right(y, r) PROVE FALSE
      OBVIOUS
    <3> HIDE DEF Right, r
    <3>1. r \in Failing
      BY <2>1
    <3> HIDE DEF Failing
    <3> QED
      BY <1>1, <2>1, <3>1
  <2>3. localGCD[<<x, y>>] = localGCD[<<y, r>>]
    BY <1>4, EuclidEnds
  <2>4. \A d \in Nat \ {0} : (x % d = 0 /\ y % d = 0) <=> (y % d = 0 /\ r % d = 0)
    BY <2>1, RemainderKeepsDivisors
  <2> HIDE DEF r
  <2> QED
    BY <1>2, <2>2, <2>3, <2>4
<1> QED
  BY <1>3, <1>4

-----------------------------------------------------------------------------
(* Sums and divisors of lists of weights.                                  *)

\* The sums of the first weights of a list.
Sums(ws, f) == /\ f \in [0 .. Len(ws) -> Nat]
               /\ f[0] = 0 /\ \A i \in 1 .. Len(ws) : f[i] = f[i - 1] + ws[i]

\* The loop of normalize adds up the weights (subscriber.go:191-194).
LEMMA TotalIsTheSum ==
    ASSUME NEW ws \in Seq(Nat)
    PROVE  \E f : Sums(ws, f) /\ Total(ws) = f[Len(ws)]
<1> DEFINE n == Len(ws)
           step == [p \in Nat \X (1 .. n) |-> p[1] + ws[p[2]]]
           Is(f) == f = [i \in 0 .. n |-> IF i = 0 THEN 0 ELSE f[i - 1] + ws[i]]
           sum == CHOOSE f : Is(f)
<1>1. n \in Nat /\ \A i \in 1 .. n : ws[i] \in Nat
  OBVIOUS
<1>2. step \in [Nat \X (1 .. n) -> Nat]
  BY <1>1
<1>3. \A x \in Nat, i \in 1 .. n : step[<<x, i>>] = x + ws[i]
  OBVIOUS
<1> HIDE DEF step, n
<1>4. PICK f : Iterates(f, n, Nat, 0, step)
  <2>1. 0 \in Nat
    OBVIOUS
  <2> QED
    BY <1>1, <1>2, <2>1, LoopHasResult
<1>4a. /\ f \in [0 .. n -> Nat]
       /\ f[0] = 0 /\ \A i \in 1 .. n : f[i] = step[<<f[i - 1], i>>]
  BY <1>4 DEF Iterates
<1>5. Is(f)
  <2> DEFINE g == [i \in 0 .. n |-> IF i = 0 THEN 0 ELSE f[i - 1] + ws[i]]
  <2>1. ASSUME NEW i \in 0 .. n PROVE f[i] = g[i]
    <3>1. CASE i = 0
      BY <1>4a, <3>1
    <3>2. CASE i # 0
      <4>1. f[i - 1] \in Nat /\ i \in 1 .. n
        BY <1>1, <1>4a, <3>2
      <4> QED
        BY <1>3, <1>4a, <3>2, <4>1
    <3> QED
      BY <3>1, <3>2
  <2> QED
    BY <2>1, <1>4a
<1>6. Is(sum)
  <2> HIDE DEF Is
  <2> QED
    BY <1>5
<1>7. Total(ws) = sum[n]
  BY DEF Total, n
<1> HIDE DEF sum
<1>8. sum[0] = 0 /\ \A i \in 1 .. n : sum[i] = sum[i - 1] + ws[i]
  BY <1>1, <1>6
<1>9. \A i \in 0 .. n : sum[i] \in Nat
  <2> DEFINE T == {i \in 0 .. n : sum[i] \in Nat}
  <2>1. ASSUME NEW k \in 0 .. n - 1, k \in T PROVE k + 1 \in T
    <3>1. k + 1 \in 1 .. n /\ k + 1 \in 0 .. n /\ k + 1 - 1 = k
      BY <1>1
    <3>2. sum[k + 1] = sum[k] + ws[k + 1]
      BY <1>8, <3>1
    <3> QED
      BY <1>1, <2>1, <3>1, <3>2
  <2>2. 0 \in T
    BY <1>1, <1>8
  <2> HIDE DEF T
  <2>3. \A k \in 0 .. n : k \in T
    BY <1>1, <2>1, <2>2, UpTo
  <2> QED
    BY <2>3 DEF T
<1>10. sum \in [0 .. n -> Nat]
  BY <1>6, <1>9
<1> QED
  BY <1>7, <1>8, <1>10 DEF Sums, n

\* A list that is smaller than another one, position by position, up to factors.
LEMMA TotalsCompare ==
    ASSUME NEW us \in Seq(Nat), NEW ws \in Seq(Nat), Len(us) = Len(ws),
           NEW c \in Nat, NEW d \in Nat,
           \A i \in 1 .. Len(us) : us[i] * c <= ws[i] * d
    PROVE  /\ Total(us) \in Nat /\ Total(ws) \in Nat
           /\ Total(us) * c <= Total(ws) * d
<1>1. PICK f : Sums(us, f) /\ Total(us) = f[Len(us)]
  BY TotalIsTheSum
<1>2. PICK g : Sums(ws, g) /\ Total(ws) = g[Len(ws)]
  BY TotalIsTheSum
<1> DEFINE n == Len(us)
           T == {k \in 0 .. n : f[k] * c <= g[k] * d}
<1>3. n \in Nat /\ n = Len(ws) /\ \A i \in 1 .. n : us[i] \in Nat /\ ws[i] \in Nat
  OBVIOUS
<1>4. 0 \in T
  BY <1>1, <1>2 DEF Sums
<1>5. ASSUME NEW k \in 0 .. n - 1, k \in T PROVE k + 1 \in T
  <2>0. k + 1 \in 1 .. n /\ k + 1 \in 0 .. n /\ k \in 0 .. n /\ k + 1 - 1 = k
    BY <1>3
  <2>1. /\ f[k] \in Nat /\ g[k] \in Nat
        /\ us[k + 1] \in Nat /\ ws[k + 1] \in Nat
    BY <1>1, <1>2, <1>3, <2>0 DEF Sums
  <2>2. f[k + 1] = f[k] + us[k + 1] /\ g[k + 1] = g[k] + ws[k + 1]
    BY <1>1, <1>2, <1>3, <2>0 DEF Sums
  <2>3. f[k] * c <= g[k] * d /\ us[k + 1] * c <= ws[k + 1] * d
    BY <1>3, <1>5, <2>0
  <2>4. /\ (f[k] + us[k + 1]) * c = (f[k] * c) + (us[k + 1] * c)
        /\ (g[k] + ws[k + 1]) * d = (g[k] * d) + (ws[k + 1] * d)
    <3> DEFINE x == f[k]
               y == us[k + 1]
               u == g[k]
               v == ws[k + 1]
    <3>1. x \in Nat /\ y \in Nat /\ u \in Nat /\ v \in Nat
      BY <2>1
    <3> HIDE DEF x, y, u, v
    <3>2. (x + y) * c = (x * c) + (y * c)
      BY <3>1
    <3>3. (u + v) * d = (u * d) + (v * d)
      BY <3>1
    <3> QED
      BY <3>2, <3>3 DEF x, y, u, v
  <2>5. /\ f[k] * c \in Nat /\ us[k + 1] * c \in Nat
        /\ g[k] * d \in Nat /\ ws[k + 1] * d \in Nat
    BY <2>1, Products
  <2> DEFINE p == f[k] * c
             q == us[k + 1] * c
             r == g[k] * d
             s == ws[k + 1] * d
  <2>6. p + q <= r + s
    <3> HIDE DEF p, q, r, s
    <3>1. p \in Nat /\ q \in Nat /\ r \in Nat /\ s \in Nat /\ p <= r /\ q <= s
      BY <2>3, <2>5 DEF p, q, r, s
    <3> QED
      BY <3>1
  <2>7. f[k + 1] * c <= g[k + 1] * d
    BY <2>2, <2>4, <2>6
  <2> QED
    BY <2>0, <2>7
<1> HIDE DEF T
<1>6. \A k \in 0 .. n : k \in T
  BY <1>3, <1>4, <1>5, UpTo
<1>7. f[n] * c <= g[n] * d /\ f[n] \in Nat /\ g[n] \in Nat
  BY <1>1, <1>2, <1>3, <1>6 DEF T, Sums
<1> QED
  BY <1>1, <1>2, <1>3, <1>7

\* The total of weights that are at most m.
LEMMA TotalIsBounded ==
    ASSUME NEW ws \in Seq(Nat), NEW m \in Nat, \A i \in 1 .. Len(ws) : ws[i] <= m
    PROVE  Total(ws) \in Nat /\ Total(ws) <= Len(ws) * m
<1>1. PICK f : Sums(ws, f) /\ Total(ws) = f[Len(ws)]
  BY TotalIsTheSum
<1> DEFINE n == Len(ws)
           T == {k \in 0 .. n : f[k] <= k * m}
<1>2. n \in Nat
  OBVIOUS
<1>3. 0 \in T
  BY <1>1 DEF Sums
<1>4. ASSUME NEW k \in 0 .. n - 1, k \in T PROVE k + 1 \in T
  <2>0. k + 1 \in 1 .. n /\ k + 1 \in 0 .. n /\ k \in 0 .. n /\ k + 1 - 1 = k
    BY <1>2
  <2>1. f[k] \in Nat /\ ws[k + 1] \in Nat /\ ws[k + 1] <= m
    BY <1>1, <1>2, <2>0 DEF Sums
  <2>2. f[k + 1] = f[k] + ws[k + 1]
    BY <1>1, <1>2, <2>0 DEF Sums
  <2>3. (k + 1) * m = (k * m) + m /\ f[k] <= k * m
    BY <1>4
  <2> QED
    BY <2>0, <2>1, <2>2, <2>3
<1> HIDE DEF T
<1>5. \A k \in 0 .. n : k \in T
  BY <1>2, <1>3, <1>4, UpTo
<1> QED
  BY <1>1, <1>2, <1>5 DEF T, Sums

\* The divisors of Gcd are the common divisors of the weights.
LEMMA GcdIsRight ==
    ASSUME NEW ws \in Seq(Nat)
    PROVE  /\ Gcd(ws) \in Nat
           /\ \A d \in Nat \ {0} :
                 Gcd(ws) % d = 0 <=> \A i \in 1 .. Len(ws) : ws[i] % d = 0
<1> DEFINE n == Len(ws)
           Next2(x, i) == IF i = 1 THEN ws[1] ELSE localGCD[<<x, ws[i]>>]
           step == [p \in Nat \X (1 .. n) |-> Next2(p[1], p[2])]
           Is(f) == f = [i \in 0 .. n |-> IF i = 0 THEN 0
                            ELSE IF i = 1 THEN ws[1] ELSE localGCD[<<f[i - 1], ws[i]>>]]
           res == CHOOSE f : Is(f)
<1>1. n \in Nat /\ \A i \in 1 .. n : ws[i] \in Nat
  OBVIOUS
<1>2. \A x \in Nat, i \in 1 .. n : Next2(x, i) \in Nat
  BY <1>1, EuclidIsRight
<1>3. step \in [Nat \X (1 .. n) -> Nat]
  <2> HIDE DEF Next2
  <2> QED
    BY <1>2
<1>4. \A x \in Nat, i \in 1 .. n : step[<<x, i>>] = Next2(x, i)
  OBVIOUS
<1> HIDE DEF step, n
<1>5. PICK f : Iterates(f, n, Nat, 0, step)
  <2>1. 0 \in Nat
    OBVIOUS
  <2> QED
    BY <1>1, <1>3, <2>1, LoopHasResult
<1>4b. /\ f \in [0 .. n -> Nat]
       /\ f[0] = 0 /\ \A i \in 1 .. n : f[i] = step[<<f[i - 1], i>>]
  BY <1>5 DEF Iterates
<1>6. Is(f)
  <2> DEFINE g == [i \in 0 .. n |-> IF i = 0 THEN 0 ELSE Next2(f[i - 1], i)]
  <2> HIDE DEF Next2
  <2>1. ASSUME NEW i \in 0 .. n PROVE f[i] = g[i]
    <3>1. CASE i = 0
      BY <1>4b, <3>1
    <3>2. CASE i # 0
      <4>1. f[i - 1] \in Nat /\ i \in 1 .. n
        BY <1>1, <1>4b, <3>2
      <4> QED
        BY <1>4, <1>4b, <3>2, <4>1
    <3> QED
      BY <3>1, <3>2
  <2>2. f = g
    BY <2>1, <1>4b
  <2> QED
    BY <2>2 DEF Next2
<1>7. Is(res)
  <2> HIDE DEF Is
  <2> QED
    BY <1>6
<1>8. Gcd(ws) = res[n]
  BY DEF Gcd, n
<1> HIDE DEF res
<1>9. res[0] = 0 /\ \A i \in 1 .. n : res[i] = Next2(res[i - 1], i)
  <2>1. res = [i \in 0 .. n |-> IF i = 0 THEN 0 ELSE Next2(res[i - 1], i)]
    BY <1>7
  <2> HIDE DEF Next2
  <2> QED
    BY <1>1, <2>1
<1> DEFINE Divide(k) == /\ res[k] \in Nat
                        /\ \A d \in Nat \ {0} :
                              res[k] % d = 0 <=> \A i \in 1 .. k : ws[i] % d = 0
           T == {k \in 0 .. n : Divide(k)}
<1>10. Divide(0)
  <2>1. \A d \in Nat \ {0} : 0 % d = 0
    OBVIOUS
  <2> QED
    BY <1>9, <2>1
<1>11. ASSUME NEW k \in 0 .. n - 1, Divide(k) PROVE Divide(k + 1)
  <2>1. k + 1 \in 1 .. n /\ res[k + 1] = Next2(res[k], k + 1)
    <3>1. k + 1 \in 1 .. n /\ k + 1 - 1 = k
      BY <1>1
    <3> HIDE DEF Next2
    <3> QED
      BY <1>9, <3>1
  <2>2. CASE k = 0
    BY <1>1, <2>1, <2>2
  <2>3. CASE k # 0
    <3>1. res[k + 1] = localGCD[<<res[k], ws[k + 1]>>] /\ ws[k + 1] \in Nat
      BY <1>1, <2>1, <2>3
    <3>2. \A d \in Nat \ {0} :
             (\A i \in 1 .. k + 1 : ws[i] % d = 0)
                <=> (\A i \in 1 .. k : ws[i] % d = 0) /\ ws[k + 1] % d = 0
      BY <2>1
    <3>3. res[k] \in Nat
      BY <1>11
    <3>4. /\ res[k + 1] \in Nat
          /\ \A d \in Nat \ {0} :
                res[k + 1] % d = 0 <=> res[k] % d = 0 /\ ws[k + 1] % d = 0
      BY <3>1, <3>3, EuclidIsRight
    <3> QED
      BY <1>11, <3>2, <3>4
  <2> QED
    BY <2>2, <2>3
<1>12. \A k \in 0 .. n : k \in T
  <2> HIDE DEF Divide
  <2>1. 0 \in T /\ \A k \in 0 .. n - 1 : k \in T => k + 1 \in T
    BY <1>1, <1>10, <1>11
  <2> HIDE DEF T
  <2> QED
    BY <1>1, <2>1, UpTo
<1> QED
  BY <1>1, <1>8, <1>12 DEF n

-----------------------------------------------------------------------------
(* normalize and compact.                                                  *)

\* The scale is no less than 100 (Scale), and than the number of weights.
LEMMA CeilType == \A ws \in Seq(Nat) : Ceil(ws) \in Nat \ {0} /\ Len(ws) <= Ceil(ws) /\ Scale <= Ceil(ws)
BY ScaleAssumption DEF Ceil

\* normalize keeps light weights, and scales the others down to quotients.
LEMMA NormalizeIsRight ==
    ASSUME NEW ws \in Seq(Nat)
    PROVE  /\ Normalize(ws) \in Seq(Nat) /\ Len(Normalize(ws)) = Len(ws)
           /\ Total(ws) \in Nat
           /\ Total(ws) <= Ceil(ws) => Normalize(ws) = ws
           /\ Total(ws) > Ceil(ws) => \A i \in 1 .. Len(ws) :
                 Normalize(ws)[i] = (ws[i] * Ceil(ws)) \div Total(ws)
<1>1. Total(ws) \in Nat
  BY TotalIsTheSum DEF Sums
<1>2. Ceil(ws) \in Nat \ {0}
  BY CeilType
<1>3. CASE Total(ws) <= Ceil(ws)
  BY <1>1, <1>2, <1>3 DEF Normalize
<1>4. CASE ~(Total(ws) <= Ceil(ws))
  <2> DEFINE t == Total(ws)
             c == Ceil(ws)
             res == [i \in 1 .. Len(ws) |-> (ws[i] * c) \div t]
  <2>1. t \in Nat \ {0} /\ t > c
    BY <1>1, <1>2, <1>4
  <2>2. DOMAIN ws = 1 .. Len(ws) /\ Len(ws) \in Nat
    OBVIOUS
  <2>3. Normalize(ws) = res
    BY <1>4, <2>2 DEF Normalize
  <2> HIDE DEF t, c
  <2>4. ASSUME NEW i \in 1 .. Len(ws) PROVE (ws[i] * c) \div t \in Nat
    <3>1. ws[i] \in Nat /\ c \in Nat
      BY <1>2 DEF c
    <3>2. ws[i] * c \in Nat
      BY <3>1, Products
    <3> QED
      BY <2>1, <3>2, Quotients
  <2>5. res \in Seq(Nat) /\ Len(res) = Len(ws)
    BY <2>2, <2>4
  <2> QED
    BY <1>1, <1>4, <2>1, <2>3, <2>5 DEF t, c
<1> QED
  BY <1>3, <1>4

\* compact divides the normalized weights by a number, and what is left has no
\* common divisor, unless all weights are 0.
LEMMA CompactIsRight ==
    ASSUME NEW ws \in Seq(Nat)
    PROVE  /\ Compact(ws) \in Seq(Nat) /\ Len(Compact(ws)) = Len(ws)
           /\ \E g \in Nat \ {0} : \A i \in 1 .. Len(ws) :
                 Normalize(ws)[i] = Compact(ws)[i] * g
           /\ \/ \A i \in 1 .. Len(ws) : Compact(ws)[i] = 0
              \/ \A d \in Nat : d >= 2 =>
                    \E i \in 1 .. Len(ws) : Compact(ws)[i] % d # 0
<1> DEFINE tmp == Normalize(ws)
           div == Gcd(tmp)
           res == Compact(ws)
           n == Len(ws)
<1>1. /\ tmp \in Seq(Nat) /\ Len(tmp) = n /\ n \in Nat /\ DOMAIN tmp = 1 .. n
      /\ \A i \in 1 .. n : tmp[i] \in Nat
  BY NormalizeIsRight
<1>2. /\ div \in Nat
      /\ \A d \in Nat \ {0} : div % d = 0 <=> \A i \in 1 .. n : tmp[i] % d = 0
  BY <1>1, GcdIsRight
<1>3. res = IF div < 2 THEN tmp ELSE [i \in 1 .. n |-> tmp[i] \div div]
  BY <1>1 DEF Compact
<1> HIDE DEF tmp, div, res, n
<1>4. CASE div = 0
  <2>1. ASSUME NEW i \in 1 .. n PROVE tmp[i] = 0
    <3> DEFINE d == tmp[i] + 1
    <3>1. d \in Nat \ {0} /\ tmp[i] \in Nat
      BY <1>1
    <3>2. div % d = 0
      BY <1>4, <3>1
    <3>3. tmp[i] % d = 0
      BY <1>2, <3>1, <3>2
    <3> QED
      BY <3>1, <3>3
  <2>2. res = tmp /\ \A i \in 1 .. n : tmp[i] = res[i] * 1
    BY <1>1, <1>3, <1>4
  <2> QED
    BY <1>1, <2>1, <2>2 DEF tmp, res, n
<1>5. CASE div # 0
  <2>1. div \in Nat \ {0}
    BY <1>2, <1>5
  <2>2. \A i \in 1 .. n : tmp[i] % div = 0
    BY <1>2, <2>1
  <2>3. /\ res \in Seq(Nat) /\ Len(res) = n
        /\ \A i \in 1 .. n : tmp[i] = res[i] * div /\ res[i] \in Nat
    <3>1. CASE div < 2
      <4>1. div = 1 /\ res = tmp
        BY <1>3, <2>1, <3>1
      <4> QED
        BY <1>1, <4>1
    <3>2. CASE ~(div < 2)
      <4>1. res = [i \in 1 .. n |-> tmp[i] \div div]
        BY <1>3, <3>2
      <4>2. ASSUME NEW i \in 1 .. n
            PROVE  tmp[i] \div div \in Nat /\ tmp[i] = (tmp[i] \div div) * div
        <5> DEFINE w == tmp[i]
        <5>1. w \in Nat /\ w % div = 0
          BY <1>1, <2>2
        <5> HIDE DEF w
        <5>2. w \div div \in Nat /\ w = (w \div div) * div
          BY <2>1, <5>1, ExactQuotients
        <5> QED
          BY <5>2 DEF w
      <4> QED
        BY <1>1, <4>1, <4>2
    <3> QED
      BY <3>1, <3>2
  <2>4. ASSUME NEW d \in Nat, d >= 2, \A i \in 1 .. n : res[i] % d = 0
        PROVE  FALSE
    <3> DEFINE m == d * div
    <3>1. m \in Nat \ {0} /\ m > div
      BY <2>1, <2>4
    <3>2. ASSUME NEW i \in 1 .. n PROVE tmp[i] % m = 0
      <4> DEFINE k == res[i] \div d
      <4>1. res[i] = k * d /\ k \in Nat
        <5> DEFINE w == res[i]
        <5>1. w \in Nat /\ w % d = 0
          BY <2>3, <2>4
        <5> HIDE DEF w
        <5>2. w \div d \in Nat /\ w = (w \div d) * d
          BY <2>4, <5>1, ExactQuotients
        <5> QED
          BY <5>2 DEF w
      <4> HIDE DEF k
      <4>2. tmp[i] = k * m
        BY <2>1, <2>3, <4>1
      <4> HIDE DEF m
      <4>3. k * m \in Nat
        BY <1>1, <4>2
      <4> QED
        BY <3>1, <4>1, <4>2, <4>3, MultiplesDivide
    <3> HIDE DEF m
    <3>3. div % m = 0
      BY <1>2, <3>1, <3>2
    <3>4. m <= div
      BY <2>1, <3>1, <3>3, DivisorsAreLess
    <3> QED
      BY <2>1, <3>1, <3>4
  <2>5. \A d \in Nat : d >= 2 => \E i \in 1 .. n : res[i] % d # 0
    BY <2>4
  <2> QED
    BY <1>1, <2>1, <2>3, <2>5 DEF tmp, res, n
<1> QED
  BY <1>2, <1>4, <1>5

-----------------------------------------------------------------------------
(* What compact promises.                                                  *)

\* compact keeps the ratios of light zones (subscriber.go:170-183).
LEMMA RatiosKept ==
    ASSUME NEW ws \in Seq(Nat)
    PROVE  KeepsRatios(ws)
<1> DEFINE res == Compact(ws)
           n == Len(ws)
<1> SUFFICES ASSUME Total(ws) <= Scale
             PROVE  /\ \A i, j \in DOMAIN ws : res[i] * ws[j] = res[j] * ws[i]
                    /\ CommonDivisors(res) = {}
  BY DEF KeepsRatios
<1>1. Normalize(ws) = ws
  BY NormalizeIsRight, CeilType, ScaleAssumption
<1>2. /\ res \in Seq(Nat) /\ Len(res) = n /\ n \in Nat
      /\ \E g \in Nat \ {0} : \A i \in 1 .. n : Normalize(ws)[i] = res[i] * g
      /\ \/ \A i \in 1 .. n : res[i] = 0
         \/ \A d \in Nat : d >= 2 => \E i \in 1 .. n : res[i] % d # 0
  <2>1. n \in Nat
    OBVIOUS
  <2> QED
    BY <2>1, CompactIsRight
<1>3. PICK g \in Nat \ {0} : \A i \in 1 .. n : ws[i] = res[i] * g
  BY <1>1, <1>2
<1>4. DOMAIN ws = 1 .. n /\ DOMAIN res = 1 .. n /\ \A i \in 1 .. n : res[i] \in Nat
  BY <1>2
<1> HIDE DEF res, n
<1>5. ASSUME NEW i \in DOMAIN ws, NEW j \in DOMAIN ws
      PROVE  res[i] * ws[j] = res[j] * ws[i]
  <2> DEFINE x == res[i]
             y == res[j]
  <2>1. x \in Nat /\ y \in Nat /\ ws[i] = x * g /\ ws[j] = y * g
    BY <1>3, <1>4
  <2> HIDE DEF x, y
  <2>2. x * (y * g) = y * (x * g)
    BY <2>1
  <2> QED
    BY <2>1, <2>2 DEF x, y
<1>6. ASSUME NEW d \in CommonDivisors(res) PROVE FALSE
  <2>1. d \in 2 .. Total(res) /\ \A i \in 1 .. n : res[i] % d = 0
    BY <1>4 DEF CommonDivisors
  <2>2. Total(res) \in Nat
    BY <1>2, NormalizeIsRight
  <2>3. \A i \in 1 .. n : res[i] = 0
    BY <1>2, <2>1, <2>2
  <2>4. Total(res) <= Len(res) * 0
    BY <1>2, <1>4, <2>3, TotalIsBounded
  <2> QED
    BY <1>2, <2>1, <2>2, <2>4
<1> QED
  BY <1>5, <1>6

\* compact leaves a host of a zone that has a weight (subscriber.go:186-189).
LEMMA ServedStill ==
    ASSUME NEW ws \in Seq(Nat)
    PROVE  StillServed(ws)
<1> DEFINE tmp == Normalize(ws)
           t == Total(ws)
           c == Ceil(ws)
           n == Len(ws)
<1> SUFFICES ASSUME NEW p \in DOMAIN ws, ws[p] > 0
             PROVE  \E i \in DOMAIN ws : Compact(ws)[i] > 0
  BY DEF StillServed
<1>1. /\ n \in Nat /\ DOMAIN ws = 1 .. n /\ t \in Nat /\ c \in Nat \ {0} /\ n <= c
      /\ \A i \in 1 .. n : ws[i] \in Nat
  <2>1. n \in Nat /\ DOMAIN ws = 1 .. n /\ \A i \in 1 .. n : ws[i] \in Nat
    OBVIOUS
  <2> QED
    BY <2>1, NormalizeIsRight, CeilType
<1>2. tmp \in Seq(Nat) /\ Len(tmp) = n
  BY NormalizeIsRight
<1>3. \E i \in 1 .. n : tmp[i] > 0
  <2>1. CASE t <= c
    BY <1>1, <2>1, NormalizeIsRight
  <2>2. CASE t > c
    <3> SUFFICES ASSUME \A i \in 1 .. n : ~(tmp[i] > 0) PROVE FALSE
      OBVIOUS
    <3> DEFINE ones == [i \in 1 .. n |-> 1]
               m == t - 1
    <3>1. m \in Nat /\ t \in Nat \ {0}
      BY <1>1, <2>2
    <3>2. \A i \in 1 .. n : tmp[i] = (ws[i] * c) \div t
      BY <2>2, NormalizeIsRight
    <3>3. ones \in Seq(Nat) /\ Len(ones) = n /\ \A i \in 1 .. n : ones[i] = 1
      BY <1>1
    <3> HIDE DEF t, c, n, tmp, ones
    <3>4. ASSUME NEW i \in 1 .. n PROVE ws[i] * c <= ones[i] * m
      <4>1. ws[i] * c \in Nat /\ ws[i] \in Nat
        BY <1>1, Products
      <4>2. (ws[i] * c) \div t \in Nat /\ ~((ws[i] * c) \div t > 0)
        BY <3>1, <3>2, <4>1, Quotients
      <4>3. ws[i] * c < ((ws[i] * c) \div t + 1) * t
        BY <3>1, <4>1, Quotients
      <4>4. (ws[i] * c) \div t = 0
        BY <4>2
      <4>5. ws[i] * c < t
        BY <1>1, <4>3, <4>4
      <4> HIDE DEF m
      <4>6. ones[i] * m = m /\ m = t - 1
        BY <3>1, <3>3 DEF m
      <4> QED
        BY <1>1, <4>1, <4>5, <4>6
    <3>5. Total(ones) \in Nat /\ Total(ones) <= n * 1
      <4>1. \A i \in 1 .. Len(ones) : ones[i] <= 1
        BY <3>3
      <4> QED
        BY <3>3, <4>1, TotalIsBounded
    <3> HIDE DEF m
    <3>6. t * c <= Total(ones) * m
      BY <1>1, <3>1, <3>3, <3>4, TotalsCompare DEF t, n
    <3>7. Total(ones) * m <= c * m
      BY <1>1, <3>1, <3>5
    <3>8. t * c = (c * m) + c
      BY <1>1, <3>1 DEF m
    <3>9. c * m \in Nat /\ t * c \in Nat /\ Total(ones) * m \in Nat
      BY <1>1, <3>1, <3>5, Products
    <3> QED
      BY <1>1, <3>6, <3>7, <3>8, <3>9
  <2> QED
    BY <1>1, <2>1, <2>2
<1>4. PICK i \in 1 .. n : tmp[i] > 0
  BY <1>3
<1>5. PICK g \in Nat \ {0} : \A k \in 1 .. n : tmp[k] = Compact(ws)[k] * g
  BY CompactIsRight
<1>6. Compact(ws)[i] \in Nat
  BY CompactIsRight
<1> HIDE DEF tmp, n
<1>7. Compact(ws)[i] > 0
  BY <1>4, <1>5, <1>6
<1> QED
  BY <1>1, <1>7

\* compact makes no more instances than the scale (subscriber.go:185-204).
LEMMA ListBounded ==
    ASSUME NEW ws \in Seq(Nat)
    PROVE  ListIsBounded(ws)
<1> DEFINE tmp == Normalize(ws)
           res == Compact(ws)
           t == Total(ws)
           c == Ceil(ws)
           n == Len(ws)
<1>1. /\ n \in Nat /\ t \in Nat /\ c \in Nat \ {0} /\ \A i \in 1 .. n : ws[i] \in Nat
      /\ tmp \in Seq(Nat) /\ Len(tmp) = n /\ res \in Seq(Nat) /\ Len(res) = n
  <2>1. n \in Nat /\ \A i \in 1 .. n : ws[i] \in Nat
    OBVIOUS
  <2>2. tmp \in Seq(Nat) /\ Len(tmp) = n /\ t \in Nat
    BY NormalizeIsRight
  <2>3. res \in Seq(Nat) /\ Len(res) = n
    BY CompactIsRight
  <2> QED
    BY <2>1, <2>2, <2>3, CeilType
<1>2. \A i \in 1 .. n : tmp[i] \in Nat /\ res[i] \in Nat
  BY <1>1
<1>3. PICK g \in Nat \ {0} : \A i \in 1 .. n : tmp[i] = res[i] * g
  BY CompactIsRight
<1>4. /\ t <= c => tmp = ws
      /\ t > c => \A i \in 1 .. n : tmp[i] = (ws[i] * c) \div t
  BY NormalizeIsRight
<1> HIDE DEF tmp, res, t, c, n
<1>5. Total(res) \in Nat /\ Total(tmp) \in Nat /\ Total(res) <= Total(tmp)
  <2>1. ASSUME NEW i \in 1 .. n PROVE res[i] * 1 <= tmp[i] * 1
    BY <1>2, <1>3
  <2>2. /\ Total(res) \in Nat /\ Total(tmp) \in Nat
        /\ Total(res) * 1 <= Total(tmp) * 1
    BY <1>1, <2>1, TotalsCompare
  <2> QED
    BY <2>2
<1>6. Total(tmp) <= c
  <2>1. CASE t <= c
    BY <1>4, <2>1 DEF t
  <2>2. CASE t > c
    <3>1. ASSUME NEW i \in 1 .. n PROVE tmp[i] * t <= ws[i] * c
      <4>1. ws[i] * c \in Nat /\ t \in Nat \ {0}
        BY <1>1, <2>2, Products
      <4> QED
        BY <1>4, <2>2, <4>1, Quotients
    <3>2. Total(tmp) * t <= t * c
      BY <1>1, <3>1, TotalsCompare DEF t, n
    <3> QED
      BY <1>1, <1>5, <2>2, <3>2
  <2> QED
    BY <1>1, <2>1, <2>2
<1>7. Total(res) <= c
  BY <1>1, <1>5, <1>6
<1> QED
  BY <1>7 DEF ListIsBounded, res, c

\* compact gives the heavier no less (subscriber.go:170-204).
LEMMA HeavierGets ==
    ASSUME NEW ws \in Seq(Nat)
    PROVE  HeavierGetsMore(ws)
<1> DEFINE tmp == Normalize(ws)
           res == Compact(ws)
           t == Total(ws)
           c == Ceil(ws)
           n == Len(ws)
<1> SUFFICES ASSUME NEW i \in DOMAIN ws, NEW j \in DOMAIN ws, ws[i] <= ws[j]
             PROVE  res[i] <= res[j]
  BY DEF HeavierGetsMore
<1>1. /\ i \in 1 .. n /\ j \in 1 .. n /\ t \in Nat /\ c \in Nat \ {0}
      /\ ws[i] \in Nat /\ ws[j] \in Nat
      /\ res \in Seq(Nat) /\ Len(res) = n
  <2>1. i \in 1 .. n /\ j \in 1 .. n /\ ws[i] \in Nat /\ ws[j] \in Nat
    OBVIOUS
  <2>2. t \in Nat
    BY NormalizeIsRight
  <2>3. res \in Seq(Nat) /\ Len(res) = n
    BY CompactIsRight
  <2> QED
    BY <2>1, <2>2, <2>3, CeilType
<1>2. PICK g \in Nat \ {0} : \A k \in 1 .. n : tmp[k] = res[k] * g
  BY CompactIsRight
<1>3. /\ t <= c => tmp = ws
      /\ t > c => \A k \in 1 .. n : tmp[k] = (ws[k] * c) \div t
  BY NormalizeIsRight
<1>4. res[i] \in Nat /\ res[j] \in Nat
  <2> HIDE DEF res, n
  <2> QED
    BY <1>1
<1> HIDE DEF tmp, res, t, c, n
<1>5. tmp[i] <= tmp[j]
  <2>1. CASE t <= c
    BY <1>3, <2>1
  <2>2. CASE t > c
    <3>1. /\ ws[i] * c \in Nat /\ ws[j] * c \in Nat /\ ws[i] * c <= ws[j] * c
          /\ t \in Nat \ {0}
      <4> DEFINE x == ws[i]
                 y == ws[j]
      <4>1. x \in Nat /\ y \in Nat /\ x <= y /\ c \in Nat /\ t \in Nat \ {0}
        BY <1>1, <2>2
      <4> HIDE DEF x, y
      <4>2. x * c \in Nat /\ y * c \in Nat /\ x * c <= y * c
        BY <4>1
      <4> QED
        BY <4>1, <4>2 DEF x, y
    <3>2. (ws[i] * c) \div t <= (ws[j] * c) \div t
      <4> DEFINE x == ws[i] * c
                 y == ws[j] * c
      <4>1. x \in Nat /\ y \in Nat /\ x <= y /\ t \in Nat \ {0}
        BY <3>1
      <4> HIDE DEF x, y
      <4>2. x \div t <= y \div t
        BY <4>1
      <4> QED
        BY <4>2 DEF x, y
    <3> QED
      BY <1>1, <1>3, <2>2, <3>2
  <2> QED
    BY <1>1, <2>1, <2>2
<1>6. res[i] * g <= res[j] * g
  BY <1>1, <1>2, <1>5
<1> QED
  BY <1>4, <1>6

-----------------------------------------------------------------------------
(* The sort.                                                               *)

AnyRecord == Record(Nat, Nat, Nat)

\* How many numbers there are from 1 to n.
LEMMA IntervalSize ==
    ASSUME NEW n \in Nat
    PROVE  IsFiniteSet(1 .. n) /\ Cardinality(1 .. n) = n
<1>1. 1 \in Int /\ n \in Int
  OBVIOUS
<1>2. /\ IsFiniteSet(1 .. n)
      /\ Cardinality(1 .. n) = IF 1 > n THEN 0 ELSE n - 1 + 1
  BY <1>1, FS_Interval
<1> QED
  BY <1>2

\* The order of resolve is strict and total.
LEMMA BeforeIsAnOrder ==
    /\ \A a \in AnyRecord : ~Before(a, a)
    /\ \A a, b, c \in AnyRecord : Before(a, b) /\ Before(b, c) => Before(a, c)
    /\ \A a, b, c \in AnyRecord : ~Before(a, b) /\ ~Before(b, c) => ~Before(a, c)
    /\ \A a, b \in AnyRecord : ~Before(a, b) /\ ~Before(b, a) => a = b
    /\ \A a, b \in AnyRecord : Before(a, b) => ~Before(b, a)
BY DEF AnyRecord, Record, Before

\* The positions that Place counts.
UpToPlace(s, i) ==
    {j \in DOMAIN s : Before(s[j], s[i]) \/ (~Before(s[i], s[j]) /\ j <= i)}

\* The places of a sorted list are apart, and follow its order.
LEMMA PlacesDiffer ==
    ASSUME NEW s \in Seq(AnyRecord), NEW i \in DOMAIN s
    PROVE  /\ Place(s, i) \in 1 .. Len(s)
           /\ \A j \in DOMAIN s : j # i /\ j \in UpToPlace(s, i) => Place(s, j) < Place(s, i)
           /\ \A j \in DOMAIN s : j \in UpToPlace(s, i) \/ i \in UpToPlace(s, j)
<1>1. /\ Len(s) \in Nat /\ DOMAIN s = 1 .. Len(s) /\ \A j \in DOMAIN s : s[j] \in AnyRecord
      /\ IsFiniteSet(DOMAIN s) /\ Cardinality(DOMAIN s) = Len(s)
  <2>1. Len(s) \in Nat /\ DOMAIN s = 1 .. Len(s) /\ \A j \in DOMAIN s : s[j] \in AnyRecord
    OBVIOUS
  <2>2. IsFiniteSet(1 .. Len(s)) /\ Cardinality(1 .. Len(s)) = Len(s)
    BY <2>1, IntervalSize
  <2> QED
    BY <2>1, <2>2
<1>2. ASSUME NEW j \in DOMAIN s
      PROVE  /\ Place(s, j) = Cardinality(UpToPlace(s, j))
             /\ IsFiniteSet(UpToPlace(s, j)) /\ j \in UpToPlace(s, j)
             /\ Place(s, j) \in 1 .. Len(s)
  <2>1. UpToPlace(s, j) \in SUBSET DOMAIN s
    BY DEF UpToPlace
  <2>2. IsFiniteSet(UpToPlace(s, j)) /\ Cardinality(UpToPlace(s, j)) <= Len(s)
    BY <1>1, <2>1, FS_Subset
  <2>3. j \in UpToPlace(s, j)
    BY <1>1, BeforeIsAnOrder DEF UpToPlace
  <2>4. Cardinality(UpToPlace(s, j)) \in Nat /\ Cardinality(UpToPlace(s, j)) # 0
    BY <2>2, <2>3, FS_CardinalityType, FS_EmptySet
  <2>5. Place(s, j) = Cardinality(UpToPlace(s, j))
    BY DEF Place, UpToPlace
  <2> QED
    BY <1>1, <2>2, <2>3, <2>4, <2>5
<1>3. ASSUME NEW j \in DOMAIN s, j # i, j \in UpToPlace(s, i)
      PROVE  Place(s, j) < Place(s, i)
  <2>1. UpToPlace(s, j) \subseteq UpToPlace(s, i) /\ i \notin UpToPlace(s, j)
    BY <1>1, <1>3, BeforeIsAnOrder DEF UpToPlace
  <2>2. UpToPlace(s, j) \in SUBSET UpToPlace(s, i) /\ UpToPlace(s, j) # UpToPlace(s, i)
    BY <1>2, <2>1
  <2>3. Cardinality(UpToPlace(s, j)) <= Cardinality(UpToPlace(s, i))
        /\ Cardinality(UpToPlace(s, j)) # Cardinality(UpToPlace(s, i))
    BY <1>2, <2>2, FS_Subset
  <2> QED
    BY <1>2, <2>3
<1>4. \A j \in DOMAIN s : j \in UpToPlace(s, i) \/ i \in UpToPlace(s, j)
  BY <1>1 DEF UpToPlace
<1> QED
  BY <1>2, <1>3, <1>4

\* Where Sorted takes its k-th record from.
From(s, k) == CHOOSE i \in DOMAIN s : Place(s, i) = k

\* Every place is that of one record.
LEMMA FromIsRight ==
    ASSUME NEW s \in Seq(AnyRecord)
    PROVE  /\ \A k \in DOMAIN s : From(s, k) \in DOMAIN s /\ Place(s, From(s, k)) = k
           /\ \A i, j \in DOMAIN s : Place(s, i) = Place(s, j) => i = j
<1> DEFINE D == DOMAIN s
           p == [i \in D |-> Place(s, i)]
<1>1. IsFiniteSet(D) /\ D = 1 .. Len(s)
  BY FS_Interval
<1>2. \A i \in D : Place(s, i) \in D
  BY <1>1, PlacesDiffer
<1>3. ASSUME NEW i \in D, NEW j \in D, Place(s, i) = Place(s, j), i # j PROVE FALSE
  <2>1. i \in UpToPlace(s, j) \/ j \in UpToPlace(s, i)
    BY PlacesDiffer
  <2>2. Place(s, i) < Place(s, j) \/ Place(s, j) < Place(s, i)
    BY <1>3, <2>1, PlacesDiffer
  <2>3. Place(s, i) \in Nat
    BY <1>1, <1>2
  <2> QED
    BY <1>3, <2>2, <2>3
<1>4. p \in [D -> D]
  BY <1>2
<1>5. p \in Injection(D, D)
  <2>1. \A i, j \in D : p[i] = p[j] => i = j
    BY <1>3
  <2> HIDE DEF p, D
  <2> QED
    BY <1>4, <2>1, Fun_IsInj
<1>6. p \in Surjection(D, D)
  <2> HIDE DEF p, D
  <2> QED
    BY <1>1, <1>5, FS_Injection
<1>7. \A k \in D : \E i \in D : Place(s, i) = k
  <2>1. \A k \in D : \E i \in D : p[i] = k
    <3> HIDE DEF p, D
    <3> QED
      BY <1>6, Fun_SurjectionProperties
  <2> QED
    BY <2>1
<1>8. ASSUME NEW k \in D PROVE From(s, k) \in D /\ Place(s, From(s, k)) = k
  BY <1>7 DEF From
<1> QED
  BY <1>3, <1>8

\* Sorted puts the records of a list in order and loses none.
LEMMA SortedIsRight ==
    ASSUME NEW s \in Seq(AnyRecord)
    PROVE  /\ Sorted(s) \in Seq(AnyRecord) /\ Len(Sorted(s)) = Len(s)
           /\ \A k \in DOMAIN s : Sorted(s)[k] = s[From(s, k)]
           /\ \A i \in DOMAIN s : s[i] = Sorted(s)[Place(s, i)]
           /\ \A k, l \in DOMAIN s : k < l => ~Before(Sorted(s)[l], Sorted(s)[k])
<1>1. /\ DOMAIN s = 1 .. Len(s) /\ Len(s) \in Nat
      /\ \A i \in DOMAIN s : s[i] \in AnyRecord
  OBVIOUS
<1>2. Sorted(s) = [k \in DOMAIN s |-> s[From(s, k)]]
  BY DEF Sorted, From
<1>3. \A k \in DOMAIN s : From(s, k) \in DOMAIN s /\ Place(s, From(s, k)) = k
  BY FromIsRight
<1>4. Sorted(s) \in Seq(AnyRecord) /\ Len(Sorted(s)) = Len(s)
  BY <1>1, <1>2, <1>3
<1>5. \A k \in DOMAIN s : Sorted(s)[k] = s[From(s, k)]
  BY <1>2
<1>6. ASSUME NEW i \in DOMAIN s PROVE s[i] = Sorted(s)[Place(s, i)]
  <2>1. Place(s, i) \in DOMAIN s
    BY <1>1, PlacesDiffer
  <2>2. From(s, Place(s, i)) = i
    BY <1>3, <2>1, FromIsRight
  <2> QED
    BY <1>5, <2>1, <2>2
<1>7. ASSUME NEW k \in DOMAIN s, NEW l \in DOMAIN s, k < l, Before(Sorted(s)[l], Sorted(s)[k])
      PROVE  FALSE
  <2> DEFINE i == From(s, k)
             j == From(s, l)
  <2>1. i \in DOMAIN s /\ j \in DOMAIN s /\ Place(s, i) = k /\ Place(s, j) = l
    BY <1>3
  <2>2. Before(s[j], s[i])
    BY <1>5, <1>7
  <2> HIDE DEF i, j
  <2>3. j \in UpToPlace(s, i)
    BY <2>1, <2>2 DEF UpToPlace
  <2>4. Place(s, j) < Place(s, i)
    <3>1. i # j
      BY <1>7, <2>1, <1>1
    <3> QED
      BY <2>1, <2>3, <3>1, PlacesDiffer
  <2> QED
    BY <1>1, <1>7, <2>1, <2>4
<1> QED
  BY <1>4, <1>5, <1>6, <1>7

\* A record of a reordered list is not before the one that the list itself
\* has in its place: the first k would have to share k - 1 places.
LEMMA ReorderedIsNoEarlier ==
    ASSUME NEW s \in Seq(AnyRecord), NEW f \in Injection(DOMAIN s, DOMAIN s),
           NEW t, t = [i \in DOMAIN s |-> s[f[i]]], NEW k \in DOMAIN s,
           Before(Sorted(t)[k], Sorted(s)[k])
    PROVE  FALSE
<1> DEFINE D == DOMAIN s
           h == [l \in 1 .. k |-> Place(s, f[From(t, l)])]
<1>1. /\ D = 1 .. Len(s) /\ Len(s) \in Nat /\ k \in 1 .. Len(s)
      /\ f \in [D -> D] /\ \A i, j \in D : f[i] = f[j] => i = j
      /\ \A i \in D : s[i] \in AnyRecord
  BY Fun_IsInj DEF Injection, IsInjective
<1>2. t \in Seq(AnyRecord) /\ DOMAIN t = D /\ Len(t) = Len(s) /\ \A i \in D : t[i] = s[f[i]]
  BY <1>1
<1>3. ASSUME NEW l \in 1 .. k
      PROVE  /\ From(t, l) \in D /\ Place(t, From(t, l)) = l
             /\ h[l] \in D /\ h[l] = Place(s, f[From(t, l)])
             /\ Sorted(s)[h[l]] = Sorted(t)[l] /\ l \in D
  <2>1. l \in D
    BY <1>1
  <2>2. From(t, l) \in D /\ Place(t, From(t, l)) = l
    BY <1>2, <2>1, FromIsRight
  <2>3. f[From(t, l)] \in D
    BY <1>1, <2>2
  <2>4. Sorted(t)[l] = s[f[From(t, l)]]
    BY <1>2, <2>1, <2>2, SortedIsRight
  <2>5. s[f[From(t, l)]] = Sorted(s)[Place(s, f[From(t, l)])] /\ Place(s, f[From(t, l)]) \in D
    BY <1>1, <2>3, SortedIsRight, PlacesDiffer
  <2> QED
    BY <2>1, <2>2, <2>4, <2>5
<1>4. ASSUME NEW l \in 1 .. k PROVE h[l] \in 1 .. k - 1
  <2> DEFINE m == h[l]
  <2>1. m \in D /\ Sorted(s)[m] = Sorted(t)[l] /\ l \in D
    BY <1>3
  <2> HIDE DEF h, m
  <2>2. \A i \in D : Sorted(s)[i] \in AnyRecord /\ Sorted(t)[i] \in AnyRecord
    <3>1. Sorted(s) \in Seq(AnyRecord) /\ Len(Sorted(s)) = Len(s)
      BY SortedIsRight
    <3>2. Sorted(t) \in Seq(AnyRecord) /\ Len(Sorted(t)) = Len(s)
      BY <1>2, SortedIsRight
    <3>3. \A r \in Seq(AnyRecord) : \A i \in 1 .. Len(r) : r[i] \in AnyRecord
      OBVIOUS
    <3> QED
      BY <1>1, <3>1, <3>2, <3>3
  <2>3. ~Before(Sorted(t)[k], Sorted(t)[l])
    <3>1. CASE l = k
      BY <1>1, <2>1, <2>2, <3>1, BeforeIsAnOrder
    <3>2. CASE l # k
      <4>1. l < k
        BY <1>1, <3>2
      <4> QED
        BY <1>1, <1>2, <2>1, <4>1, SortedIsRight
    <3> QED
      BY <3>1, <3>2
  <2>4. Before(Sorted(s)[m], Sorted(s)[k])
    BY <1>1, <2>1, <2>2, <2>3, BeforeIsAnOrder
  <2>5. m < k
    <3>1. m # k
      BY <1>1, <2>1, <2>2, <2>4, BeforeIsAnOrder
    <3>2. ~(k < m)
      BY <1>1, <2>1, <2>4, SortedIsRight
    <3> QED
      BY <1>1, <2>1, <3>1, <3>2
  <2>6. m \in 1 .. k - 1
    BY <1>1, <2>1, <2>5
  <2> QED
    BY <2>6 DEF m
<1>5. h \in [1 .. k -> 1 .. k - 1]
  BY <1>4
<1>6. \E x, y \in 1 .. k : x # y /\ h[x] = h[y]
  <2> HIDE DEF h
  <2>1. k \in Nat /\ k - 1 \in Nat
    BY <1>1
  <2>2. IsFiniteSet(1 .. k) /\ Cardinality(1 .. k) = k
    BY <2>1, IntervalSize
  <2>3. IsFiniteSet(1 .. k - 1) /\ Cardinality(1 .. k - 1) = k - 1
    BY <2>1, IntervalSize
  <2>4. Cardinality(1 .. k - 1) < Cardinality(1 .. k)
    BY <2>1, <2>2, <2>3
  <2> QED
    BY <1>5, <2>2, <2>3, <2>4, FS_PigeonHole
<1>7. PICK x \in 1 .. k, y \in 1 .. k : x # y /\ h[x] = h[y]
  BY <1>6
<1>8. f[From(t, x)] = f[From(t, y)]
  <2>1. f[From(t, x)] \in D /\ f[From(t, y)] \in D
    BY <1>1, <1>3
  <2>2. Place(s, f[From(t, x)]) = Place(s, f[From(t, y)])
    BY <1>3, <1>7
  <2> QED
    BY <2>1, <2>2, FromIsRight
<1> HIDE DEF h
<1> QED
  BY <1>1, <1>3, <1>7, <1>8

\* The sort does not see the order of the records it is given.
LEMMA SortedIsUnique ==
    ASSUME NEW s \in Seq(AnyRecord), NEW t \in Orders(s)
    PROVE  t \in Seq(AnyRecord) /\ Sorted(t) = Sorted(s)
<1> DEFINE D == DOMAIN s
<1>1. PICK f \in Bijection(D, D) : t = [i \in D |-> s[f[i]]]
  BY DEF Orders
<1>2. /\ D = 1 .. Len(s) /\ Len(s) \in Nat
      /\ f \in [D -> D] /\ f \in Injection(D, D)
      /\ \A i \in D : s[i] \in AnyRecord
  BY DEF Bijection, Injection
<1>3. PICK g \in Injection(D, D) : \A i \in D : g[i] \in D /\ f[g[i]] = i
  <2>1. \A i \in D : \E j \in D : f[j] = i
    BY <1>1 DEF Bijection, Surjection
  <2> DEFINE g == [i \in D |-> CHOOSE j \in D : f[j] = i]
  <2>2. \A i \in D : g[i] \in D /\ f[g[i]] = i
    BY <2>1
  <2>3. g \in [D -> D]
    BY <2>2
  <2>4. \A i, j \in D : g[i] = g[j] => i = j
    BY <2>2
  <2> HIDE DEF g, D
  <2>5. g \in Injection(D, D)
    BY <2>3, <2>4, Fun_IsInj
  <2> QED
    BY <2>2, <2>5
<1>4. /\ t \in Seq(AnyRecord) /\ DOMAIN t = D
      /\ s = [i \in DOMAIN t |-> t[g[i]]]
  <2>1. t \in [1 .. Len(s) -> AnyRecord]
    BY <1>1, <1>2
  <2>2. t \in Seq(AnyRecord) /\ DOMAIN t = D
    BY <1>2, <2>1
  <2>3. \A i \in D : t[g[i]] = s[i]
    BY <1>1, <1>3
  <2> QED
    BY <1>2, <2>2, <2>3
<1>5. ASSUME NEW k \in D PROVE Sorted(t)[k] = Sorted(s)[k]
  <2>1. ~Before(Sorted(t)[k], Sorted(s)[k])
    BY <1>1, <1>2, ReorderedIsNoEarlier
  <2>2. ~Before(Sorted(s)[k], Sorted(t)[k])
    BY <1>3, <1>4, ReorderedIsNoEarlier
  <2>3. Sorted(s)[k] \in AnyRecord /\ Sorted(t)[k] \in AnyRecord
    BY <1>2, <1>4, SortedIsRight
  <2> QED
    BY <2>1, <2>2, <2>3, BeforeIsAnOrder
<1>6. Sorted(t) = [k \in D |-> Sorted(t)[k]] /\ Sorted(s) = [k \in D |-> Sorted(s)[k]]
  BY <1>4 DEF Sorted
<1>7. Sorted(t) = Sorted(s)
  BY <1>5, <1>6
<1> QED
  BY <1>4, <1>7

\* FlattenSeq makes a list of the elements of its lists.
LEMMA FlattenIsRight ==
    ASSUME NEW T, NEW seqs \in Seq(Seq(T))
    PROVE  /\ FlattenSeq(seqs) \in Seq(T)
           /\ \A x \in ToSet(FlattenSeq(seqs)) :
                 \E i \in 1 .. Len(seqs) : \E j \in DOMAIN seqs[i] : x = seqs[i][j]
<1> DEFINE n == Len(seqs)
           step == [p \in Seq(T) \X (1 .. n) |-> p[1] \o seqs[p[2]]]
           Is(f) == f = [i \in 1 .. n |-> IF i = 1 THEN seqs[i] ELSE f[i - 1] \o seqs[i]]
           flatten == CHOOSE f : Is(f)
           Source(x) == \E i \in 1 .. n : \E j \in DOMAIN seqs[i] : x = seqs[i][j]
<1>1. n \in Nat /\ \A i \in 1 .. n : seqs[i] \in Seq(T)
  OBVIOUS
<1>2. CASE n = 0
  <2>1. FlattenSeq(seqs) = seqs /\ DOMAIN seqs = {}
    BY <1>2 DEF FlattenSeq
  <2>2. seqs \in Seq(T)
    BY <1>2
  <2> QED
    BY <2>1, <2>2 DEF ToSet
<1>3. CASE n # 0
  <2>1. step \in [Seq(T) \X (1 .. n) -> Seq(T)]
    BY <1>1
  <2>2. \A x \in Seq(T), i \in 1 .. n : step[<<x, i>>] = x \o seqs[i]
    OBVIOUS
  <2>3. FlattenSeq(seqs) = flatten[n]
    BY <1>3 DEF FlattenSeq
  <2> HIDE DEF step, n
  <2>4. PICK f : Iterates(f, n, Seq(T), <<>>, step)
    <3>1. <<>> \in Seq(T)
      OBVIOUS
    <3> QED
      BY <1>1, <2>1, <3>1, LoopHasResult
  <2>5. /\ f \in [0 .. n -> Seq(T)] /\ f[0] = <<>>
        /\ \A i \in 1 .. n : f[i - 1] \in Seq(T) /\ f[i] = f[i - 1] \o seqs[i]
    <3>1. /\ f \in [0 .. n -> Seq(T)] /\ f[0] = <<>>
          /\ \A i \in 1 .. n : f[i] = step[<<f[i - 1], i>>]
      BY <2>4 DEF Iterates
    <3>2. \A i \in 1 .. n : f[i - 1] \in Seq(T)
      BY <1>1, <3>1
    <3> QED
      BY <2>2, <3>1, <3>2
  <2>6. Is([i \in 1 .. n |-> f[i]])
    <3> DEFINE h == [i \in 1 .. n |-> f[i]]
               g == [i \in 1 .. n |-> IF i = 1 THEN seqs[i] ELSE h[i - 1] \o seqs[i]]
    <3>1. ASSUME NEW i \in 1 .. n PROVE h[i] = g[i]
      <4>1. CASE i = 1
        <5> DEFINE one == seqs[1]
        <5>1. 1 \in 1 .. n /\ 1 - 1 = 0 /\ one \in Seq(T)
          BY <1>1, <4>1
        <5>2. f[1] = <<>> \o one
          BY <2>5, <5>1
        <5> HIDE DEF one
        <5>3. <<>> \o one = one
          BY <5>1
        <5> QED
          BY <4>1, <5>2, <5>3 DEF one
      <4>2. CASE i # 1
        <5>1. i - 1 \in 1 .. n
          BY <1>1, <4>2
        <5> QED
          BY <2>5, <4>2, <5>1
      <4> QED
        BY <4>1, <4>2
    <3> QED
      BY <3>1
  <2>7. Is(flatten)
    <3> HIDE DEF Is
    <3> QED
      BY <2>6
  <2> HIDE DEF flatten
  <2>8. /\ flatten[1] = seqs[1]
        /\ \A i \in 2 .. n : flatten[i] = flatten[i - 1] \o seqs[i]
    <3>1. 1 \in 1 .. n /\ \A i \in 2 .. n : i \in 1 .. n /\ i # 1
      BY <1>1, <1>3
    <3> QED
      BY <2>7, <3>1
  <2> HIDE DEF Is
  <2> DEFINE Good(xs) == xs \in Seq(T) /\ \A k \in 1 .. Len(xs) : Source(xs[k])
             G == {m \in 0 .. n : m = 0 \/ Good(flatten[m])}
  <2>9. \A i \in 1 .. n : Good(seqs[i])
    BY <1>1
  <2>10. ASSUME NEW xs, Good(xs), NEW ys, Good(ys) PROVE Good(xs \o ys)
    <3> HIDE DEF Source
    <3>1. xs \o ys \in Seq(T) /\ Len(xs \o ys) = Len(xs) + Len(ys) /\ Len(xs) \in Nat /\ Len(ys) \in Nat
      BY <2>10
    <3>2. ASSUME NEW k \in 1 .. Len(xs \o ys) PROVE Source((xs \o ys)[k])
      <4>1. CASE k <= Len(xs)
        <5>1. k \in 1 .. Len(xs) /\ (xs \o ys)[k] = xs[k]
          BY <2>10, <3>1, <4>1
        <5> QED
          BY <2>10, <5>1
      <4>2. CASE k > Len(xs)
        <5>1. k - Len(xs) \in 1 .. Len(ys) /\ (xs \o ys)[k] = ys[k - Len(xs)]
          BY <2>10, <3>1, <4>2
        <5> QED
          BY <2>10, <5>1
      <4> QED
        BY <3>1, <4>1, <4>2
    <3> QED
      BY <3>1, <3>2
  <2> HIDE DEF Good
  <2>11. ASSUME NEW k \in 0 .. n - 1, k \in G PROVE k + 1 \in G
    <3>1. k + 1 \in 0 .. n /\ k + 1 \in 1 .. n /\ k + 1 - 1 = k
      BY <1>1
    <3>2. CASE k = 0
      BY <2>8, <2>9, <3>1, <3>2
    <3>3. CASE k # 0
      <4>1. k + 1 \in 2 .. n /\ Good(flatten[k])
        BY <1>1, <2>11, <3>3
      <4> DEFINE m == k + 1
      <4>2. m \in 2 .. n /\ m - 1 = k
        BY <3>1, <4>1
      <4> HIDE DEF m
      <4>3. flatten[m] = flatten[k] \o seqs[m]
        BY <2>8, <4>2
      <4> QED
        BY <2>9, <2>10, <3>1, <4>1, <4>3 DEF m
    <3> QED
      BY <3>2, <3>3
  <2>12. Good(flatten[n])
    <3>1. 0 \in G
      BY <1>1
    <3> HIDE DEF G
    <3>2. \A k \in 0 .. n : k \in G
      BY <1>1, <2>11, <3>1, UpTo
    <3> QED
      BY <1>1, <1>3, <3>2 DEF G
  <2>13. ASSUME NEW x \in ToSet(flatten[n]) PROVE Source(x)
    <3> HIDE DEF Source
    <3>1. DOMAIN flatten[n] = 1 .. Len(flatten[n])
      BY <2>12 DEF Good
    <3> QED
      BY <2>12, <2>13, <3>1 DEF Good, ToSet
  <2> QED
    BY <2>3, <2>12, <2>13 DEF Good, n
<1> QED
  BY <1>2, <1>3

\* The loop keeps records of the answer, all of the best priority.
LEMMA PreferredIsRight ==
    ASSUME NEW s \in Seq(AnyRecord)
    PROVE  /\ Preferred(s) \in Seq(AnyRecord)
           /\ \A k \in DOMAIN Preferred(s) :
                 /\ Preferred(s)[k] \in ToSet(s)
                 /\ \A i \in DOMAIN s : Preferred(s)[k].priority <= s[i].priority
<1> DEFINE u == Sorted(s)
           Other(k) == u[k].priority > u[1].priority
           I == {k \in 1 .. Len(u) : Other(k)}
           best == Preferred(s)
<1>1. /\ u \in Seq(AnyRecord) /\ Len(u) = Len(s) /\ Len(u) \in Nat
      /\ DOMAIN s = 1 .. Len(u) /\ DOMAIN u = 1 .. Len(u)
      /\ \A k \in 1 .. Len(u) : u[k] \in AnyRecord
  BY SortedIsRight
<1>2. ASSUME NEW k \in 1 .. Len(u) PROVE u[k] \in ToSet(s)
  <2>1. From(s, k) \in DOMAIN s /\ u[k] = s[From(s, k)]
    BY <1>1, FromIsRight, SortedIsRight
  <2> QED
    BY <2>1 DEF ToSet
<1>3. ASSUME NEW i \in DOMAIN s PROVE u[1].priority <= s[i].priority
  <2> DEFINE p == Place(s, i)
  <2>1. p \in 1 .. Len(u) /\ s[i] = u[p] /\ 1 \in 1 .. Len(u)
    BY <1>1, PlacesDiffer, SortedIsRight
  <2> HIDE DEF p
  <2>2. CASE p = 1
    BY <1>1, <2>1, <2>2 DEF AnyRecord, Record
  <2>3. CASE p # 1
    <3>1. 1 < p
      BY <1>1, <2>1, <2>3
    <3>2. ~Before(u[p], u[1])
      BY <1>1, <2>1, <3>1, SortedIsRight
    <3>3. u[p] \in AnyRecord /\ u[1] \in AnyRecord
      BY <1>1, <2>1
    <3> HIDE DEF u
    <3> QED
      BY <2>1, <3>2, <3>3 DEF AnyRecord, Record, Before
  <2> QED
    BY <2>2, <2>3
<1>4. best = IF I = {} THEN u
             ELSE IF Min(I) = 0 THEN u ELSE SubSeq(u, 1, Min(I) - 1)
  <2>1. SelectInSeq(u, LAMBDA a : a.priority > u[1].priority) = IF I # {} THEN Min(I) ELSE 0
    BY DEF SelectInSeq
  <2> QED
    BY <2>1 DEF Preferred
<1> HIDE DEF u, best
<1>5. ASSUME I # {}
      PROVE  Min(I) \in I /\ \A k \in I : Min(I) <= k
  <2>1. I \subseteq Nat
    OBVIOUS
  <2>2. PICK m \in I : \A k \in I : m <= k
    BY <1>5, <2>1, LeastNumber
  <2>3. Min(I) = CHOOSE x \in I : \A y \in I : x <= y
    BY DEF Min
  <2> HIDE DEF I
  <2> QED
    BY <2>2, <2>3
<1>6. best \in Seq(AnyRecord) /\ \A k \in DOMAIN best : k \in 1 .. Len(u) /\ best[k] = u[k] /\ ~Other(k)
  <2>1. CASE I = {}
    BY <1>1, <1>4, <2>1
  <2>2. CASE I # {}
    <3> DEFINE m == Min(I)
    <3>0a. m \in I /\ \A k \in I : m <= k
      BY <1>5, <2>2
    <3>0b. best = IF m = 0 THEN u ELSE SubSeq(u, 1, m - 1)
      BY <1>4, <2>2
    <3> HIDE DEF m
    <3>1. m \in 1 .. Len(u) /\ \A k \in 1 .. Len(u) : k < m => ~Other(k)
      BY <1>1, <3>0a
    <3>2. best = SubSeq(u, 1, m - 1)
      BY <3>0b, <3>1
    <3> HIDE DEF Other
    <3>3. best \in Seq(AnyRecord) /\ Len(best) = m - 1 /\ \A k \in 1 .. m - 1 : best[k] = u[k]
      BY <1>1, <3>1, <3>2
    <3> QED
      BY <1>1, <3>1, <3>3
  <2> QED
    BY <2>1, <2>2
<1>7. ASSUME NEW k \in DOMAIN best
      PROVE  /\ best[k] \in ToSet(s)
             /\ \A i \in DOMAIN s : best[k].priority <= s[i].priority
  <2>1. k \in 1 .. Len(u) /\ best[k] = u[k] /\ ~(u[k].priority > u[1].priority)
    BY <1>6
  <2>2. u[k].priority \in Nat /\ u[1].priority \in Nat
    <3>1. u[k] \in AnyRecord /\ u[1] \in AnyRecord
      BY <1>1, <2>1
    <3> QED
      BY <3>1 DEF AnyRecord, Record
  <2>3. \A i \in DOMAIN s : s[i].priority \in Nat
    <3>1. \A i \in DOMAIN s : s[i] \in AnyRecord
      OBVIOUS
    <3> QED
      BY <3>1 DEF AnyRecord, Record
  <2> QED
    BY <1>2, <1>3, <2>1, <2>2, <2>3
<1> QED
  BY <1>6, <1>7 DEF best

HostsOf(s) == {r.host : r \in ToSet(s)}

\* The instances are hosts of the best records, and a list of hosts of the answer.
LEMMA InstancesAreRight ==
    ASSUME NEW s \in Seq(AnyRecord)
    PROVE  /\ Instances(s) \in Seq(HostsOf(s))
           /\ \A h \in ToSet(Instances(s)) :
                 \E r \in ToSet(s) : /\ r.host = h
                                    /\ \A q \in ToSet(s) : r.priority <= q.priority
<1> DEFINE best == Preferred(s)
           times == Compact([i \in DOMAIN best |-> best[i].weight])
           seqs == [i \in DOMAIN best |-> [j \in 1 .. times[i] |-> best[i].host]]
<1>1. /\ best \in Seq(AnyRecord) /\ Len(best) \in Nat /\ DOMAIN best = 1 .. Len(best)
      /\ \A k \in DOMAIN best : /\ best[k] \in AnyRecord /\ best[k] \in ToSet(s)
                                /\ \A i \in DOMAIN s : best[k].priority <= s[i].priority
  BY PreferredIsRight
<1>2. Instances(s) = FlattenSeq(seqs)
  BY DEF Instances
<1> HIDE DEF best
<1>3. \A i \in DOMAIN best : times[i] \in Nat
  <2> DEFINE ws == [i \in DOMAIN best |-> best[i].weight]
  <2>1. ws \in Seq(Nat) /\ Len(ws) = Len(best)
    BY <1>1 DEF AnyRecord, Record
  <2> HIDE DEF ws
  <2>2. Compact(ws) \in Seq(Nat) /\ Len(Compact(ws)) = Len(best)
    BY <2>1, CompactIsRight
  <2>3. \A i \in DOMAIN best : Compact(ws)[i] \in Nat
    BY <1>1, <2>2
  <2> QED
    BY <2>3 DEF ws
<1> HIDE DEF times
<1>4. \A i \in DOMAIN best : [j \in 1 .. times[i] |-> best[i].host] \in Seq(HostsOf(s))
  BY <1>1, <1>3 DEF HostsOf
<1>4b. /\ seqs = [i \in 1 .. Len(best) |-> seqs[i]]
       /\ \A i \in 1 .. Len(best) : seqs[i] \in Seq(HostsOf(s))
  BY <1>1, <1>4
<1>6. \A i \in 1 .. Len(best) : \A j \in DOMAIN seqs[i] : seqs[i][j] = best[i].host
  BY <1>1
<1> HIDE DEF seqs
<1>5. seqs \in Seq(Seq(HostsOf(s))) /\ Len(seqs) = Len(best)
  BY <1>1, <1>4b
<1>7. ASSUME NEW h \in ToSet(Instances(s))
      PROVE  \E r \in ToSet(s) : r.host = h /\ \A q \in ToSet(s) : r.priority <= q.priority
  <2>1. PICK i \in 1 .. Len(seqs) : \E j \in DOMAIN seqs[i] : h = seqs[i][j]
    <3>1. \A x \in ToSet(FlattenSeq(seqs)) :
             \E i \in 1 .. Len(seqs) : \E j \in DOMAIN seqs[i] : x = seqs[i][j]
      BY <1>5, FlattenIsRight
    <3> QED
      BY <1>2, <1>7, <3>1
  <2>2. h = best[i].host /\ i \in DOMAIN best
    BY <1>1, <1>5, <1>6, <2>1
  <2>3. \A q \in ToSet(s) : best[i].priority <= q.priority
    BY <1>1, <2>2 DEF ToSet
  <2> QED
    BY <1>1, <2>2, <2>3
<1> QED
  BY <1>2, <1>5, <1>7, FlattenIsRight

\* The instances are those of any order of the answer.
LEMMA OrdersResolveAlike ==
    ASSUME NEW s \in Seq(AnyRecord), NEW t \in Orders(s)
    PROVE  Instances(t) = Instances(s)
<1>1. Sorted(t) = Sorted(s)
  BY SortedIsUnique
<1>2. Preferred(t) = Preferred(s)
  BY <1>1 DEF Preferred
<1> QED
  BY <1>2 DEF Instances

\* To swap two neighbours is an order.
LEMMA SwappedIsAnOrder ==
    ASSUME NEW T, NEW s \in Seq(T), NEW i \in 1 .. Len(s) - 1
    PROVE  Swapped(s, i) \in Orders(s)
<1> DEFINE D == DOMAIN s
           f == [j \in D |-> IF j = i THEN i + 1 ELSE IF j = i + 1 THEN i ELSE j]
<1>1. D = 1 .. Len(s) /\ Len(s) \in Nat /\ i \in D /\ i + 1 \in D /\ i # i + 1
  OBVIOUS
<1>2. f \in [D -> D] /\ \A j \in D : f[f[j]] = j
  BY <1>1
<1>3. Swapped(s, i) = [j \in D |-> s[f[j]]]
  BY <1>1 DEF Swapped
<1> HIDE DEF f, D
<1>4. f \in Injection(D, D)
  BY <1>2, Fun_IsInj
<1>5. f \in Surjection(D, D)
  BY <1>2 DEF Surjection
<1> QED
  BY <1>3, <1>4, <1>5 DEF Orders, D, Bijection

AnswerType == srvs \in Seq(AnyRecord)

\* Every property of the resolver, of any answer.
LEMMA InstancesStand ==
    ASSUME srvs \in Seq(AnyRecord)
    PROVE  InstancesStandForTheZone
<1>1. Weights(srvs) \in Seq(Nat)
  <2>1. /\ DOMAIN srvs = 1 .. Len(srvs) /\ Len(srvs) \in Nat
        /\ \A i \in DOMAIN srvs : srvs[i] \in AnyRecord
    OBVIOUS
  <2>2. \A i \in DOMAIN srvs : srvs[i].weight \in Nat
    BY <2>1 DEF AnyRecord, Record
  <2> QED
    BY <2>1, <2>2 DEF Weights
<1>2. RatiosAreKept /\ ZoneIsServed /\ ListIsModest
  BY <1>1, RatiosKept, ServedStill, ListBounded, HeavierGets
  DEF RatiosAreKept, ZoneIsServed, ListIsModest
<1>3. OrderDoesNotMatter
  BY SwappedIsAnOrder, OrdersResolveAlike DEF OrderDoesNotMatter
<1>4. OnlyPreferred
  BY InstancesAreRight DEF OnlyPreferred
<1> QED
  BY <1>2, <1>3, <1>4 DEF InstancesStandForTheZone

(***************************************************************************)
(* Whatever the DNS answers and however long, the list of instances that   *)
(* resolve computes stands for the zone: the ratios of light weights in    *)
(* least terms, no zone scaled down to nothing, a list within the scale,   *)
(* no dependence on the order of the records, only the best priority.      *)
(***************************************************************************)
THEOREM ResolverIsRight == AnswersSpec => []InstancesStandForTheZone
<1>1. AnswersInit => AnswerType
  BY DEF AnswersInit, AnswerType
<1>2. AnswerType /\ [AnswersNext]_srvs => AnswerType'
  <2> SUFFICES ASSUME AnswerType, [AnswersNext]_srvs
               PROVE  AnswerType'
    OBVIOUS
  <2>0. AnswerType
    OBVIOUS
  <2>1. CASE AddRecord
    <3>1. PICK r \in Record(Hosts, WeightRange, Priorities) : srvs' = Append(srvs, r)
      BY <2>1 DEF AddRecord
    <3>2. r \in AnyRecord
      BY AnswersAssumption DEF AnyRecord, Record
    <3> QED
      BY <2>0, <3>1, <3>2 DEF AnswerType
  <2>2. CASE UNCHANGED srvs
    BY <2>0, <2>2 DEF AnswerType
  <2> QED
    BY <2>1, <2>2 DEF AnswersNext, AnswerEnds
<1>3. AnswerType => InstancesStandForTheZone
  BY InstancesStand DEF AnswerType
<1> QED
  BY <1>1, <1>2, <1>3, PTL DEF AnswersSpec

-----------------------------------------------------------------------------
(* The host that a call goes to (LoadBalancer).                            *)

\* Another order of a list has the same hosts.
LEMMA OrdersKeepHosts ==
    ASSUME NEW T, NEW s \in Seq(T), NEW o \in Orders(s)
    PROVE  o \in Seq(T) /\ Len(o) = Len(s) /\ ToSet(o) = ToSet(s)
<1>1. PICK f \in Bijection(DOMAIN s, DOMAIN s) : o = [x \in DOMAIN s |-> s[f[x]]]
  BY DEF Orders
<1>2. /\ DOMAIN s = 1 .. Len(s) /\ Len(s) \in Nat
      /\ f \in [DOMAIN s -> DOMAIN s]
      /\ \A y \in DOMAIN s : \E x \in DOMAIN s : f[x] = y
  BY DEF Bijection, Injection, Surjection
<1>3. o \in [1 .. Len(s) -> T]
  BY <1>1, <1>2
<1>4. o \in Seq(T) /\ Len(o) = Len(s) /\ DOMAIN o = DOMAIN s
  BY <1>2, <1>3
<1>5. ToSet(o) = ToSet(s)
  BY <1>1, <1>2, <1>4 DEF ToSet
<1> QED
  BY <1>4, <1>5

\* The zone as it stands is an answer.
LEMMA ZonesAreAnswers ==
    ASSUME NEW z \in Zones
    PROVE  z \in Orders(z) /\ z \in ZoneAnswers /\ Orders(z) \subseteq ZoneAnswers
<1>1. z \in Seq(Record(HostRange, Nat, Nat))
  BY BalancerAssumption
<1> DEFINE f == [x \in DOMAIN z |-> x]
<1>2. f \in Bijection(DOMAIN z, DOMAIN z)
  BY DEF Bijection, Injection, Surjection, IsInjective
<1>3. z = [x \in DOMAIN z |-> z[f[x]]]
  BY <1>1
<1>4. z \in Orders(z)
  BY <1>2, <1>3 DEF Orders
<1> QED
  BY <1>4 DEF ZoneAnswers

\* An answer is an order of a zone, and resolves as it does to hosts there are.
LEMMA ResolvedType ==
    ASSUME NEW z \in Zones, NEW o \in Orders(z)
    PROVE  /\ Resolved[z] \in Seq(HostRange) /\ Resolved[o] = Resolved[z]
           /\ o \in ZoneAnswers
<1>1. z \in Seq(Record(HostRange, Nat, Nat))
  BY BalancerAssumption
<1>2. z \in Seq(AnyRecord)
  <2>1. Record(HostRange, Nat, Nat) \subseteq AnyRecord
    BY BalancerAssumption DEF AnyRecord, Record
  <2> QED
    BY <1>1, <2>1
<1>3. z \in ZoneAnswers /\ o \in ZoneAnswers
  BY ZonesAreAnswers
<1>4. Resolved[z] = Instances(z) /\ Resolved[o] = Instances(o)
  BY <1>3 DEF Resolved
<1>5. HostsOf(z) \subseteq HostRange
  <2>1. \A r \in ToSet(z) : r \in Record(HostRange, Nat, Nat)
    BY <1>1 DEF ToSet
  <2> QED
    BY <2>1 DEF HostsOf, Record
<1>6. Instances(z) \in Seq(HostRange)
  <2>1. Instances(z) \in Seq(HostsOf(z))
    BY <1>2, InstancesAreRight
  <2> QED
    BY <1>5, <2>1
<1> QED
  BY <1>2, <1>3, <1>4, <1>6, OrdersResolveAlike

\* What the subscriber stores are the hosts of the answer.
LEMMA ArrangementsKeepHosts ==
    ASSUME NEW z \in ZoneAnswers, NEW h \in Arrangements[z]
    PROVE  h \in Seq(HostRange) /\ ToSet(h) = ToSet(Resolved[z])
<1>1. Resolved[z] \in Seq(HostRange)
  BY ResolvedType DEF ZoneAnswers
<1> QED
  BY <1>1, OrdersKeepHosts DEF Arrangements

\* No list is empty that has a host.
LEMMA HostOfList ==
    ASSUME NEW s \in Seq(HostRange), NEW k \in Nat, k < Len(s)
    PROVE  s[k + 1] \in HostRange /\ s[k + 1] \in ToSet(s)
<1>1. k + 1 \in 1 .. Len(s) /\ DOMAIN s = 1 .. Len(s)
  OBVIOUS
<1> QED
  BY <1>1 DEF ToSet

Choosing == {c \in Clients : pc[c] = "choosing"}

SubscriberInv ==
    /\ conf \in Configs /\ cache \in Seq(HostRange) /\ zone \in Zones
    /\ refresher \in {"none", "sleep", "lookup", "store"}
    /\ fetched \in ZoneAnswers \cup {<<>>}
    /\ refresher = "store" => fetched \in ZoneAnswers
    /\ ~conf.dns => cache = conf.fixed /\ refresher = "none"
    /\ stored \subseteq SUBSET HostRange
    /\ conf.dns => \/ cache = <<>> /\ stored = {}
                   \/ stored = {ToSet(cache)}
    /\ changes \in 0 .. MaxChanges

\* A client that chooses holds the hosts of an answer it has seen.
ChoosingInv ==
    /\ pc \in [Clients -> {"idle", "choosing"}]
    /\ hosts \in [Clients -> Seq(HostRange)]
    /\ seen \in [Clients -> SUBSET SUBSET HostRange]
    /\ \A c \in Clients : pc[c] = "choosing" =>
          /\ hosts[c] # <<>> /\ ~Nop
          /\ conf.dns => ToSet(hosts[c]) \in seen[c]

ReplyInv == reply \in Reply /\ NoPanic /\ RepliesAreCurrent

\* Every draw is one turn of at most one host.
DrawsInv ==
    /\ draws \in Nat /\ IsFiniteSet(Choosing)
    /\ draws + Cardinality(Choosing) <= MaxDraws
    /\ turns \in [HostRange -> Nat]
    /\ \A h \in HostRange : turns[h] <= draws
    /\ counter \in 0 .. Modulus - 1 /\ wraps \in Nat

BalancerIInv == SubscriberInv /\ ChoosingInv /\ ReplyInv /\ DrawsInv

\* The offset of a host is one of the list.
LEMMA RemainderIsLess ==
    ASSUME NEW m \in Nat, NEW n \in Nat \ {0}
    PROVE  m % n \in 0 .. n - 1
OBVIOUS

\* Before the first request the cache has an answer, or the fixed hosts.
LEMMA BalancerInitially == Init => BalancerIInv
<1> SUFFICES ASSUME Init PROVE BalancerIInv
  OBVIOUS
<1>0. conf \in [roundRobin : BOOLEAN, dns : BOOLEAN, fixed : Seq(HostRange)]
  BY BalancerAssumption DEF Init, Config
<1>1. SubscriberInv
  <2>1. CASE conf.dns /\ cache \in Arrangements[zone] /\ stored = {ToSet(Resolved[zone])}
    <3>1. zone \in ZoneAnswers
      BY ZonesAreAnswers DEF Init
    <3>2. cache \in Seq(HostRange) /\ stored = {ToSet(cache)}
      BY <2>1, <3>1, ArrangementsKeepHosts
    <3>3. ToSet(cache) \subseteq HostRange
      BY <3>2 DEF ToSet
    <3>4. /\ refresher = "sleep" /\ fetched = <<>> /\ changes = 0
          /\ conf \in Configs /\ zone \in Zones /\ MaxChanges \in Nat
      BY <2>1, BalancerAssumption DEF Init
    <3>5. stored \subseteq SUBSET HostRange
      BY <3>2, <3>3
    <3>6. conf.dns /\ changes \in 0 .. MaxChanges
      BY <2>1, <3>4
    <3> QED
      BY <3>2, <3>4, <3>5, <3>6 DEF SubscriberInv
  <2>2. CASE conf.dns /\ cache = <<>> /\ stored = {}
    BY <2>2, BalancerAssumption DEF Init, SubscriberInv
  <2>3. CASE ~conf.dns
    BY <1>0, <2>3, BalancerAssumption DEF Init, SubscriberInv
  <2> QED
    BY <2>1, <2>2, <2>3 DEF Init
<1>2. ChoosingInv
  BY DEF Init, ChoosingInv
<1>3. ReplyInv
  BY DEF Init, ReplyInv, Reply, NoHost, NoPanic, RepliesAreCurrent
<1>4. DrawsInv
  <2>1. Choosing = {}
    BY DEF Init, Choosing
  <2>2. IsFiniteSet(Choosing) /\ Cardinality(Choosing) = 0
    BY <2>1, FS_EmptySet
  <2>3. Starts \subseteq 0 .. Modulus - 1
    <3>0. Modulus \in Nat \ {0} /\ Len(conf.fixed) \in Nat
      BY <1>0, BalancerAssumption
    <3>1. \A x \in 0 .. Len(conf.fixed) - 1 : x % Modulus \in 0 .. Modulus - 1
      <4> SUFFICES ASSUME NEW x \in 0 .. Len(conf.fixed) - 1
                   PROVE  x % Modulus \in 0 .. Modulus - 1
        OBVIOUS
      <4>1. x \in Nat
        BY <3>0
      <4> QED
        BY <3>0, <4>1, RemainderIsLess
    <3> QED
      BY <3>0, <3>1 DEF Starts
  <2> QED
    BY <2>2, <2>3, BalancerAssumption DEF Init, DrawsInv
<1> QED
  BY <1>1, <1>2, <1>3, <1>4 DEF BalancerIInv

\* The invariant of balancers and refresher (loadbalancing.go, subscriber.go).
THEOREM BalancerInvariance == Spec => []BalancerIInv
<1>1. BalancerIInv /\ [Next]_vars => BalancerIInv'
  <2> SUFFICES ASSUME BalancerIInv, [Next]_vars PROVE BalancerIInv'
    OBVIOUS
  <2>1. CASE ZoneChanges
    <3>1. UNCHANGED <<conf, cache, refresher, fetched, stored, seen, counter, pc, hosts, reply,
                      draws, turns, wraps>>
      BY <2>1 DEF ZoneChanges, clientVars
    <3>2. SubscriberInv'
      BY <2>1, <3>1, BalancerAssumption DEF BalancerIInv, SubscriberInv, ZoneChanges
    <3> QED
      BY <3>1, <3>2 DEF BalancerIInv, ChoosingInv, ReplyInv, DrawsInv, Nop, NoPanic,
                        RepliesAreCurrent, Choosing
  <2>2. CASE Wake \/ LookupAnswers \/ LookupFails
    <3>1. UNCHANGED <<conf, cache, zone, stored, seen, changes, counter, pc, hosts, reply,
                      draws, turns, wraps>>
      BY <2>2 DEF Wake, LookupAnswers, LookupFails, clientVars
    <3>2. SubscriberInv'
      BY <2>2, <3>1, ZonesAreAnswers
         DEF BalancerIInv, SubscriberInv, Wake, LookupAnswers, LookupFails
    <3> QED
      BY <3>1, <3>2 DEF BalancerIInv, ChoosingInv, ReplyInv, DrawsInv, Nop, NoPanic,
                        RepliesAreCurrent, Choosing
  <2>3. CASE Store
    <3>1. UNCHANGED <<conf, zone, changes, counter, pc, hosts, reply, draws, turns, wraps>>
      BY <2>3 DEF Store, clientVars
    <3>2. /\ fetched \in ZoneAnswers /\ cache' \in Arrangements[fetched]
          /\ stored' = {ToSet(Resolved[fetched])}
          /\ refresher' = "sleep" /\ fetched' = <<>> /\ conf.dns
      BY <2>3 DEF Store, BalancerIInv, SubscriberInv
    <3>3. cache' \in Seq(HostRange) /\ stored' = {ToSet(cache')}
      BY <3>2, ArrangementsKeepHosts
    <3>4. ToSet(cache') \subseteq HostRange
      BY <3>3 DEF ToSet
    <3>5. SubscriberInv'
      BY <3>1, <3>2, <3>3, <3>4 DEF BalancerIInv, SubscriberInv
    <3>6. /\ seen' \in [Clients -> SUBSET SUBSET HostRange]
          /\ \A c \in Clients : seen[c] \subseteq seen'[c]
      BY <2>3, <3>3, <3>4 DEF Store, BalancerIInv, ChoosingInv
    <3> QED
      BY <3>1, <3>5, <3>6 DEF BalancerIInv, ChoosingInv, ReplyInv, DrawsInv, Nop, NoPanic,
                              RepliesAreCurrent, Choosing
  <2>4. ASSUME NEW c \in Clients, TakeHosts(c)
        PROVE  BalancerIInv'
    <3>1. /\ pc[c] = "idle" /\ ~Nop
          /\ draws + Cardinality(Choosing) < MaxDraws
          /\ UNCHANGED <<conf, cache, zone, refresher, fetched, stored, changes,
                         counter, draws, turns, wraps>>
      BY <2>4 DEF TakeHosts, dnsVars, Pending, Choosing
    <3>2. SubscriberInv'
      BY <3>1 DEF BalancerIInv, SubscriberInv
    <3>3. CASE cache = <<>>
      <4>1. /\ reply' = [kind |-> "ErrNoHosts", host |-> NoHost, answers |-> stored]
            /\ UNCHANGED <<pc, hosts, seen>>
        BY <2>4, <3>3 DEF TakeHosts
      <4>2. ToSet(<<>>) = {}
        BY DEF ToSet
      <4>3. ReplyInv'
        <5>1. reply' \in Reply
          BY <4>1 DEF Reply, NoHost, BalancerIInv, SubscriberInv
        <5>2. NoPanic'
          BY <4>1 DEF NoPanic
        <5>3. RepliesAreCurrent'
          BY <3>1, <3>3, <4>1, <4>2 DEF RepliesAreCurrent, BalancerIInv, SubscriberInv
        <5> QED
          BY <5>1, <5>2, <5>3 DEF ReplyInv
      <4> QED
        BY <3>1, <3>2, <4>1, <4>3 DEF BalancerIInv, ChoosingInv, DrawsInv, Nop, Choosing
    <3>4. CASE cache # <<>>
      <4>1. /\ pc' = [pc EXCEPT ![c] = "choosing"] /\ hosts' = [hosts EXCEPT ![c] = cache]
            /\ seen' = [seen EXCEPT ![c] = stored] /\ reply' = reply
        BY <2>4, <3>4 DEF TakeHosts
      <4>2. ChoosingInv'
        <5>1. cache \in Seq(HostRange) /\ stored \in SUBSET SUBSET HostRange
              /\ (conf.dns => ToSet(cache) \in stored)
          BY <3>4 DEF BalancerIInv, SubscriberInv
        <5>2. /\ pc' \in [Clients -> {"idle", "choosing"}]
              /\ hosts' \in [Clients -> Seq(HostRange)]
              /\ seen' \in [Clients -> SUBSET SUBSET HostRange]
          BY <4>1, <5>1 DEF BalancerIInv, ChoosingInv
        <5>3. ASSUME NEW d \in Clients, pc'[d] = "choosing"
              PROVE  hosts'[d] # <<>> /\ ~Nop' /\ (conf'.dns => ToSet(hosts'[d]) \in seen'[d])
          <6>1. ~Nop'
            BY <3>1 DEF Nop
          <6>2. CASE d = c
            BY <3>1, <3>4, <4>1, <5>1, <6>1, <6>2 DEF BalancerIInv, ChoosingInv
          <6>3. CASE d # c
            BY <3>1, <4>1, <5>3, <6>1, <6>3 DEF BalancerIInv, ChoosingInv
          <6> QED
            BY <6>2, <6>3
        <5> QED
          BY <5>2, <5>3 DEF ChoosingInv
      <4>3. ReplyInv'
        BY <3>1, <4>1 DEF BalancerIInv, ReplyInv, NoPanic, RepliesAreCurrent
      <4>4. DrawsInv'
        <5>1. Choosing' = Choosing \cup {c} /\ c \notin Choosing
          BY <3>1, <4>1 DEF Choosing, BalancerIInv, ChoosingInv
        <5>2. IsFiniteSet(Choosing') /\ Cardinality(Choosing') = Cardinality(Choosing) + 1
          BY <5>1, FS_AddElement DEF BalancerIInv, DrawsInv
        <5>3. Cardinality(Choosing) \in Nat
          BY FS_CardinalityType DEF BalancerIInv, DrawsInv
        <5> QED
          BY <3>1, <5>2, <5>3, BalancerAssumption DEF BalancerIInv, DrawsInv
      <4> QED
        BY <3>2, <4>2, <4>3, <4>4 DEF BalancerIInv
    <3> QED
      BY <3>3, <3>4
  <2>5. ASSUME NEW c \in Clients, RoundRobin(c) \/ Random(c)
        PROVE  BalancerIInv'
    <3>1. /\ pc[c] = "choosing" /\ hosts[c] \in Seq(HostRange) /\ hosts[c] # <<>>
          /\ conf.dns => ToSet(hosts[c]) \in seen[c]
          /\ counter \in Nat /\ Modulus \in Nat \ {0}
      BY <2>5, BalancerAssumption DEF RoundRobin, Random, BalancerIInv, ChoosingInv, DrawsInv
    <3>2. Len(hosts[c]) \in Nat \ {0}
      BY <3>1
    <3>3. Chosen(c) /\ wraps' \in Nat /\ counter' \in 0 .. Modulus - 1
      <4>1. (counter + 1) % Modulus \in 0 .. Modulus - 1
        <5>1. counter + 1 \in Nat /\ Modulus \in Nat \ {0}
          BY <3>1
        <5> QED
          BY <5>1, RemainderIsLess
      <4> QED
        BY <2>5, <4>1 DEF RoundRobin, Random, BalancerIInv, DrawsInv
    <3>4. PICK offset \in Nat : offset < Len(hosts[c]) /\ Give(c, hosts[c], offset)
      <4>1. CASE RoundRobin(c)
        <5>1. counter % Len(hosts[c]) \in 0 .. Len(hosts[c]) - 1
          BY <3>1, <3>2, RemainderIsLess
        <5> QED
          BY <3>2, <4>1, <5>1 DEF RoundRobin
      <4>2. CASE Random(c)
        BY <3>2, <4>2 DEF Random
      <4> QED
        BY <2>5, <4>1, <4>2
    <3> DEFINE h == hosts[c][offset + 1]
    <3>5. h \in HostRange /\ h \in ToSet(hosts[c])
      BY <3>1, <3>4, HostOfList
    <3>6. /\ draws' = draws + 1
          /\ reply' = [kind |-> "host", host |-> h, answers |-> seen[c]]
          /\ turns' = [turns EXCEPT ![h] = @ + 1] \/ turns' = turns
      BY <3>4 DEF Give
    <3>7. /\ pc' = [pc EXCEPT ![c] = "idle"] /\ hosts' = [hosts EXCEPT ![c] = <<>>]
          /\ seen' = [seen EXCEPT ![c] = {}]
          /\ UNCHANGED <<conf, cache, zone, refresher, fetched, stored, changes>>
      BY <3>3 DEF Chosen, dnsVars
    <3> HIDE DEF h
    <3>8. SubscriberInv'
      BY <3>7 DEF BalancerIInv, SubscriberInv
    <3>9. ChoosingInv'
      BY <3>7 DEF BalancerIInv, ChoosingInv, Nop
    <3>10. ReplyInv'
      <4>1. reply' \in Reply
        BY <3>5, <3>6 DEF Reply, BalancerIInv, ChoosingInv
      <4>2. RepliesAreCurrent' /\ NoPanic'
        BY <3>1, <3>5, <3>6, <3>7 DEF RepliesAreCurrent, NoPanic
      <4> QED
        BY <4>1, <4>2 DEF ReplyInv
    <3>11. DrawsInv'
      <4>1. Choosing' = Choosing \ {c} /\ c \in Choosing
        BY <3>1, <3>7 DEF Choosing, BalancerIInv, ChoosingInv
      <4>2. IsFiniteSet(Choosing') /\ Cardinality(Choosing') = Cardinality(Choosing) - 1
        BY <4>1, FS_RemoveElement DEF BalancerIInv, DrawsInv
      <4>3. Cardinality(Choosing) \in Nat
        BY FS_CardinalityType DEF BalancerIInv, DrawsInv
      <4>4. draws' \in Nat /\ draws' + Cardinality(Choosing') <= MaxDraws
        BY <3>6, <4>2, <4>3, BalancerAssumption DEF BalancerIInv, DrawsInv
      <4>5. turns' \in [HostRange -> Nat] /\ \A x \in HostRange : turns'[x] <= draws'
        <5>1. CASE turns' = turns
          BY <3>6, <5>1 DEF BalancerIInv, DrawsInv
        <5>2. CASE turns' = [turns EXCEPT ![h] = @ + 1]
          <6>1. turns \in [HostRange -> Nat] /\ draws \in Nat
                /\ \A x \in HostRange : turns[x] <= draws
            BY DEF BalancerIInv, DrawsInv
          <6>2. turns' \in [HostRange -> Nat]
            BY <3>5, <5>2, <6>1
          <6>3. ASSUME NEW x \in HostRange PROVE turns'[x] <= draws'
            <7>1. turns[x] \in Nat /\ turns[x] <= draws
                  /\ (turns'[x] = turns[x] \/ turns'[x] = turns[x] + 1)
              BY <5>2, <6>1
            <7> QED
              BY <3>6, <6>1, <7>1
          <6> QED
            BY <6>2, <6>3
        <5> QED
          BY <3>6, <5>1, <5>2
      <4> QED
        BY <3>3, <4>2, <4>4, <4>5 DEF DrawsInv
    <3> QED
      BY <3>8, <3>9, <3>10, <3>11 DEF BalancerIInv
  <2>6. ASSUME NEW c \in Clients, NopHost(c)
        PROVE  BalancerIInv'
    <3>1. /\ Nop /\ draws < MaxDraws /\ Give(c, conf.fixed, 0)
          /\ UNCHANGED <<conf, cache, zone, refresher, fetched, stored, changes,
                         counter, pc, hosts, seen, wraps>>
      BY <2>6 DEF NopHost, dnsVars
    <3>2. conf.fixed \in Seq(HostRange) /\ Len(conf.fixed) = 1 /\ ~conf.dns
      BY <3>1, BalancerAssumption DEF Nop, Config, BalancerIInv, SubscriberInv
    <3> DEFINE h == conf.fixed[0 + 1]
    <3>3. h \in HostRange
      BY <3>2, HostOfList
    <3>4. /\ draws' = draws + 1
          /\ reply' = [kind |-> "host", host |-> h, answers |-> seen[c]]
          /\ turns' = [turns EXCEPT ![h] = @ + 1] \/ turns' = turns
      BY <3>1, <3>2 DEF Give
    <3> HIDE DEF h
    <3>5. SubscriberInv'
      BY <3>1 DEF BalancerIInv, SubscriberInv
    <3>6. ChoosingInv' /\ Choosing' = Choosing
      BY <3>1 DEF BalancerIInv, ChoosingInv, Nop, Choosing
    <3>7. ReplyInv'
      <4>1. reply' \in Reply
        BY <3>3, <3>4 DEF Reply, BalancerIInv, ChoosingInv
      <4>2. RepliesAreCurrent' /\ NoPanic'
        BY <3>1, <3>2, <3>4 DEF RepliesAreCurrent, NoPanic
      <4> QED
        BY <4>1, <4>2 DEF ReplyInv
    <3>8. DrawsInv'
      <4>1. Choosing = {}
        BY <3>1 DEF Choosing, BalancerIInv, ChoosingInv
      <4>2. Cardinality(Choosing) = 0
        BY <4>1, FS_EmptySet
      <4>3. draws' \in Nat /\ draws' + Cardinality(Choosing') <= MaxDraws
        BY <3>1, <3>4, <3>6, <4>2, BalancerAssumption DEF BalancerIInv, DrawsInv
      <4>4. turns' \in [HostRange -> Nat] /\ \A x \in HostRange : turns'[x] <= draws'
        <5>1. CASE turns' = turns
          BY <3>4, <5>1 DEF BalancerIInv, DrawsInv
        <5>2. CASE turns' = [turns EXCEPT ![h] = @ + 1]
          <6>1. turns \in [HostRange -> Nat] /\ draws \in Nat
                /\ \A x \in HostRange : turns[x] <= draws
            BY DEF BalancerIInv, DrawsInv
          <6>2. turns' \in [HostRange -> Nat]
            BY <3>3, <5>2, <6>1
          <6>3. ASSUME NEW x \in HostRange PROVE turns'[x] <= draws'
            <7>1. turns[x] \in Nat /\ turns[x] <= draws
                  /\ (turns'[x] = turns[x] \/ turns'[x] = turns[x] + 1)
              BY <5>2, <6>1
            <7> QED
              BY <3>4, <6>1, <7>1
          <6> QED
            BY <6>2, <6>3
        <5> QED
          BY <3>4, <5>1, <5>2
      <4> QED
        BY <3>1, <3>6, <4>3, <4>4 DEF BalancerIInv, DrawsInv
    <3> QED
      BY <3>5, <3>6, <3>7, <3>8 DEF BalancerIInv
  <2>7. CASE UNCHANGED vars
    BY <2>7 DEF vars, BalancerIInv, SubscriberInv, ChoosingInv, ReplyInv, DrawsInv, Nop, NoPanic,
                RepliesAreCurrent, Choosing
  <2> QED
    BY <2>1, <2>2, <2>3, <2>4, <2>5, <2>6, <2>7 DEF Next, ClientStep, Finished
<1> QED
  BY <1>1, BalancerInitially, PTL DEF Spec

(***************************************************************************)
(* The subscriber and the clients keep within their types, and the draws   *)
(* within their bound.                                                     *)
(***************************************************************************)
THEOREM BalancerTypeCorrect == Spec => []TypeOK
<1>1. BalancerIInv => TypeOK
  <2> SUFFICES ASSUME BalancerIInv PROVE TypeOK
    OBVIOUS
  <2>1. draws \in 0 .. MaxDraws /\ draws + Cardinality(Choosing) <= MaxDraws
    <3>1. Cardinality(Choosing) \in Nat
      BY FS_CardinalityType DEF BalancerIInv, DrawsInv
    <3> QED
      BY <3>1, BalancerAssumption DEF BalancerIInv, DrawsInv
  <2>2. turns \in [HostRange -> 0 .. MaxDraws]
    BY <2>1, BalancerAssumption DEF BalancerIInv, DrawsInv
  <2>3. SubscriberInv /\ ChoosingInv /\ reply \in Reply
        /\ counter \in 0 .. Modulus - 1 /\ wraps \in Nat
    BY DEF BalancerIInv, ReplyInv, DrawsInv
  <2> QED
    BY <2>1, <2>2, <2>3 DEF TypeOK, Choosing, SubscriberInv, ChoosingInv
<1> QED
  BY <1>1, BalancerInvariance, PTL

(***************************************************************************)
(* For any number of clients, any zones and lists of any length: no client *)
(* reads past its list, and every host, or the lack of one, is that of an  *)
(* answer that was the latest at some moment of the call                   *)
(* (loadbalancing.go:56-61, subscriber.go:107-126).                        *)
(***************************************************************************)
THEOREM BalancerSound == Spec => []RepliesAreSound
<1>1. BalancerIInv => RepliesAreSound
  BY DEF BalancerIInv, ReplyInv, RepliesAreSound
<1> QED
  BY <1>1, BalancerInvariance, PTL

-----------------------------------------------------------------------------
(* The turns of a round robin over a list that stays the same.             *)

\* Quotient and remainder are those of the one division there is.
LEMMA QuotientIs ==
    ASSUME NEW m \in Nat, NEW n \in Nat \ {0}, NEW q \in Nat, NEW r \in 0 .. n - 1,
           m = (q * n) + r
    PROVE  m \div n = q /\ m % n = r
<1> DEFINE d == m \div n
           e == m % n
<1>1. d \in Nat /\ e \in 0 .. n - 1 /\ m = (d * n) + e
  BY Quotients
<1> HIDE DEF d, e
<1>2. ASSUME NEW x \in Nat, NEW y \in Nat, x < y PROVE (x * n) + n <= y * n
  <2>1. PICK k \in Nat : y = x + 1 + k
    <3>1. y - x - 1 \in Nat /\ y = x + 1 + (y - x - 1)
      BY <1>2
    <3> QED
      BY <3>1
  <2>2. y * n = ((x + 1) * n) + (k * n) /\ k * n \in Nat
    BY <2>1, Products
  <2>3. (x + 1) * n = (x * n) + (1 * n)
    BY Products
  <2> QED
    BY <2>2, <2>3, Products
<1>3. d * n \in Nat /\ q * n \in Nat
  BY <1>1, Products
<1>4. ~(d < q) /\ ~(q < d)
  BY <1>1, <1>2, <1>3
<1>5. d = q
  BY <1>1, <1>4
<1> QED
  BY <1>1, <1>3, <1>5 DEF d, e

\* The ceiling counts the part of a round as one.
LEMMA CeilingIs ==
    ASSUME NEW m \in Nat, NEW n \in Nat \ {0}
    PROVE  /\ Ceiling(m, n) = IF m % n = 0 THEN m \div n ELSE (m \div n) + 1
           /\ Ceiling(m, n) \in Nat
<1> DEFINE q == m \div n
           r == m % n
<1>1. q \in Nat /\ r \in 0 .. n - 1 /\ m = (q * n) + r
  BY Quotients
<1> HIDE DEF q, r
<1>2. q * n \in Nat /\ (q + 1) * n = (q * n) + n
  BY <1>1, Products
<1>3. m + n - 1 \in Nat
  OBVIOUS
<1>4. CASE r = 0
  <2>1. m + n - 1 = (q * n) + (n - 1) /\ n - 1 \in 0 .. n - 1
    BY <1>1, <1>2, <1>4
  <2>2. (m + n - 1) \div n = q
    BY <1>1, <1>3, <2>1, QuotientIs
  <2> QED
    BY <1>1, <1>4, <2>2 DEF Ceiling, q, r
<1>5. CASE r # 0
  <2>1. m + n - 1 = ((q + 1) * n) + (r - 1) /\ r - 1 \in 0 .. n - 1 /\ q + 1 \in Nat
    BY <1>1, <1>2, <1>5
  <2>2. (m + n - 1) \div n = q + 1
    BY <1>3, <2>1, QuotientIs
  <2> QED
    BY <1>1, <1>5, <2>2 DEF Ceiling, q, r
<1> QED
  BY <1>4, <1>5

\* Two runs of turns have at most one full round more together than apart, and
\* begin at most one more apart.
LEMMA RoundsOfSums ==
    ASSUME NEW a \in Nat, NEW b \in Nat, NEW n \in Nat \ {0}
    PROVE  /\ (a + b) \div n <= (a \div n) + (b \div n) + 1
           /\ Ceiling(a, n) + Ceiling(b, n) <= Ceiling(a + b, n) + 1
           /\ Ceiling(a, n) \in Nat /\ Ceiling(b, n) \in Nat /\ Ceiling(a + b, n) \in Nat
<1> DEFINE p == a \div n
           q == b \div n
           r == a % n
           s == b % n
<1>1. /\ p \in Nat /\ r \in 0 .. n - 1 /\ a = (p * n) + r
      /\ q \in Nat /\ s \in 0 .. n - 1 /\ b = (q * n) + s
  BY Quotients
<1>2. /\ Ceiling(a, n) = IF r = 0 THEN p ELSE p + 1
      /\ Ceiling(b, n) = IF s = 0 THEN q ELSE q + 1
      /\ Ceiling(a + b, n) = IF (a + b) % n = 0 THEN (a + b) \div n ELSE ((a + b) \div n) + 1
  <2>1. a + b \in Nat
    OBVIOUS
  <2>2. Ceiling(a + b, n) = IF (a + b) % n = 0 THEN (a + b) \div n ELSE ((a + b) \div n) + 1
    BY <2>1, CeilingIs
  <2>3. /\ Ceiling(a, n) = IF r = 0 THEN p ELSE p + 1
        /\ Ceiling(b, n) = IF s = 0 THEN q ELSE q + 1
    BY CeilingIs
  <2> QED
    BY <2>2, <2>3
<1> HIDE DEF p, q, r, s
<1>3. /\ p * n \in Nat /\ q * n \in Nat
      /\ (p + q) * n = (p * n) + (q * n)
      /\ ((p + q) + 1) * n = (p * n) + (q * n) + n
  <2>1. p * n \in Nat /\ q * n \in Nat /\ (p + q) * n = (p * n) + (q * n)
    BY <1>1, Products
  <2>2. ((p + q) + 1) * n = ((p + q) * n) + (1 * n)
    BY <1>1, Products
  <2> QED
    BY <2>1, <2>2
<1>4. CASE r + s < n
  <2>1. a + b \in Nat /\ p + q \in Nat /\ r + s \in 0 .. n - 1 /\ a + b = ((p + q) * n) + (r + s)
    BY <1>1, <1>3, <1>4
  <2>2. (a + b) \div n = p + q /\ (a + b) % n = r + s
    BY <2>1, QuotientIs
  <2> QED
    BY <1>1, <1>2, <2>2 DEF p, q
<1>5. CASE r + s >= n
  <2>1. /\ a + b \in Nat /\ (p + q) + 1 \in Nat /\ r + s - n \in 0 .. n - 1
        /\ a + b = (((p + q) + 1) * n) + (r + s - n)
    BY <1>1, <1>3, <1>5
  <2>2. (a + b) \div n = (p + q) + 1 /\ (a + b) % n = r + s - n
    BY <2>1, QuotientIs
  <2>3. r # 0 /\ s # 0
    BY <1>1, <1>5
  <2> QED
    BY <1>1, <1>2, <2>2, <2>3 DEF p, q
<1> QED
  BY <1>1, <1>4, <1>5

\* How often a host is among the first k of a list, and the turns it gets when
\* the counter comes to m from 0.
Among(L, h, k) == Cardinality({i \in DOMAIN L : L[i] = h /\ i <= k})

TurnsBy(L, h, m) == ((m \div Len(L)) * Among(L, h, Len(L))) + Among(L, h, m % Len(L))

\* Counting a host along a list: it grows by one at each of its places.
LEMMA AmongIs ==
    ASSUME NEW T, NEW L \in Seq(T), NEW h
    PROVE  /\ \A k \in 0 .. Len(L) : Among(L, h, k) \in Nat
           /\ \A j, k \in 0 .. Len(L) : j <= k => Among(L, h, j) <= Among(L, h, k)
           /\ Among(L, h, 0) = 0
           /\ Among(L, h, Len(L)) = Cardinality({i \in DOMAIN L : L[i] = h})
           /\ \A k \in 0 .. Len(L) - 1 :
                 Among(L, h, k + 1) = Among(L, h, k) + (IF L[k + 1] = h THEN 1 ELSE 0)
<1> DEFINE A(k) == {i \in DOMAIN L : L[i] = h /\ i <= k}
<1>1. DOMAIN L = 1 .. Len(L) /\ Len(L) \in Nat
  OBVIOUS
<1>2. IsFiniteSet(DOMAIN L)
  BY <1>1, IntervalSize
<1>3. \A k \in 0 .. Len(L) : IsFiniteSet(A(k)) /\ Cardinality(A(k)) \in Nat
  <2> SUFFICES ASSUME NEW k \in 0 .. Len(L)
               PROVE  IsFiniteSet(A(k)) /\ Cardinality(A(k)) \in Nat
    OBVIOUS
  <2>1. A(k) \in SUBSET DOMAIN L
    OBVIOUS
  <2> HIDE DEF A
  <2> QED
    BY <1>2, <2>1, FS_Subset, FS_CardinalityType
<1>4. ASSUME NEW j \in 0 .. Len(L), NEW k \in 0 .. Len(L), j <= k
      PROVE  Cardinality(A(j)) <= Cardinality(A(k))
  <2>1. A(j) \in SUBSET A(k)
    BY <1>1, <1>4
  <2> HIDE DEF A
  <2> QED
    BY <1>3, <2>1, FS_Subset
<1>5. Cardinality(A(0)) = 0
  <2>1. A(0) = {}
    BY <1>1
  <2> HIDE DEF A
  <2> QED
    BY <2>1, FS_EmptySet
<1>6. A(Len(L)) = {i \in DOMAIN L : L[i] = h}
  BY <1>1
<1>7. ASSUME NEW k \in 0 .. Len(L) - 1
      PROVE  Cardinality(A(k + 1)) = Cardinality(A(k)) + (IF L[k + 1] = h THEN 1 ELSE 0)
  <2>1. k \in 0 .. Len(L) /\ k + 1 \in DOMAIN L
    BY <1>1
  <2>2. CASE L[k + 1] = h
    <3>1. A(k + 1) = A(k) \cup {k + 1} /\ k + 1 \notin A(k)
      BY <1>1, <2>1, <2>2
    <3> HIDE DEF A
    <3> QED
      BY <1>3, <2>1, <2>2, <3>1, FS_AddElement
  <2>3. CASE L[k + 1] # h
    <3>1. A(k + 1) = A(k)
      BY <1>1, <2>1, <2>3
    <3> HIDE DEF A
    <3> QED
      BY <1>3, <2>1, <2>3, <3>1
  <2> QED
    BY <2>2, <2>3
<1>8. \A k : Among(L, h, k) = Cardinality(A(k))
  BY DEF Among
<1> HIDE DEF A
<1> QED
  BY <1>3, <1>4, <1>5, <1>6, <1>7, <1>8

\* One more turn is that of the host the counter points to.
LEMMA NextTurn ==
    ASSUME NEW T, NEW L \in Seq(T), L # <<>>, NEW h, NEW m \in Nat
    PROVE  /\ TurnsBy(L, h, m) \in Nat /\ TurnsBy(L, h, 0) = 0
           /\ TurnsBy(L, h, m + 1) =
                 TurnsBy(L, h, m) + (IF L[(m % Len(L)) + 1] = h THEN 1 ELSE 0)
<1> DEFINE n == Len(L)
           q == m \div n
           r == m % n
           cp == Among(L, h, n)
           A(k) == Among(L, h, k)
<1>1. n \in Nat \ {0}
  OBVIOUS
<1>2. q \in Nat /\ r \in 0 .. n - 1 /\ m = (q * n) + r
  BY <1>1, Quotients
<1>3. /\ cp \in Nat /\ \A k \in 0 .. n : A(k) \in Nat
      /\ A(0) = 0 /\ A(n) = cp
      /\ \A k \in 0 .. n - 1 : A(k + 1) = A(k) + (IF L[k + 1] = h THEN 1 ELSE 0)
  <2>1. n \in 0 .. n
    BY <1>1
  <2> QED
    BY <2>1, AmongIs
<1>4. TurnsBy(L, h, m) = (q * cp) + A(r)
  BY DEF TurnsBy
<1>5. \A k \in Nat : TurnsBy(L, h, k) = ((k \div n) * cp) + A(k % n)
  BY DEF TurnsBy
<1> HIDE DEF n, q, r, cp, A
<1>6. q * cp \in Nat /\ (q + 1) * cp = (q * cp) + cp
      /\ q * n \in Nat /\ (q + 1) * n = (q * n) + n
  BY <1>1, <1>2, <1>3, Products
<1>7. A(r) \in Nat /\ A(r + 1) = A(r) + (IF L[r + 1] = h THEN 1 ELSE 0)
  BY <1>1, <1>2, <1>3
<1>8. TurnsBy(L, h, 0) = 0
  <2>1. 0 \in Nat /\ 0 \in 0 .. n - 1 /\ 0 * n = 0 /\ 0 * cp = 0
    BY <1>1, <1>3
  <2>2. 0 \div n = 0 /\ 0 % n = 0
    BY <1>1, <2>1, QuotientIs
  <2> QED
    BY <1>3, <1>5, <2>1, <2>2
<1>9. TurnsBy(L, h, m + 1) = TurnsBy(L, h, m) + (IF L[r + 1] = h THEN 1 ELSE 0)
  <2>1. m + 1 \in Nat
    OBVIOUS
  <2>2. CASE r + 1 < n
    <3>1. r + 1 \in 0 .. n - 1 /\ m + 1 = (q * n) + (r + 1)
      BY <1>1, <1>2, <1>6, <2>2
    <3>2. (m + 1) \div n = q /\ (m + 1) % n = r + 1
      BY <1>1, <1>2, <2>1, <3>1, QuotientIs
    <3>3. TurnsBy(L, h, m + 1) = (q * cp) + A(r + 1)
      BY <1>5, <2>1, <3>2
    <3> QED
      BY <1>4, <1>6, <1>7, <3>3
  <2>3. CASE ~(r + 1 < n)
    <3>1. 0 \in 0 .. n - 1 /\ q + 1 \in Nat /\ m + 1 = ((q + 1) * n) + 0 /\ r + 1 = n
      BY <1>1, <1>2, <1>6, <2>3
    <3>2. (m + 1) \div n = q + 1 /\ (m + 1) % n = 0
      BY <1>1, <2>1, <3>1, QuotientIs
    <3>3. TurnsBy(L, h, m + 1) = ((q + 1) * cp) + A(0)
      BY <1>5, <2>1, <3>2
    <3>4. A(r + 1) = cp
      BY <1>3, <3>1
    <3>5. ((q + 1) * cp) + A(0) = (q * cp) + cp
      BY <1>3, <1>6
    <3> QED
      BY <1>4, <1>6, <1>7, <3>3, <3>4, <3>5
  <2> QED
    BY <2>2, <2>3
<1>10. TurnsBy(L, h, m) \in Nat
  BY <1>4, <1>6, <1>7
<1> QED
  BY <1>8, <1>9, <1>10 DEF n, r

\* The turns of a run of d draws: its full rounds, and at most the one begun.
LEMMA TurnsOfRun ==
    ASSUME NEW T, NEW L \in Seq(T), L # <<>>, NEW h, NEW m \in Nat, NEW d \in Nat
    PROVE  /\ (d \div Len(L)) * Among(L, h, Len(L)) <= TurnsBy(L, h, m + d) - TurnsBy(L, h, m)
           /\ TurnsBy(L, h, m + d) - TurnsBy(L, h, m)
                 <= Ceiling(d, Len(L)) * Among(L, h, Len(L))
<1> DEFINE n == Len(L)
           p == d \div n
           s == d % n
           q == m \div n
           r == m % n
           cp == Among(L, h, n)
           A(k) == Among(L, h, k)
<1>1. n \in Nat \ {0}
  OBVIOUS
<1>2. /\ q \in Nat /\ r \in 0 .. n - 1 /\ m = (q * n) + r
      /\ p \in Nat /\ s \in 0 .. n - 1 /\ d = (p * n) + s
  BY <1>1, Quotients
<1>3. /\ cp \in Nat /\ \A k \in 0 .. n : A(k) \in Nat /\ A(k) <= cp
      /\ \A j, k \in 0 .. n : j <= k => A(j) <= A(k)
  <2>1. \A k \in 0 .. n : k \in 0 .. n /\ n \in 0 .. n /\ k <= n
    BY <1>1
  <2>2. n \in 0 .. n
    BY <1>1
  <2>3. \A j, k \in 0 .. n : j <= k => A(j) <= A(k)
    BY AmongIs
  <2>4. \A k \in 0 .. n : A(k) \in Nat
    BY AmongIs
  <2>5. A(n) = cp
    OBVIOUS
  <2> HIDE DEF n, A, cp
  <2> QED
    BY <2>1, <2>2, <2>3, <2>4, <2>5
<1>4. \A k \in Nat : TurnsBy(L, h, k) = ((k \div n) * cp) + A(k % n)
  BY DEF TurnsBy
<1>5. Ceiling(d, n) = IF s = 0 THEN p ELSE p + 1
  BY <1>1, CeilingIs
<1>6. TurnsBy(L, h, m) = (q * cp) + A(r)
  BY <1>4
<1> DEFINE begun == Ceiling(d, n)
           x == TurnsBy(L, h, m)
           y == TurnsBy(L, h, m + d)
<1> SUFFICES p * cp <= y - x /\ y - x <= begun * cp
  OBVIOUS
<1>7. y = (((m + d) \div n) * cp) + A((m + d) % n)
  BY <1>4
<1> HIDE DEF n, p, q, r, s, cp, A, begun, x, y
<1>8. /\ q * cp \in Nat /\ p * cp \in Nat /\ (p + q) * cp = (p * cp) + (q * cp)
      /\ ((p + q) + 1) * cp = (p * cp) + (q * cp) + cp
      /\ (p + 1) * cp = (p * cp) + cp
  <2>1. q * cp \in Nat /\ p * cp \in Nat /\ (p + q) * cp = (p * cp) + (q * cp)
        /\ (p + 1) * cp = (p * cp) + (1 * cp) /\ 1 * cp = cp
    BY <1>2, <1>3, Products
  <2>2. p + q \in Nat
    BY <1>2
  <2>3. ((p + q) + 1) * cp = ((p + q) * cp) + (1 * cp)
    BY <1>3, <2>2, Products
  <2> QED
    BY <1>3, <2>1, <2>3
<1>9. /\ q * n \in Nat /\ p * n \in Nat /\ (p + q) * n = (p * n) + (q * n)
      /\ ((p + q) + 1) * n = (p * n) + (q * n) + n
  <2>1. q * n \in Nat /\ p * n \in Nat /\ (p + q) * n = (p * n) + (q * n) /\ 1 * n = n
    BY <1>1, <1>2, Products
  <2>2. p + q \in Nat
    BY <1>2
  <2>3. ((p + q) + 1) * n = ((p + q) * n) + (1 * n)
    BY <1>1, <2>2, Products
  <2> QED
    BY <1>1, <2>1, <2>3
<1>10. begun * cp = IF s = 0 THEN p * cp ELSE (p * cp) + cp
  BY <1>5, <1>8 DEF begun
<1>11. x = (q * cp) + A(r) /\ A(r) \in Nat /\ A(r) <= cp
  <2>1. r \in 0 .. n
    BY <1>1, <1>2
  <2> QED
    BY <1>3, <1>6, <2>1 DEF x
<1>12. m + d \in Nat
  OBVIOUS
<1>13. CASE r + s < n
  <2>1. p + q \in Nat /\ r + s \in 0 .. n - 1 /\ m + d = ((p + q) * n) + (r + s)
    BY <1>1, <1>2, <1>9, <1>13
  <2>2. (m + d) \div n = p + q /\ (m + d) % n = r + s
    BY <1>1, <1>12, <2>1, QuotientIs
  <2>3. y = (p * cp) + (q * cp) + A(r + s)
    BY <1>7, <1>8, <2>2
  <2>4. A(r + s) \in Nat /\ A(r) <= A(r + s) /\ A(r + s) <= cp /\ (s = 0 => A(r + s) = A(r))
    <3>1. r \in 0 .. n /\ r + s \in 0 .. n /\ r <= r + s /\ (s = 0 => r + s = r)
      BY <1>1, <1>2, <1>13
    <3> QED
      BY <1>3, <3>1
  <2> QED
    BY <1>3, <1>8, <1>10, <1>11, <2>3, <2>4
<1>14. CASE r + s >= n
  <2>1. /\ (p + q) + 1 \in Nat /\ r + s - n \in 0 .. n - 1
        /\ m + d = (((p + q) + 1) * n) + (r + s - n)
    BY <1>1, <1>2, <1>9, <1>14
  <2>2. (m + d) \div n = (p + q) + 1 /\ (m + d) % n = r + s - n
    BY <1>1, <1>12, <2>1, QuotientIs
  <2> DEFINE t == r + s - n
  <2>3. y = (p * cp) + (q * cp) + cp + A(t)
    BY <1>7, <1>8, <2>2
  <2>4. A(t) \in Nat /\ A(t) <= A(r) /\ s # 0
    <3>1. r \in 0 .. n /\ t \in 0 .. n /\ t <= r /\ s # 0
      BY <1>1, <1>2, <1>14
    <3> QED
      BY <1>3, <3>1
  <2> HIDE DEF t
  <2> QED
    BY <1>3, <1>8, <1>10, <1>11, <2>3, <2>4
<1> QED
  BY <1>1, <1>2, <1>13, <1>14

\* Products with a natural number distribute and keep the order.
LEMMA Multiples ==
    ASSUME NEW a \in Int, NEW b \in Int, NEW c \in Nat
    PROVE  /\ a * c \in Int /\ (a + b) * c = (a * c) + (b * c)
           /\ a <= b => a * c <= b * c
<1>1. a * c \in Int /\ (a + b) * c = (a * c) + (b * c)
  OBVIOUS
<1>2. ASSUME a <= b PROVE a * c <= b * c
  <2> DEFINE k == b - a
  <2>1. k \in Nat /\ b = a + k
    BY <1>2
  <2> HIDE DEF k
  <2>2. k * c \in Nat /\ a * c \in Int
    BY <2>1
  <2>3. (a + k) * c = (a * c) + (k * c)
    BY <2>1
  <2> QED
    BY <2>1, <2>2, <2>3
<1> QED
  BY <1>1, <1>2

\* Bounds of two numbers bound their sum.
LEMMA BoundsAddUp ==
    ASSUME NEW p \in Int, NEW q \in Int, NEW r \in Int, NEW e \in Int, NEW f \in Int, NEW g \in Int,
           NEW v \in Int, NEW z \in Int,
           r <= p + q, p <= v, q <= z, e + f <= g, v <= e, z <= f
    PROVE  r <= v + z /\ v + z <= g
OBVIOUS

\* The turns t of a host after d draws, when the counter is at c and wrapped w
\* times: those since the last wrap are exact, and every run before it may have
\* lost or won the part of a round.
Fair(L, h, d, c, w, t) ==
    IF w = 0
    THEN d <= c /\ t = TurnsBy(L, h, c) - TurnsBy(L, h, c - d)
    ELSE /\ c <= d
         /\ (((d - c) \div Len(L)) + 1 - w) * Among(L, h, Len(L)) <= t - TurnsBy(L, h, c)
         /\ t - TurnsBy(L, h, c) <= (Ceiling(d - c, Len(L)) + w - 1) * Among(L, h, Len(L))

\* A draw, with the counter modulo M.
LEMMA FairStep ==
    ASSUME NEW T, NEW L \in Seq(T), L # <<>>, NEW h, NEW M \in Nat \ {0},
           NEW d \in Nat, NEW c \in 0 .. M - 1, NEW w \in Nat, NEW t \in Nat,
           Fair(L, h, d, c, w, t),
           NEW u, u = t + (IF L[(c % Len(L)) + 1] = h THEN 1 ELSE 0)
    PROVE  Fair(L, h, d + 1, (c + 1) % M, IF c = M - 1 THEN w + 1 ELSE w, u)
<1> DEFINE n == Len(L)
           cp == Among(L, h, n)
           B(m) == TurnsBy(L, h, m)
           one == IF L[(c % n) + 1] = h THEN 1 ELSE 0
<1>1. n \in Nat \ {0} /\ c \in Nat /\ c + 1 \in Nat
  OBVIOUS
<1>2. cp \in Nat
  <2>1. n \in 0 .. n
    BY <1>1
  <2> QED
    BY <2>1, AmongIs
<1>3. B(c) \in Nat /\ B(0) = 0 /\ B(c + 1) = B(c) + one
  BY <1>1, NextTurn
<1>4. u = t + one
  OBVIOUS
<1>5. IF w = 0
      THEN d <= c /\ t = B(c) - B(c - d)
      ELSE /\ c <= d
           /\ (((d - c) \div n) + 1 - w) * cp <= t - B(c)
           /\ t - B(c) <= (Ceiling(d - c, n) + w - 1) * cp
  BY DEF Fair
<1>6. \A e, f, v : Fair(L, h, e, f, v, u) <=>
         IF v = 0
         THEN e <= f /\ u = B(f) - B(f - e)
         ELSE /\ f <= e
              /\ (((e - f) \div n) + 1 - v) * cp <= u - B(f)
              /\ u - B(f) <= (Ceiling(e - f, n) + v - 1) * cp
  BY DEF Fair
<1>7. \A m, k \in Nat : /\ B(m) \in Nat
                        /\ (k \div n) * cp <= B(m + k) - B(m)
                        /\ B(m + k) - B(m) <= Ceiling(k, n) * cp
  BY NextTurn, TurnsOfRun
<1> HIDE DEF n, cp, B, one
<1>8. CASE c < M - 1
  <2>1. (c + 1) % M = c + 1
    BY <1>1, <1>8
  <2>2. (c + 1) - (d + 1) = c - d /\ (d + 1) - (c + 1) = d - c
    BY <1>1
  <2>3. CASE w = 0
    <3>1. c - d \in Nat
      BY <1>1, <1>5, <2>3
    <3>2. B(c - d) \in Nat /\ one \in Nat
      BY <1>7, <3>1 DEF one
    <3>3. d + 1 <= c + 1 /\ u = B(c + 1) - B((c + 1) - (d + 1))
      BY <1>1, <1>3, <1>4, <1>5, <2>2, <2>3, <3>2
    <3>4. Fair(L, h, d + 1, c + 1, 0, u)
      BY <1>6, <3>3
    <3> QED
      BY <1>8, <2>1, <2>3, <3>4
  <2>4. CASE w # 0
    <3>1. u - B(c + 1) = t - B(c)
      BY <1>3, <1>4 DEF one
    <3>2. /\ c + 1 <= d + 1
          /\ ((((d + 1) - (c + 1)) \div n) + 1 - w) * cp <= u - B(c + 1)
          /\ u - B(c + 1) <= (Ceiling((d + 1) - (c + 1), n) + w - 1) * cp
      BY <1>1, <1>5, <2>2, <2>4, <3>1
    <3>3. Fair(L, h, d + 1, c + 1, w, u)
      BY <1>6, <2>4, <3>2
    <3> QED
      BY <1>8, <2>1, <3>3
  <2> QED
    BY <2>3, <2>4
<1>9. CASE c = M - 1
  <2>1. (c + 1) % M = 0 /\ c + 1 = M
    BY <1>1, <1>9
  <2>2. (d + 1) - 0 = d + 1 /\ d + 1 \in Nat /\ 0 <= d + 1 /\ w + 1 # 0
    OBVIOUS
  <2>3. SUFFICES /\ (((d + 1) \div n) + 1 - (w + 1)) * cp <= u
                 /\ u <= (Ceiling(d + 1, n) + (w + 1) - 1) * cp
    <3>1. u - B(0) = u
      BY <1>3, <1>4 DEF one
    <3>2. Fair(L, h, d + 1, 0, w + 1, u)
      BY <1>6, <2>2, <2>3, <3>1
    <3> QED
      BY <1>9, <2>1, <3>2
  <2>4. CASE w = 0
    <3>1. c - d \in Nat /\ (c - d) + (d + 1) = c + 1
      BY <1>1, <1>5, <2>4
    <3>2. u = B(c + 1) - B(c - d)
      <4>1. B(c - d) \in Nat /\ one \in Nat
        BY <1>7, <3>1 DEF one
      <4> QED
        BY <1>3, <1>4, <1>5, <2>4, <4>1
    <3>3. ((d + 1) \div n) * cp <= u /\ u <= Ceiling(d + 1, n) * cp
      BY <1>7, <2>2, <3>1, <3>2
    <3>4. /\ ((d + 1) \div n) + 1 - (w + 1) = (d + 1) \div n
          /\ Ceiling(d + 1, n) + (w + 1) - 1 = Ceiling(d + 1, n)
      <4>1. (d + 1) \div n \in Nat
        BY <1>1, <2>2, Quotients
      <4>2. Ceiling(d + 1, n) \in Nat
        BY <1>1, <2>2, <4>1, CeilingIs
      <4> QED
        BY <2>4, <4>1, <4>2
    <3> QED
      BY <3>3, <3>4
  <2>5. CASE w # 0
    <3> DEFINE a == d - c
               p == a \div n
               q == M \div n
               r == (d + 1) \div n
               e == Ceiling(a, n)
               f == Ceiling(M, n)
               g == Ceiling(d + 1, n)
    <3>1. a \in Nat /\ M \in Nat /\ d + 1 = a + M
      BY <1>1, <1>5, <1>9, <2>5
    <3>2. /\ p \in Nat /\ q \in Nat /\ r \in Nat /\ r <= p + q + 1
          /\ e \in Nat /\ f \in Nat /\ g \in Nat /\ e + f <= g + 1
      <4>1. p \in Nat /\ q \in Nat /\ r \in Nat
        BY <1>1, <2>2, <3>1, Quotients
      <4>2. (a + M) \div n <= p + q + 1 /\ e + f <= Ceiling(a + M, n) + 1
            /\ e \in Nat /\ f \in Nat /\ Ceiling(a + M, n) \in Nat
        <5> HIDE DEF a
        <5> QED
          BY <1>1, <3>1, RoundsOfSums
      <4> QED
        BY <3>1, <4>1, <4>2
    <3>3. (p + 1 - w) * cp <= t - B(c) /\ t - B(c) <= (e + w - 1) * cp
      BY <1>5, <2>5
    <3>4. q * cp <= B(M) /\ B(M) <= f * cp /\ B(M) \in Nat
      <4>1. 0 \in Nat /\ M \in Nat /\ 0 + M = M
        OBVIOUS
      <4>2. q * cp <= B(0 + M) - B(0) /\ B(0 + M) - B(0) <= f * cp /\ B(M) \in Nat
        BY <1>7, <4>1
      <4> QED
        BY <1>3, <4>1, <4>2
    <3>5. u = (t - B(c)) + B(M)
      BY <1>3, <1>4, <2>1 DEF one
    <3> HIDE DEF a, p, q, r, e, f, g
    <3>6. (r + 1 - (w + 1)) * cp <= ((p + 1 - w) + q) * cp
      <4>1. /\ r + 1 - (w + 1) \in Int /\ (p + 1 - w) + q \in Int
            /\ r + 1 - (w + 1) <= (p + 1 - w) + q
        BY <3>2
      <4> QED
        BY <1>2, <4>1, Multiples
    <3>7. ((e + w - 1) + f) * cp <= (g + (w + 1) - 1) * cp
      <4>1. /\ (e + w - 1) + f \in Int /\ g + (w + 1) - 1 \in Int
            /\ (e + w - 1) + f <= g + (w + 1) - 1
        BY <3>2
      <4> QED
        BY <1>2, <4>1, Multiples
    <3>8. /\ ((p + 1 - w) + q) * cp = ((p + 1 - w) * cp) + (q * cp)
          /\ ((e + w - 1) + f) * cp = ((e + w - 1) * cp) + (f * cp)
      <4>1. p + 1 - w \in Int /\ q \in Int /\ e + w - 1 \in Int /\ f \in Int
        BY <3>2
      <4> QED
        BY <1>2, <4>1, Multiples
    <3>9. /\ (p + 1 - w) * cp \in Int /\ q * cp \in Int /\ (e + w - 1) * cp \in Int /\ f * cp \in Int
          /\ (r + 1 - (w + 1)) * cp \in Int /\ (g + (w + 1) - 1) * cp \in Int
      <4>1. /\ p + 1 - w \in Int /\ q \in Int /\ e + w - 1 \in Int /\ f \in Int
            /\ r + 1 - (w + 1) \in Int /\ g + (w + 1) - 1 \in Int
        BY <3>2
      <4> QED
        BY <1>2, <4>1, Multiples
    <3>10. t - B(c) \in Int
      BY <1>3
    <3>11. /\ (r + 1 - (w + 1)) * cp <= u /\ u <= (g + (w + 1) - 1) * cp
      <4> DEFINE v == t - B(c)
                 pp == (p + 1 - w) * cp
                 qq == q * cp
                 ee == (e + w - 1) * cp
                 ff == f * cp
                 rr == (r + 1 - (w + 1)) * cp
                 gg == (g + (w + 1) - 1) * cp
      <4>1. rr <= pp + qq /\ ee + ff <= gg
        BY <3>6, <3>7, <3>8
      <4>2. pp <= v /\ v <= ee /\ qq <= B(M) /\ B(M) <= ff
        BY <3>3, <3>4
      <4>3. pp \in Int /\ qq \in Int /\ ee \in Int /\ ff \in Int /\ rr \in Int /\ gg \in Int
        BY <3>9
      <4>4. v \in Int /\ B(M) \in Int /\ u = v + B(M)
        BY <3>4, <3>5, <3>10
      <4> HIDE DEF v, pp, qq, ee, ff, rr, gg
      <4>5. rr <= u /\ u <= gg
        BY <4>1, <4>2, <4>3, <4>4, BoundsAddUp
      <4> QED
        BY <4>5 DEF rr, gg
    <3> QED
      BY <3>11 DEF r, g
  <2> QED
    BY <2>4, <2>5
<1> QED
  BY <1>1, <1>8, <1>9

\* Such turns are a fair share.
LEMMA FairEnough ==
    ASSUME NEW T, NEW L \in Seq(T), L # <<>>, NEW h,
           NEW d \in Nat, NEW c \in Nat, NEW w \in Nat, NEW t \in Nat,
           Fair(L, h, d, c, w, t)
    PROVE  /\ t >= ((d \div Len(L)) - w) * Among(L, h, Len(L))
           /\ t <= (Ceiling(d, Len(L)) + w) * Among(L, h, Len(L))
<1> DEFINE n == Len(L)
           cp == Among(L, h, n)
           B(m) == TurnsBy(L, h, m)
<1>1. n \in Nat \ {0}
  OBVIOUS
<1>2. cp \in Nat
  <2>1. n \in 0 .. n
    BY <1>1
  <2> QED
    BY <2>1, AmongIs
<1>3. IF w = 0
      THEN d <= c /\ t = B(c) - B(c - d)
      ELSE /\ c <= d
           /\ (((d - c) \div n) + 1 - w) * cp <= t - B(c)
           /\ t - B(c) <= (Ceiling(d - c, n) + w - 1) * cp
  BY DEF Fair
<1>4. \A m, k \in Nat : /\ B(m) \in Nat
                        /\ (k \div n) * cp <= B(m + k) - B(m)
                        /\ B(m + k) - B(m) <= Ceiling(k, n) * cp
  BY NextTurn, TurnsOfRun
<1>5. B(0) = 0
  BY NextTurn
<1>6. SUFFICES ((d \div n) - w) * cp <= t /\ t <= (Ceiling(d, n) + w) * cp
  <2> DEFINE x == ((d \div n) - w) * cp
  <2>1. x \in Int
    <3>1. (d \div n) - w \in Int
      BY <1>1
    <3> QED
      BY <1>2, <3>1, Multiples
  <2> HIDE DEF x
  <2>2. x <= t => t >= x
    BY <2>1
  <2> QED
    BY <1>6, <2>2 DEF x
<1> HIDE DEF n, cp, B
<1>7. d \div n \in Nat /\ Ceiling(d, n) \in Nat
  <2>1. d \div n \in Nat
    BY <1>1, Quotients
  <2> QED
    BY <1>1, <2>1, CeilingIs
<1>8. CASE w = 0
  <2>1. c - d \in Nat /\ (c - d) + d = c
    BY <1>3, <1>8
  <2>2. (d \div n) * cp <= t /\ t <= Ceiling(d, n) * cp
    BY <1>3, <1>4, <1>8, <2>1
  <2>3. (d \div n) - w = d \div n /\ Ceiling(d, n) + w = Ceiling(d, n)
    BY <1>7, <1>8
  <2> QED
    BY <2>2, <2>3
<1>9. CASE w # 0
  <2> DEFINE a == d - c
             p == a \div n
             q == c \div n
             r == d \div n
             e == Ceiling(a, n)
             f == Ceiling(c, n)
             g == Ceiling(d, n)
  <2>1. a \in Nat /\ d = a + c
    BY <1>3, <1>9
  <2>2. /\ p \in Nat /\ q \in Nat /\ r \in Nat /\ r <= p + q + 1
        /\ e \in Nat /\ f \in Nat /\ g \in Nat /\ e + f <= g + 1
    <3>1. p \in Nat /\ q \in Nat
      BY <1>1, <2>1, Quotients
    <3>2. (a + c) \div n <= p + q + 1 /\ e + f <= Ceiling(a + c, n) + 1
          /\ e \in Nat /\ f \in Nat
      <4> HIDE DEF a
      <4> QED
        BY <1>1, <2>1, RoundsOfSums
    <3> QED
      BY <1>7, <2>1, <3>1, <3>2
  <2>3. (p + 1 - w) * cp <= t - B(c) /\ t - B(c) <= (e + w - 1) * cp
    BY <1>3, <1>9
  <2>4. q * cp <= B(c) /\ B(c) <= f * cp /\ B(c) \in Nat
    <3>1. 0 \in Nat /\ 0 + c = c
      OBVIOUS
    <3>2. q * cp <= B(0 + c) - B(0) /\ B(0 + c) - B(0) <= f * cp /\ B(c) \in Nat
      BY <1>4, <3>1
    <3> QED
      BY <1>5, <3>1, <3>2
  <2> HIDE DEF a, p, q, r, e, f, g
  <2>5. (r - w) * cp <= ((p + 1 - w) + q) * cp
    <3>1. r - w \in Int /\ (p + 1 - w) + q \in Int /\ r - w <= (p + 1 - w) + q
      BY <2>2
    <3> QED
      BY <1>2, <3>1, Multiples
  <2>6. ((e + w - 1) + f) * cp <= (g + w) * cp
    <3>1. (e + w - 1) + f \in Int /\ g + w \in Int /\ (e + w - 1) + f <= g + w
      BY <2>2
    <3> QED
      BY <1>2, <3>1, Multiples
  <2>7. /\ ((p + 1 - w) + q) * cp = ((p + 1 - w) * cp) + (q * cp)
        /\ ((e + w - 1) + f) * cp = ((e + w - 1) * cp) + (f * cp)
        /\ (p + 1 - w) * cp \in Int /\ q * cp \in Int /\ (e + w - 1) * cp \in Int /\ f * cp \in Int
        /\ (r - w) * cp \in Int /\ (g + w) * cp \in Int
    <3>1. /\ p + 1 - w \in Int /\ q \in Int /\ e + w - 1 \in Int /\ f \in Int
          /\ r - w \in Int /\ g + w \in Int
      BY <2>2
    <3>2. \A x \in Int : x * cp \in Int
      BY <1>2
    <3>3. \A x, y \in Int : (x + y) * cp = (x * cp) + (y * cp)
      BY <1>2, Multiples
    <3> QED
      BY <3>1, <3>2, <3>3
  <2>8. t - B(c) \in Int
    BY <2>4
  <2>9. (r - w) * cp <= t /\ t <= (g + w) * cp
    <3> DEFINE v == t - B(c)
               pp == (p + 1 - w) * cp
               qq == q * cp
               ee == (e + w - 1) * cp
               ff == f * cp
               rr == (r - w) * cp
               gg == (g + w) * cp
    <3>1. rr <= pp + qq /\ ee + ff <= gg
      BY <2>5, <2>6, <2>7
    <3>2. pp <= v /\ v <= ee /\ qq <= B(c) /\ B(c) <= ff
      BY <2>3, <2>4
    <3>3. /\ pp \in Int /\ qq \in Int /\ ee \in Int /\ ff \in Int /\ rr \in Int /\ gg \in Int
          /\ v \in Int /\ B(c) \in Int /\ t = v + B(c)
      BY <2>4, <2>7, <2>8
    <3> HIDE DEF v, pp, qq, ee, ff, rr, gg
    <3>4. rr <= t /\ t <= gg
      BY <3>1, <3>2, <3>3, BoundsAddUp
    <3> QED
      BY <3>4 DEF rr, gg
  <2> QED
    BY <2>9 DEF r, g
<1> QED
  BY <1>8, <1>9

-----------------------------------------------------------------------------
(* The shares of the hosts.                                                *)

\* The instances of the zone, or the fixed hosts, and whether they keep their order.
Listed == IF conf.dns THEN Resolved[zone] ELSE conf.fixed
Short  == conf.dns => Len(Listed) <= ShuffleAbove

\* As long as the zone is the same, its instances are all that is chosen from.
ListedInv ==
    Counted =>
      /\ refresher = "store" => fetched \in Orders(zone)
      /\ cache # <<>> => Len(cache) = Len(Listed) /\ (Short => cache = Listed)
      /\ \A c \in Clients : pc[c] = "choosing" /\ Short => hosts[c] = Listed

TurnsInv(h) ==
    IF Nop THEN wraps = 0 /\ turns[h] = draws * Among(Listed, h, Len(Listed))
    ELSE Fair(Listed, h, draws, counter, wraps, turns[h])

SharesInv == (Counted /\ Short /\ Listed # <<>>) => \A h \in HostRange : TurnsInv(h)

SharesIInv == BalancerIInv /\ ListedInv /\ SharesInv

\* What a balancer chooses from is a list of hosts.
LEMMA ListedType ==
    ASSUME conf \in Configs, zone \in Zones
    PROVE  Listed \in Seq(HostRange)
<1>1. Resolved[zone] \in Seq(HostRange)
  BY ResolvedType, ZonesAreAnswers
<1>2. conf.fixed \in Seq(HostRange)
  BY BalancerAssumption DEF Config
<1> QED
  BY <1>1, <1>2 DEF Listed

\* What is stored of an answer of the zone.
LEMMA StoredIsListed ==
    ASSUME NEW z \in Zones, NEW o \in Orders(z), NEW list \in Arrangements[o]
    PROVE  /\ Len(list) = Len(Resolved[z])
           /\ Len(Resolved[z]) <= ShuffleAbove => list = Resolved[z]
<1>1. o \in ZoneAnswers /\ Resolved[o] = Resolved[z] /\ Resolved[z] \in Seq(HostRange)
  BY ResolvedType
<1>2. list \in IF Len(Resolved[z]) > ShuffleAbove THEN Orders(Resolved[z]) ELSE {Resolved[z]}
  BY <1>1 DEF Arrangements
<1>3. Len(Resolved[z]) \in Nat /\ ShuffleAbove \in Nat
  BY <1>1, BalancerAssumption
<1>4. CASE Len(Resolved[z]) > ShuffleAbove
  BY <1>1, <1>2, <1>3, <1>4, OrdersKeepHosts
<1>5. CASE ~(Len(Resolved[z]) > ShuffleAbove)
  BY <1>2, <1>3, <1>5
<1> QED
  BY <1>4, <1>5

\* Before the first draw nobody has had a turn.
LEMMA SharesInitially == Init => ListedInv /\ SharesInv
<1> SUFFICES ASSUME Init PROVE ListedInv /\ SharesInv
  OBVIOUS
<1>1. /\ conf \in Configs /\ zone \in Zones /\ draws = 0 /\ wraps = 0
      /\ turns = [h \in HostRange |-> 0] /\ counter \in Starts
      /\ pc = [c \in Clients |-> "idle"] /\ refresher # "store"
  BY DEF Init
<1>2. ListedInv
  <2>1. cache # <<>> => Len(cache) = Len(Listed) /\ (Short => cache = Listed)
    <3>1. CASE conf.dns
      <4>1. cache # <<>> => cache \in Arrangements[zone]
        BY <3>1 DEF Init
      <4>2. zone \in Orders(zone)
        BY <1>1, ZonesAreAnswers
      <4> QED
        BY <1>1, <3>1, <4>1, <4>2, StoredIsListed DEF Listed, Short
    <3>2. CASE ~conf.dns
      BY <3>2 DEF Init, Listed
    <3> QED
      BY <3>1, <3>2
  <2> QED
    BY <1>1, <2>1 DEF ListedInv
<1>3. ASSUME NEW h \in HostRange, Listed # <<>> PROVE TurnsInv(h)
  <2> DEFINE cp == Among(Listed, h, Len(Listed))
  <2>1. Listed \in Seq(HostRange) /\ turns[h] = 0
    BY <1>1, ListedType
  <2>2. counter \in Nat
    BY BalancerInitially DEF BalancerIInv, DrawsInv
  <2>3. TurnsBy(Listed, h, counter) \in Nat
    BY <1>3, <2>1, <2>2, NextTurn
  <2>4. Fair(Listed, h, 0, counter, 0, 0)
    BY <2>2, <2>3 DEF Fair
  <2>5. 0 * cp = 0
    <3>1. cp \in Nat
      <4>1. Len(Listed) \in 0 .. Len(Listed)
        BY <2>1
      <4> QED
        BY <2>1, <4>1, AmongIs
    <3> QED
      BY <3>1
  <2> QED
    BY <1>1, <2>1, <2>4, <2>5 DEF TurnsInv
<1> QED
  BY <1>2, <1>3 DEF SharesInv

\* A draw moves the shares on, a refresh leaves the list as it is, and a
\* change of the zone ends the account.
LEMMA SharesStep ==
    ASSUME BalancerIInv, ListedInv, SharesInv, [Next]_vars
    PROVE  ListedInv' /\ SharesInv'
<1>0. conf \in Configs /\ zone \in Zones /\ Listed \in Seq(HostRange)
  BY ListedType DEF BalancerIInv, SubscriberInv
<1>1. CASE ZoneChanges
  <2>1. ~Counted'
    BY <1>1 DEF ZoneChanges, Counted, BalancerIInv, SubscriberInv
  <2> QED
    BY <2>1 DEF ListedInv, SharesInv
<1>2. CASE Wake \/ LookupAnswers \/ LookupFails
  BY <1>2 DEF Wake, LookupAnswers, LookupFails, clientVars, ListedInv, SharesInv, TurnsInv,
              Counted, Listed, Short, Nop
<1>3. CASE Store
  <2>1. /\ UNCHANGED <<conf, zone, changes, counter, pc, hosts, reply, draws, turns, wraps>>
        /\ conf.dns /\ refresher = "store" /\ refresher' = "sleep"
        /\ cache' \in Arrangements[fetched]
    BY <1>3 DEF Store, clientVars, BalancerIInv, SubscriberInv
  <2>2. /\ Listed' = Listed /\ Short' = Short /\ Counted' = Counted /\ Nop' = Nop
    BY <2>1 DEF Listed, Short, Counted, Nop
  <2>3. Counted => Len(cache') = Len(Listed) /\ (Short => cache' = Listed)
    BY <1>0, <2>1, StoredIsListed DEF ListedInv, Listed, Short
  <2>4. ListedInv'
    BY <2>1, <2>2, <2>3 DEF ListedInv
  <2>5. SharesInv'
    BY <2>1, <2>2 DEF SharesInv, TurnsInv
  <2> QED
    BY <2>4, <2>5
<1>4. ASSUME NEW c \in Clients, TakeHosts(c)
      PROVE  ListedInv' /\ SharesInv'
  <2>1. UNCHANGED <<conf, cache, zone, refresher, fetched, changes, counter, draws, turns, wraps>>
    BY <1>4 DEF TakeHosts, dnsVars
  <2>2. Listed' = Listed /\ Short' = Short /\ Counted' = Counted /\ Nop' = Nop
    BY <2>1 DEF Listed, Short, Counted, Nop
  <2>3. \/ UNCHANGED <<pc, hosts>>
        \/ /\ cache # <<>> /\ pc' = [pc EXCEPT ![c] = "choosing"]
           /\ hosts' = [hosts EXCEPT ![c] = cache]
    BY <1>4 DEF TakeHosts
  <2>4. ASSUME NEW d \in Clients, pc'[d] = "choosing", Short, Counted
        PROVE  hosts'[d] = Listed
    BY <2>3, <2>4 DEF ListedInv, BalancerIInv, ChoosingInv
  <2>5. ListedInv'
    BY <2>1, <2>2, <2>4 DEF ListedInv
  <2>6. SharesInv'
    BY <2>1, <2>2 DEF SharesInv, TurnsInv
  <2> QED
    BY <2>5, <2>6
<1>5. ASSUME NEW c \in Clients, RoundRobin(c)
      PROVE  ListedInv' /\ SharesInv'
  <2>1. /\ pc[c] = "choosing" /\ Chosen(c)
        /\ counter' = (counter + 1) % Modulus
        /\ wraps' = IF counter = Modulus - 1 THEN wraps + 1 ELSE wraps
        /\ Give(c, hosts[c], counter % Len(hosts[c]))
    BY <1>5 DEF RoundRobin
  <2>2. /\ pc' = [pc EXCEPT ![c] = "idle"] /\ hosts' = [hosts EXCEPT ![c] = <<>>]
        /\ UNCHANGED <<conf, cache, zone, refresher, fetched, stored, changes>>
    BY <2>1 DEF Chosen, dnsVars
  <2>3. Listed' = Listed /\ Short' = Short /\ Counted' = Counted /\ Nop' = Nop /\ ~Nop
    BY <2>1, <2>2 DEF Listed, Short, Counted, Nop, BalancerIInv, ChoosingInv
  <2>4. ASSUME NEW d \in Clients, pc'[d] = "choosing", Short, Counted
        PROVE  hosts'[d] = Listed
    BY <2>2, <2>4 DEF ListedInv, BalancerIInv, ChoosingInv
  <2>5. ListedInv'
    BY <2>2, <2>3, <2>4 DEF ListedInv
  <2>6. ASSUME Counted, Short, Listed # <<>>, NEW h \in HostRange
        PROVE  TurnsInv(h)'
    <3> DEFINE offset == counter % Len(Listed)
               one == IF Listed[offset + 1] = h THEN 1 ELSE 0
    <3>1. hosts[c] = Listed
      BY <2>1, <2>6 DEF ListedInv
    <3>2. /\ Modulus \in Nat \ {0} /\ counter \in 0 .. Modulus - 1 /\ counter \in Nat
          /\ wraps \in Nat /\ draws \in Nat /\ turns \in [HostRange -> Nat]
      BY BalancerAssumption DEF BalancerIInv, DrawsInv
    <3>3. Len(Listed) \in Nat \ {0}
      BY <1>0, <2>6
    <3>4. offset \in Nat /\ offset < Len(Listed) /\ Listed[offset + 1] \in HostRange
      <4>1. offset \in 0 .. Len(Listed) - 1
        BY <3>2, <3>3, RemainderIsLess
      <4> HIDE DEF offset
      <4>2. offset \in Nat /\ offset < Len(Listed)
        BY <3>3, <4>1
      <4> QED
        BY <1>0, <4>2, HostOfList
    <3>5. draws' = draws + 1 /\ turns' = [turns EXCEPT ![Listed[offset + 1]] = @ + 1]
      BY <2>1, <2>6, <3>1, <3>4 DEF Give
    <3>6. turns'[h] = turns[h] + one
      BY <3>2, <3>4, <3>5
    <3>7. Fair(Listed, h, draws, counter, wraps, turns[h])
      BY <2>3, <2>6 DEF SharesInv, TurnsInv
    <3>8. Fair(Listed, h, draws + 1, (counter + 1) % Modulus,
               IF counter = Modulus - 1 THEN wraps + 1 ELSE wraps, turns'[h])
      <4>1. turns[h] \in Nat
        BY <3>2
      <4> QED
        BY <1>0, <2>6, <3>2, <3>6, <3>7, <4>1, FairStep
    <3>9. Fair(Listed, h, draws', counter', wraps', turns'[h])
      BY <2>1, <3>5, <3>8
    <3> QED
      BY <2>3, <3>9 DEF TurnsInv
  <2>7. SharesInv'
    BY <2>3, <2>6 DEF SharesInv
  <2> QED
    BY <2>5, <2>7
<1>6. ASSUME NEW c \in Clients, Random(c)
      PROVE  ListedInv' /\ SharesInv'
  <2>1. ~Counted'
    BY <1>6 DEF Random, Chosen, Counted, dnsVars
  <2> QED
    BY <2>1 DEF ListedInv, SharesInv
<1>7. ASSUME NEW c \in Clients, NopHost(c)
      PROVE  ListedInv' /\ SharesInv'
  <2>1. /\ Nop /\ draws < MaxDraws /\ Give(c, conf.fixed, 0)
        /\ UNCHANGED <<conf, cache, zone, refresher, fetched, stored, changes,
                       counter, pc, hosts, seen, wraps>>
    BY <1>7 DEF NopHost, dnsVars
  <2>2. Listed' = Listed /\ Short' = Short /\ Counted' = Counted /\ Nop'
        /\ Listed = conf.fixed /\ Len(Listed) = 1
    BY <2>1 DEF Listed, Short, Counted, Nop
  <2>3. ListedInv'
    BY <2>1, <2>2 DEF ListedInv
  <2>4. ASSUME Counted, Short, Listed # <<>>, NEW h \in HostRange
        PROVE  TurnsInv(h)'
    <3> DEFINE cp == Among(Listed, h, 1)
    <3>1. /\ cp = IF Listed[0 + 1] = h THEN 1 ELSE 0
      <4>1. 0 \in 0 .. Len(Listed) - 1
        BY <2>2
      <4>2. /\ \A k \in 0 .. Len(Listed) - 1 :
                  Among(Listed, h, k + 1) = Among(Listed, h, k) + (IF Listed[k + 1] = h THEN 1 ELSE 0)
            /\ Among(Listed, h, 0) = 0
        BY <1>0, AmongIs
      <4> QED
        BY <4>1, <4>2
    <3>2. Listed[0 + 1] \in HostRange
      BY <1>0, <2>2, HostOfList
    <3>3. draws' = draws + 1 /\ turns' = [turns EXCEPT ![Listed[0 + 1]] = @ + 1]
      BY <2>1, <2>2, <2>4 DEF Give
    <3>4. draws \in Nat /\ turns \in [HostRange -> Nat]
      BY DEF BalancerIInv, DrawsInv
    <3>5. turns'[h] = turns[h] + cp
      BY <3>1, <3>2, <3>3, <3>4
    <3>6. wraps = 0 /\ turns[h] = draws * cp
      BY <2>1, <2>2, <2>4 DEF SharesInv, TurnsInv
    <3>7. cp \in Nat
      BY <3>1
    <3> HIDE DEF cp
    <3>8. turns'[h] = draws' * cp
      BY <3>3, <3>4, <3>5, <3>6, <3>7
    <3> QED
      BY <2>1, <2>2, <3>6, <3>8 DEF TurnsInv, cp
  <2>5. SharesInv'
    BY <2>2, <2>4 DEF SharesInv
  <2> QED
    BY <2>3, <2>5
<1>8. CASE UNCHANGED vars
  BY <1>8 DEF vars, ListedInv, SharesInv, TurnsInv, Counted, Listed, Short, Nop
<1> QED
  BY <1>1, <1>2, <1>3, <1>4, <1>5, <1>6, <1>7, <1>8 DEF Next, ClientStep, Finished

(***************************************************************************)
(* For any number of clients, any lists and however often the counter      *)
(* wraps: a round robin over an unchanged zone gives every host its share, *)
(* although answers arrive rotated in between (loadbalancing.go:60).       *)
(***************************************************************************)
THEOREM BalancerFair == Spec => []SharesAreFair
<1>1. SharesIInv => SharesAreFair
  <2> SUFFICES ASSUME SharesIInv, Counted, cache # <<>>, conf.dns => Len(cache) <= ShuffleAbove,
                      NEW h \in HostRange
               PROVE  /\ turns[h] >= (draws \div Len(cache) - wraps) * Copies(h)
                      /\ turns[h] <= (Ceiling(draws, Len(cache)) + wraps) * Copies(h)
    BY DEF SharesAreFair
  <2>1. cache \in Seq(HostRange) /\ conf \in Configs /\ zone \in Zones
    BY DEF SharesIInv, BalancerIInv, SubscriberInv
  <2>2. Short /\ cache = Listed
    BY DEF SharesIInv, ListedInv, Short
  <2>3. Copies(h) = Among(cache, h, Len(cache))
    <3>1. \A i \in DOMAIN cache : i <= Len(cache)
      BY <2>1
    <3>2. {i \in DOMAIN cache : cache[i] = h /\ i <= Len(cache)} = {i \in DOMAIN cache : cache[i] = h}
      BY <3>1
    <3> QED
      BY <3>2 DEF Copies, Among
  <2>4. draws \in Nat /\ wraps \in Nat /\ counter \in Nat /\ turns[h] \in Nat
    BY DEF SharesIInv, BalancerIInv, DrawsInv
  <2>5. TurnsInv(h)
    BY <2>2 DEF SharesIInv, SharesInv
  <2>6. CASE Nop
    <3> DEFINE cp == Among(cache, h, Len(cache))
    <3>1. Len(cache) = 1 /\ cp \in Nat
      <4>1. Len(cache) = 1
        BY <2>2, <2>6 DEF Listed, Nop
      <4>2. Len(cache) \in 0 .. Len(cache)
        BY <4>1
      <4> QED
        BY <2>1, <4>1, <4>2, AmongIs
    <3>2. wraps = 0 /\ turns[h] = draws * cp
      BY <2>2, <2>5, <2>6 DEF TurnsInv
    <3>3. draws \div 1 = draws /\ Ceiling(draws, 1) = draws
      BY <2>4 DEF Ceiling
    <3>4. draws - 0 = draws /\ draws + 0 = draws
      BY <2>4
    <3>5. draws * cp \in Nat
      BY <2>4, <3>1
    <3> HIDE DEF cp
    <3>6. turns[h] >= draws * cp /\ turns[h] <= draws * cp
      BY <3>2, <3>5
    <3> QED
      BY <2>3, <3>1, <3>2, <3>3, <3>4, <3>6 DEF cp
  <2>7. CASE ~Nop
    BY <2>1, <2>2, <2>3, <2>4, <2>5, <2>7, FairEnough DEF TurnsInv
  <2> QED
    BY <2>6, <2>7
<1>2. Init => SharesIInv
  BY BalancerInitially, SharesInitially DEF SharesIInv
<1>3. BalancerIInv /\ BalancerIInv' /\ SharesIInv /\ [Next]_vars => SharesIInv'
  BY SharesStep DEF SharesIInv
<1> QED
  BY <1>1, <1>2, <1>3, BalancerInvariance, PTL DEF Spec

-----------------------------------------------------------------------------
(* The waits between retries (Backoff).                                    *)

\* PowerOfTwo doubles.
LEMMA PowerDoubles ==
    ASSUME NEW n \in Nat
    PROVE  /\ PowerOfTwo(0) = 1 /\ PowerOfTwo(n) \in Nat
           /\ PowerOfTwo(n + 1) = 2 * PowerOfTwo(n)
<1> DEFINE Is(f, m) == f = [i \in 0 .. m |-> IF i = 0 THEN 1 ELSE 2 * f[i - 1]]
           power(m) == CHOOSE f : Is(f, m)
           Doubles(f, m) == f[0] = 1 /\ \A i \in 1 .. m : f[i] = 2 * f[i - 1]
<1>1. ASSUME NEW m \in Nat PROVE Is(power(m), m)
  <2> DEFINE step == [p \in Nat \X (1 .. m) |-> 2 * p[1]]
  <2>1. step \in [Nat \X (1 .. m) -> Nat] /\ 1 \in Nat
    OBVIOUS
  <2>2. \A x \in Nat, i \in 1 .. m : step[<<x, i>>] = 2 * x
    OBVIOUS
  <2> HIDE DEF step
  <2>3. PICK f : Iterates(f, m, Nat, 1, step)
    BY <2>1, LoopHasResult
  <2>4. /\ f \in [0 .. m -> Nat]
        /\ f[0] = 1 /\ \A i \in 1 .. m : f[i] = step[<<f[i - 1], i>>]
    BY <2>3 DEF Iterates
  <2>5. Is(f, m)
    <3> DEFINE g == [i \in 0 .. m |-> IF i = 0 THEN 1 ELSE 2 * f[i - 1]]
    <3>1. ASSUME NEW i \in 0 .. m PROVE f[i] = g[i]
      <4>1. CASE i = 0
        BY <2>4, <4>1
      <4>2. CASE i # 0
        <5>1. f[i - 1] \in Nat /\ i \in 1 .. m
          BY <2>4, <4>2
        <5> QED
          BY <2>2, <2>4, <4>2, <5>1
      <4> QED
        BY <4>1, <4>2
    <3> QED
      BY <2>4, <3>1
  <2> HIDE DEF Is
  <2> QED
    BY <2>5
<1>2. \A m \in Nat : PowerOfTwo(m) = power(m)[m]
  BY DEF PowerOfTwo
<1> HIDE DEF power
<1>3. ASSUME NEW m \in Nat PROVE Doubles(power(m), m)
  BY <1>1
<1> HIDE DEF Is
<1> DEFINE T == {i \in 0 .. n : power(n)[i] \in Nat /\ power(n + 1)[i] = power(n)[i]}
<1>4. 0 \in T
  BY <1>3
<1>5. ASSUME NEW k \in 0 .. n - 1, k \in T PROVE k + 1 \in T
  <2>1. k + 1 \in 1 .. n /\ k + 1 \in 1 .. n + 1 /\ k + 1 - 1 = k
    OBVIOUS
  <2>2. power(n)[k + 1] = 2 * power(n)[k] /\ power(n + 1)[k + 1] = 2 * power(n + 1)[k]
    <3>1. \A m \in Nat : \A i \in 1 .. m : power(m)[i] = 2 * power(m)[i - 1]
      BY <1>3
    <3>2. n + 1 \in Nat
      OBVIOUS
    <3> QED
      BY <2>1, <3>1, <3>2
  <2> QED
    BY <1>5, <2>1, <2>2
<1>6. n \in T
  <2> HIDE DEF T
  <2> QED
    BY <1>4, <1>5, UpTo
<1>7. PowerOfTwo(0) = 1
  BY <1>2, <1>3
<1>8. power(n + 1)[n + 1] = 2 * power(n + 1)[n]
  <2>1. n + 1 \in Nat /\ n + 1 \in 1 .. n + 1 /\ n + 1 - 1 = n
    OBVIOUS
  <2>2. \A i \in 1 .. n + 1 : power(n + 1)[i] = 2 * power(n + 1)[i - 1]
    BY <1>3, <2>1
  <2> QED
    BY <2>1, <2>2
<1>9. PowerOfTwo(n) = power(n)[n] /\ PowerOfTwo(n + 1) = power(n + 1)[n + 1]
  BY <1>2
<1> QED
  BY <1>6, <1>7, <1>8, <1>9

\* It is larger than its exponent, and grows with it.
LEMMA PowerGrows ==
    ASSUME NEW n \in Nat
    PROVE  /\ PowerOfTwo(n) > n
           /\ \A m \in 0 .. n : PowerOfTwo(m) <= PowerOfTwo(n)
<1> DEFINE P(i) == PowerOfTwo(i)
           T == {k \in 0 .. n : P(k) > k /\ \A m \in 0 .. k : P(m) <= P(k)}
<1>1. \A k \in Nat : P(0) = 1 /\ P(k) \in Nat /\ P(k + 1) = 2 * P(k)
  BY PowerDoubles
<1> HIDE DEF P
<1>2. 0 \in T
  <2>1. P(0) = 1 /\ \A m \in 0 .. 0 : m = 0
    BY <1>1
  <2> QED
    BY <2>1
<1>3. ASSUME NEW k \in 0 .. n - 1, k \in T PROVE k + 1 \in T
  <2>1. k \in Nat /\ k + 1 \in 0 .. n /\ P(k) \in Nat /\ P(k + 1) = 2 * P(k) /\ P(k) > k
    BY <1>1, <1>3
  <2>2. P(k) <= P(k + 1) /\ P(k + 1) > k + 1
    BY <2>1
  <2>3. ASSUME NEW m \in 0 .. k + 1 PROVE P(m) <= P(k + 1)
    <3>1. CASE m = k + 1
      BY <2>1, <3>1
    <3>2. CASE m # k + 1
      <4>1. m \in 0 .. k /\ P(m) \in Nat /\ P(m) <= P(k)
        BY <1>1, <1>3, <3>2
      <4> QED
        BY <2>1, <2>2, <4>1
    <3> QED
      BY <3>1, <3>2
  <2> QED
    BY <2>1, <2>2, <2>3
<1>4. n \in T
  <2> HIDE DEF T
  <2> QED
    BY <1>2, <1>3, UpTo
<1> QED
  BY <1>4 DEF P

\* The longest Duration and a second, by the assumptions on the units.
LEMMA MaxIntType == MaxInt \in Nat /\ Second \in Nat /\ Second >= 30 /\ 8 * Second <= MaxInt
                    /\ Second = MsPerSecond * Millisecond /\ 10 * Millisecond <= Second
<1>1. Second \in Nat /\ Second >= 30 /\ Second = MsPerSecond * Millisecond /\ 10 * Millisecond <= Second
  <2> DEFINE a == MsPerSecond
             b == Millisecond
  <2>1. a \in Nat /\ a >= 10 /\ b \in Nat /\ b >= 3
    BY UnitsAssumption
  <2> HIDE DEF a, b
  <2>2. a * b \in Nat /\ 10 * b <= a * b
    BY <2>1, Multiples
  <2> QED
    BY <2>1, <2>2 DEF Second, a, b
<1>2. Width - 1 \in Nat
  BY WidthAssumption
<1>3. PowerOfTwo(Width - 1) \in Nat /\ PowerOfTwo(Width - 1) > Width - 1
  BY <1>2, PowerDoubles, PowerGrows
<1> QED
  BY <1>1, <1>2, <1>3, UnitsAssumption DEF MaxInt

\* Wrap is two's complement: it changes what does not fit.
LEMMA WrapIs ==
    ASSUME NEW x \in Int
    PROVE  /\ Wrap(x) \in -(MaxInt + 1) .. MaxInt
           /\ x \in -(MaxInt + 1) .. MaxInt => Wrap(x) = x
           /\ x \in MaxInt + 1 .. (3 * MaxInt) + 2 => Wrap(x) = x - (2 * (MaxInt + 1))
<1> DEFINE H == MaxInt + 1
<1>1. H \in Nat \ {0} /\ MaxInt \in Int /\ MaxInt = H - 1
  BY MaxIntType
<1>2. Wrap(x) = ((x + H) % (2 * H)) - H
  <2>1. x + MaxInt + 1 = x + H
    BY <1>1
  <2> QED
    BY <2>1 DEF Wrap
<1> HIDE DEF H
<1>3. 2 * H \in Nat \ {0}
  BY <1>1
<1>4. (x + H) % (2 * H) \in 0 .. (2 * H) - 1
  <2> DEFINE y == x + H
             m == 2 * H
  <2>1. y \in Int /\ m \in Nat \ {0}
    BY <1>1, <1>3
  <2> HIDE DEF y, m
  <2>2. y % m \in 0 .. m - 1
    BY <2>1
  <2> QED
    BY <2>2 DEF y, m
<1>5. ASSUME x \in -H .. H - 1 PROVE (x + H) % (2 * H) = x + H
  <2>1. x + H \in Nat /\ x + H \in 0 .. (2 * H) - 1 /\ 0 \in Nat /\ x + H = (0 * (2 * H)) + (x + H)
    BY <1>1, <1>5
  <2> QED
    BY <1>3, <2>1, QuotientIs
<1>6. ASSUME x \in H .. (3 * H) - 1 PROVE (x + H) % (2 * H) = x - H
  <2>1. /\ x + H \in Nat /\ x - H \in 0 .. (2 * H) - 1 /\ 1 \in Nat
        /\ x + H = (1 * (2 * H)) + (x - H)
    BY <1>1, <1>6
  <2> QED
    BY <1>3, <2>1, QuotientIs
<1> QED
  BY <1>1, <1>2, <1>4, <1>5, <1>6

\* The duration x of the wait w, a jitter of the plain wait e or a millisecond.
Drawn(x, w, e) ==
    /\ w = Wrap(x)
    /\ 3 * x <= 4 * e \/ x = Millisecond
    /\ 3 * x >= (2 * e) - (3 * Millisecond)

\* A jitter that comes near no overflow is drawn from both sides of the plain
\* wait, and is never less than a millisecond.
LEMMA JitterIs ==
    ASSUME NEW n \in Nat, NEW e, e = n * Second, e <= (2 * MaxInt) + (4 * Millisecond)
    PROVE  /\ jitter(n) # {}
           /\ \A w \in jitter(n) : \E x \in Nat \ {0} : Drawn(x, w, e)
<1> DEFINE mm == Millisecond
           M == MaxInt
           ms == n * MsPerSecond
           b == ms \div 3
           range == 2 * (b + 1)
           J(r) == ms + r - (b + 1)
           K(r) == IF J(r) <= 0 THEN 1 ELSE J(r)
<1>1. /\ mm \in Nat /\ mm >= 3 /\ M \in Nat /\ M >= 240 /\ 80 * mm <= M
  BY MaxIntType, UnitsAssumption
<1>2. ms \in Nat /\ e = ms * mm /\ e \in Nat
  <2> DEFINE p == MsPerSecond
  <2>1. p \in Nat /\ e = n * (p * mm)
    BY UnitsAssumption, MaxIntType
  <2> HIDE DEF p, mm
  <2>2. n * (p * mm) = (n * p) * mm /\ n * p \in Nat /\ (n * p) * mm \in Nat
    BY <1>1, <2>1
  <2> QED
    BY <2>1, <2>2 DEF p
<1>3. e <= (2 * M) + (4 * mm)
  OBVIOUS
<1>4. Wrap(n * MsPerSecond) = Wrap(ms)
  OBVIOUS
<1> HIDE DEF ms, mm, M
<1>5. 3 * ms <= e
  <2>1. 3 * ms <= mm * ms /\ mm * ms = ms * mm
    BY <1>1, <1>2, Multiples
  <2> QED
    BY <1>2, <2>1
<1>6. b \in Nat /\ 3 * b <= ms /\ ms < (3 * b) + 3
  BY <1>2
<1> HIDE DEF b
<1>7. ms \in 0 .. M /\ b + 1 \in 0 .. M /\ range \in 1 .. M
  BY <1>1, <1>2, <1>3, <1>5, <1>6
<1>8. Wrap(n * MsPerSecond) = ms /\ Wrap(Quotient(ms, 3) + 1) = b + 1 /\ Wrap(2 * (b + 1)) = range
  <2>1. Wrap(n * MsPerSecond) = ms
    BY <1>1, <1>4, <1>7, WrapIs DEF M
  <2>2. Quotient(ms, 3) = b
    BY <1>2 DEF Quotient, b
  <2>3. Wrap(b + 1) = b + 1
    BY <1>1, <1>7, WrapIs DEF M
  <2>4. Wrap(range) = range
    BY <1>1, <1>7, WrapIs DEF M
  <2> QED
    BY <2>1, <2>2, <2>3, <2>4
<1>9. jitter(n) = {Wrap((IF Wrap(J(r)) <= 0 THEN 1 ELSE Wrap(J(r))) * mm) : r \in Intn(range)}
  BY <1>8 DEF jitter, mm
<1>10. range - 1 \in Intn(range) /\ Intn(range) \subseteq 0 .. range - 1
  BY <1>7 DEF Intn
<1> HIDE DEF range
<1>11. ASSUME NEW r \in 0 .. range - 1
       PROVE  /\ J(r) \in -1 .. M /\ 3 * J(r) <= 4 * ms /\ 3 * J(r) >= (2 * ms) - 3
  BY <1>1, <1>2, <1>3, <1>5, <1>6 DEF range
<1>12. ASSUME NEW r \in 0 .. range - 1
       PROVE  /\ Wrap(J(r)) = J(r)
              /\ K(r) * mm \in Nat \ {0}
              /\ 3 * (K(r) * mm) <= 4 * e \/ K(r) * mm = mm
              /\ 3 * (K(r) * mm) >= (2 * e) - (3 * mm)
  <2>1. J(r) \in -(MaxInt + 1) .. MaxInt /\ J(r) \in Int
    BY <1>1, <1>11 DEF M
  <2>2. Wrap(J(r)) = J(r)
    BY <2>1, WrapIs
  <2>3. /\ K(r) \in Nat \ {0} /\ 3 * K(r) >= (2 * ms) - 3
        /\ 3 * K(r) <= 4 * ms \/ K(r) = 1
    <3> DEFINE j == J(r)
    <3>1. j \in Int /\ 3 * j <= 4 * ms /\ 3 * j >= (2 * ms) - 3
      BY <1>1, <1>11
    <3> HIDE DEF j
    <3>2. K(r) = IF j <= 0 THEN 1 ELSE j
      BY DEF j
    <3> QED
      BY <1>2, <3>1, <3>2
  <2> DEFINE k == K(r)
             x == k * mm
  <2>4. k \in Nat \ {0} /\ 3 * k >= (2 * ms) - 3 /\ (3 * k <= 4 * ms \/ k = 1)
    BY <2>3
  <2> HIDE DEF k
  <2>5. x \in Nat \ {0} /\ (k = 1 => x = mm)
    BY <1>1, <2>4
  <2>6. (3 * k) * mm = 3 * x /\ (4 * ms) * mm = 4 * e
    BY <1>1, <1>2, <2>4
  <2>7. ((2 * ms) - 3) * mm = (2 * e) - (3 * mm)
    <3>1. 2 * ms \in Int /\ -3 \in Int /\ (2 * ms) - 3 = (2 * ms) + (-3)
      BY <1>2
    <3>2. ((2 * ms) + (-3)) * mm = ((2 * ms) * mm) + ((-3) * mm)
      BY <1>1, <3>1, Multiples
    <3>3. (2 * ms) * mm = 2 * e /\ (-3) * mm = -(3 * mm)
      BY <1>1, <1>2
    <3> QED
      BY <1>1, <1>2, <3>1, <3>2, <3>3
  <2>8. 3 * x >= (2 * e) - (3 * mm)
    <3>1. (2 * ms) - 3 \in Int /\ 3 * k \in Int /\ (2 * ms) - 3 <= 3 * k
      BY <1>2, <2>4
    <3>2. ((2 * ms) - 3) * mm <= (3 * k) * mm
      BY <1>1, <3>1, Multiples
    <3> QED
      BY <1>1, <1>2, <2>5, <2>6, <2>7, <3>2
  <2>9. 3 * k <= 4 * ms => 3 * x <= 4 * e
    <3>1. 3 * k \in Int /\ 4 * ms \in Int
      BY <1>2, <2>4
    <3> QED
      BY <1>1, <2>6, <3>1, Multiples
  <2> QED
    BY <2>2, <2>4, <2>5, <2>8, <2>9 DEF k
<1>13. jitter(n) # {}
  BY <1>9, <1>10
<1>14. ASSUME NEW w \in jitter(n) PROVE \E x \in Nat \ {0} : Drawn(x, w, e)
  <2>1. PICK r \in 0 .. range - 1 : w = Wrap((IF Wrap(J(r)) <= 0 THEN 1 ELSE Wrap(J(r))) * mm)
    <3>1. PICK r \in Intn(range) : w = Wrap((IF Wrap(J(r)) <= 0 THEN 1 ELSE Wrap(J(r))) * mm)
      BY <1>9
    <3>2. r \in 0 .. range - 1
      BY <1>10
    <3> QED
      BY <3>1, <3>2
  <2>2. w = Wrap(K(r) * mm)
    BY <1>12, <2>1
  <2>3. Drawn(K(r) * mm, w, e)
    <3> HIDE DEF K
    <3> QED
      BY <1>12, <2>2 DEF Drawn, mm
  <2> HIDE DEF K
  <2> QED
    BY <1>12, <2>3
<1> QED
  BY <1>13, <1>14

\* Off by more than a jitter, as Wrong says of the state.
Amiss(w, e) == w < 0 \/ w * 2 < e - (4 * Millisecond)

\* What is in the range of a jitter is not amiss, and the other way round: an
\* overflow that is not amiss is none.
LEMMA JitterIsSane ==
    ASSUME NEW n \in Nat, NEW e, e = n * Second, NEW w \in jitter(n),
           (4 * e <= 3 * MaxInt) \/ (w \in -(MaxInt + 1) .. MaxInt /\ ~Amiss(w, e))
    PROVE  /\ w \in 1 .. MaxInt
           /\ 3 * w <= (4 * e) + (3 * Millisecond)
           /\ 3 * w >= (2 * e) - (3 * Millisecond)
<1> DEFINE mm == Millisecond
           M == MaxInt
<1>1. /\ mm \in Nat /\ mm >= 3 /\ M \in Nat /\ M >= 240 /\ 80 * mm <= M /\ e \in Nat
  BY MaxIntType, UnitsAssumption
<1>2. e <= (2 * M) + (4 * mm)
  BY <1>1 DEF Amiss
<1>2a. PICK x \in Nat \ {0} : Drawn(x, w, e)
  BY <1>2, JitterIs
<1>3. /\ w = Wrap(x)
      /\ 3 * x <= 4 * e \/ x = mm
      /\ 3 * x >= (2 * e) - (3 * mm)
  BY <1>2a DEF Drawn
<1>4. CASE x <= M
  <2>1. x \in Int /\ x \in -(MaxInt + 1) .. MaxInt
    BY <1>1, <1>4
  <2>2. w = x
    <3>1. Wrap(x) = x
      BY <2>1, WrapIs
    <3> QED
      BY <1>3, <3>1
  <2> HIDE DEF mm, M
  <2>3. /\ w \in 1 .. M /\ 3 * w <= (4 * e) + (3 * mm) /\ 3 * w >= (2 * e) - (3 * mm)
    BY <1>1, <1>3, <1>4, <2>2
  <2> QED
    BY <2>3 DEF mm, M
<1>5. CASE x > M
  <2>0. 3 * x <= 4 * e /\ ~(4 * e <= 3 * M)
    <3> HIDE DEF mm, M
    <3> QED
      BY <1>1, <1>3, <1>5
  <2>1. w >= 0 /\ w * 2 >= e - (4 * mm) /\ w \in Int
    BY <1>1, <2>0 DEF Amiss
  <2>2. x \in MaxInt + 1 .. (3 * MaxInt) + 2 /\ x \in Int
    <3>1. x \in M + 1 .. (3 * M) + 2 /\ x \in Int
      <4> HIDE DEF mm, M
      <4> QED
        BY <1>1, <1>2, <1>5, <2>0
    <3> QED
      BY <3>1
  <2>3. w = x - (2 * (MaxInt + 1))
    <3>1. Wrap(x) = x - (2 * (MaxInt + 1))
      BY <2>2, WrapIs
    <3> QED
      BY <1>3, <3>1
  <2>4. FALSE
    <3>1. w = x - (2 * (M + 1))
      BY <2>3
    <3> HIDE DEF mm, M
    <3> QED
      BY <1>1, <1>2, <2>0, <2>1, <3>1
  <2> QED
    BY <2>4
<1> QED
  BY <1>1, <1>4, <1>5

\* The shift of ExponentialBackoff is a power as long as that fits
\* (backoff.go:43).
LEMMA PowerIs ==
    ASSUME NEW n \in Nat, PowerOfTwo(n) <= MaxInt
    PROVE  Power(n) = PowerOfTwo(n)
<1>1. Width - 1 \in Nat /\ Width \in Nat /\ PowerOfTwo(n) \in Nat /\ PowerOfTwo(Width - 1) \in Nat
  BY WidthAssumption, PowerDoubles
<1>2. n < Width
  <2> SUFFICES ASSUME n >= Width PROVE FALSE
    BY <1>1
  <2>1. Width - 1 \in 0 .. n
    BY <1>1
  <2>2. PowerOfTwo(Width - 1) <= PowerOfTwo(n)
    BY <2>1, PowerGrows
  <2> QED
    BY <1>1, <2>2 DEF MaxInt
<1>3. Wrap(PowerOfTwo(n)) = PowerOfTwo(n)
  <2>1. PowerOfTwo(n) \in Int /\ PowerOfTwo(n) \in -(MaxInt + 1) .. MaxInt
    BY <1>1, MaxIntType
  <2> QED
    BY <2>1, WrapIs
<1> QED
  BY <1>1, <1>2, <1>3 DEF Power, Shift

\* The plain waits, and how they grow.
LEMMA ExactIs ==
    ASSUME NEW s \in Strategies, NEW n \in Nat
    PROVE  /\ Exact(s, n) \in Nat
           /\ Exact(s, 0) <= Second
           /\ Exact(s, n + 1) = CASE s = "default" -> Second
                                 [] s \in {"linear", "linear-jitter"} -> Exact(s, n) + Second
                                 [] OTHER -> 2 * Exact(s, n)
           /\ s = "default" => Exact(s, n) = Second
           /\ s # "default" => n * Second <= Exact(s, n)
<1>1. Second \in Nat
  BY MaxIntType
<1>2. CASE s = "default"
  BY <1>1, <1>2 DEF Exact
<1>3. CASE s \in {"linear", "linear-jitter"}
  <2>1. \A k \in Nat : Exact(s, k) = k * Second
    BY <1>3 DEF Exact
  <2>2. n * Second \in Nat /\ (n + 1) * Second = (n * Second) + (1 * Second) /\ 0 * Second = 0 /\ 1 * Second = Second
    BY <1>1, Multiples
  <2>3. s # "default"
    BY <1>3
  <2> QED
    BY <1>1, <1>3, <2>1, <2>2, <2>3
<1>4. CASE s \in {"exponential", "exponential-jitter"}
  <2> DEFINE p == PowerOfTwo(n)
  <2>1. \A k \in Nat : Exact(s, k) = PowerOfTwo(k) * Second
    BY <1>4 DEF Exact
  <2>2. p \in Nat /\ p > n /\ PowerOfTwo(0) = 1 /\ PowerOfTwo(n + 1) = 2 * p
    BY PowerDoubles, PowerGrows
  <2> HIDE DEF p
  <2>3. p * Second \in Nat /\ (2 * p) * Second = 2 * (p * Second) /\ 1 * Second = Second
    BY <1>1, <2>2
  <2>4. n * Second <= p * Second
    BY <1>1, <2>2, Multiples
  <2>5. Exact(s, n) = p * Second /\ Exact(s, n + 1) = 2 * (p * Second) /\ Exact(s, 0) = Second
    <3>1. Exact(s, n + 1) = (2 * p) * Second
      BY <2>1, <2>2
    <3>2. Exact(s, 0) = 1 * Second
      BY <2>1, <2>2
    <3> QED
      BY <2>1, <2>3, <3>1, <3>2 DEF p
  <2>6. s # "default" /\ s \notin {"linear", "linear-jitter"}
    BY <1>4
  <2> QED
    BY <1>1, <2>3, <2>4, <2>5, <2>6
<1> QED
  BY <1>2, <1>3, <1>4 DEF Strategies

\* The factor of a second that a strategy but the default waits for.
LEMMA FactorIs ==
    ASSUME NEW s \in Strategies, s # "default", NEW n \in Nat,
           Exact(s, n) <= (2 * MaxInt) + (4 * Millisecond)
    PROVE  \E k \in Nat : /\ Exact(s, n) = k * Second
                         /\ TimeToWait(s, n) = IF s \in Jittered THEN jitter(k)
                                               ELSE {Wrap(k * Second)}
<1>1. CASE s \in {"linear", "linear-jitter"}
  BY <1>1 DEF Exact, TimeToWait, Jittered
<1>2. CASE s \in {"exponential", "exponential-jitter"}
  <2> DEFINE k == PowerOfTwo(n)
  <2>1. k \in Nat
    BY PowerDoubles
  <2>2. Exact(s, n) = k * Second
    BY <1>2 DEF Exact
  <2>3. k <= MaxInt
    <3> HIDE DEF k
    <3>1. /\ MaxInt \in Nat /\ Second \in Nat /\ Second >= 30 /\ 8 * Second <= MaxInt
          /\ Millisecond \in Nat /\ 10 * Millisecond <= Second
      BY MaxIntType, UnitsAssumption
    <3>2. 30 * k <= Second * k /\ Second * k = k * Second
      BY <2>1, <3>1, Multiples
    <3> QED
      BY <2>1, <2>2, <3>1, <3>2
  <2>4. Power(n) = k
    BY <2>3, PowerIs
  <2>5. TimeToWait(s, n) = IF s \in Jittered THEN jitter(k) ELSE {Wrap(k * Second)}
    BY <1>2, <2>4 DEF TimeToWait, Jittered
  <2> QED
    BY <2>1, <2>2, <2>5
<1> QED
  BY <1>1, <1>2 DEF Strategies

\* As long as the plain wait and a third fit into a Duration, so does the wait.
LEMMA WaitsFit ==
    ASSUME NEW s \in Strategies, NEW n \in Nat, NEW e, e = Exact(s, n), 4 * e <= 3 * MaxInt
    PROVE  /\ TimeToWait(s, n) # {}
           /\ \A w \in TimeToWait(s, n) :
                 w \in 0 .. MaxInt /\ 3 * w >= (2 * e) - (3 * Millisecond) /\ ~Amiss(w, e)
<1>1. /\ MaxInt \in Nat /\ Second \in Nat /\ 8 * Second <= MaxInt
      /\ Millisecond \in Nat /\ Millisecond >= 3 /\ e \in Nat
  BY MaxIntType, UnitsAssumption, ExactIs
<1>2. ASSUME NEW w, w \in 0 .. MaxInt, 3 * w >= (2 * e) - (3 * Millisecond)
      PROVE  ~Amiss(w, e)
  BY <1>1, <1>2 DEF Amiss
<1>3. CASE s = "default"
  <2>1. TimeToWait(s, n) = {Second} /\ e = Second
    BY <1>3 DEF TimeToWait, Exact
  <2> QED
    BY <1>1, <1>2, <2>1
<1>4. CASE s # "default"
  <2>1. PICK k \in Nat : /\ e = k * Second
                        /\ TimeToWait(s, n) = IF s \in Jittered THEN jitter(k)
                                              ELSE {Wrap(k * Second)}
    <3>1. e <= (2 * MaxInt) + (4 * Millisecond)
      BY <1>1
    <3> QED
      BY <1>4, <3>1, FactorIs
  <2>2. CASE s \in Jittered
    <3>1. TimeToWait(s, n) = jitter(k)
      BY <2>1, <2>2
    <3>2. e <= (2 * MaxInt) + (4 * Millisecond)
      BY <1>1
    <3>3. jitter(k) # {}
      BY <2>1, <3>2, JitterIs
    <3>4. \A w \in jitter(k) : w \in 1 .. MaxInt /\ 3 * w >= (2 * e) - (3 * Millisecond)
      BY <2>1, JitterIsSane
    <3>5. \A w \in jitter(k) : w \in 0 .. MaxInt
      BY <1>1, <3>4
    <3> QED
      BY <1>2, <3>1, <3>3, <3>4, <3>5
  <2>3. CASE s \notin Jittered
    <3>1. TimeToWait(s, n) = {Wrap(e)}
      BY <2>1, <2>3
    <3>2. e \in Int /\ e \in -(MaxInt + 1) .. MaxInt
      BY <1>1
    <3>3. Wrap(e) = e
      BY <3>2, WrapIs
    <3>4. e \in 0 .. MaxInt /\ 3 * e >= (2 * e) - (3 * Millisecond)
      BY <1>1, <3>2
    <3> QED
      BY <1>2, <3>1, <3>3, <3>4
  <2> QED
    BY <2>2, <2>3
<1> QED
  BY <1>3, <1>4

\* A wait is a Duration, whatever overflows.
LEMMA WaitsType ==
    ASSUME NEW s \in Strategies, NEW n \in Nat, NEW w \in TimeToWait(s, n)
    PROVE  w \in -(MaxInt + 1) .. MaxInt
<1>1. /\ MaxInt \in Nat /\ Second \in Nat /\ 8 * Second <= MaxInt
      /\ MsPerSecond \in Nat /\ Millisecond \in Nat
  BY MaxIntType, UnitsAssumption
<1>2. \A x \in Int : Wrap(x) \in -(MaxInt + 1) .. MaxInt /\ Wrap(x) \in Int
  BY <1>1, WrapIs
<1> DEFINE Duration == -(MaxInt + 1) .. MaxInt
<1>3. Shift(n) \in Int
  BY <1>2, PowerDoubles DEF Shift
<1>4. ASSUME NEW k \in Int PROVE jitter(k) \subseteq Duration
  <2> DEFINE ms == Wrap(k * MsPerSecond)
             bound == Wrap(Quotient(ms, 3) + 1)
             range == Wrap(2 * bound)
             Jitter(r) == Wrap(ms + r - bound)
  <2>1. ms \in Int
    BY <1>1, <1>2
  <2>2. Quotient(ms, 3) + 1 \in Int
    <3> HIDE DEF ms
    <3> QED
      BY <2>1 DEF Quotient
  <2>3. bound \in Int
    BY <1>2, <2>2
  <2>4. range \in Int
    <3> HIDE DEF bound
    <3> QED
      BY <1>2, <2>3
  <2>5. jitter(k) = {Wrap((IF Jitter(r) <= 0 THEN 1 ELSE Jitter(r)) * Millisecond) :
                       r \in Intn(range)}
    BY DEF jitter
  <2> HIDE DEF ms, bound, range
  <2>6. ASSUME NEW r \in Intn(range)
        PROVE  Wrap((IF Jitter(r) <= 0 THEN 1 ELSE Jitter(r)) * Millisecond) \in Duration
    <3>1. r \in Int
      BY <2>4 DEF Intn
    <3>2. Jitter(r) \in Int
      BY <1>2, <2>1, <2>3, <3>1
    <3> DEFINE j == IF Jitter(r) <= 0 THEN 1 ELSE Jitter(r)
    <3>3. j \in Int
      BY <3>2
    <3> HIDE DEF j
    <3>4. j * Millisecond \in Int
      BY <1>1, <3>3
    <3>5. Wrap(j * Millisecond) \in Duration
      BY <1>2, <3>4
    <3> QED
      BY <3>5 DEF j
  <2> QED
    BY <2>5, <2>6
<1>5. CASE s = "default"
  BY <1>1, <1>5 DEF TimeToWait
<1>6. CASE s = "linear"
  <2>1. n * Second \in Int
    BY <1>1
  <2> QED
    BY <1>2, <1>6, <2>1 DEF TimeToWait
<1>7. CASE s = "exponential"
  <2>1. Power(n) * Second \in Int
    BY <1>1, <1>3 DEF Power
  <2> QED
    BY <1>2, <1>7, <2>1 DEF TimeToWait
<1>8. CASE s \in Jittered
  <2>1. jitter(n) \subseteq Duration /\ jitter(Power(n)) \subseteq Duration
    BY <1>3, <1>4 DEF Power
  <2> QED
    BY <1>8, <2>1 DEF TimeToWait, Jittered
<1> QED
  BY <1>5, <1>6, <1>7, <1>8 DEF Strategies, Jittered

\* The plain wait and a third fit into a Duration.
Fits == 4 * exact <= 3 * MaxInt

\* What was waited before is two thirds of the plain wait, less what jitter and
\* rounding take: the waits of a strategy add up as they grow.
AddsUp == (3 * waited) + (3 * (retries * Millisecond)) + (2 * Second) >= 2 * exact

\* The wait is one of the strategy, rand.Intn panics on overflow alone, and the
\* waits add up, unless a third of the longest Duration has passed.
BackoffIInv ==
    /\ BackoffTypeOK
    /\ exact = Exact(strategy, retries)
    /\ panicked \/ wait \in TimeToWait(strategy, retries)
    /\ panicked => ~Fits
    /\ 3 * waited >= MaxInt \/ AddsUp

\* A plain wait that comes near an overflow takes a lifetime to come to.
LEMMA LifetimePasses ==
    ASSUME BackoffIInv, ~Fits
    PROVE  3 * waited >= MaxInt
<1> SUFFICES ASSUME AddsUp PROVE 3 * waited >= MaxInt
  BY DEF BackoffIInv
<1> DEFINE a == retries * Millisecond
           S == Second
           M == MaxInt
<1>1. /\ M \in Nat /\ S \in Nat /\ 8 * S <= M /\ 10 * Millisecond <= S
      /\ Millisecond \in Nat /\ MaxLinear \in Nat
  BY MaxIntType, UnitsAssumption, RetriesAssumption
<1>2. /\ retries \in Nat /\ waited \in Nat /\ exact \in Nat /\ strategy \in Strategies
      /\ exact = Exact(strategy, retries)
  BY <1>1 DEF BackoffIInv, BackoffTypeOK
<1>3. ~(4 * exact <= 3 * M) /\ (3 * waited) + (3 * a) + (2 * S) >= 2 * exact
  BY DEF Fits, AddsUp
<1>4. strategy # "default"
  <2> SUFFICES ASSUME strategy = "default" PROVE FALSE
    OBVIOUS
  <2>1. exact = S
    BY <1>2, ExactIs
  <2> HIDE DEF S, M
  <2> QED
    BY <1>1, <1>3, <2>1
<1>5. retries * S <= exact
  BY <1>2, <1>4, ExactIs
<1>6. a \in Nat /\ 10 * a <= exact
  <2> DEFINE T == 10 * Millisecond
  <2>1. T \in Nat /\ T <= S /\ retries * T = 10 * a /\ a \in Nat
    BY <1>1, <1>2
  <2> HIDE DEF T, S
  <2>2. T * retries <= S * retries /\ T * retries = retries * T /\ S * retries = retries * S
    BY <1>1, <1>2, <2>1, Multiples
  <2> HIDE DEF a
  <2> QED
    BY <1>1, <1>2, <1>5, <2>1, <2>2
<1> HIDE DEF a, S, M
<1>7. 3 * waited >= M
  BY <1>1, <1>2, <1>3, <1>6
<1> QED
  BY <1>7 DEF M

\* The first wait, a second or none.
LEMMA BackoffSaneInit == ASSUME BackoffInit PROVE BackoffIInv
<1>1. /\ MaxInt \in Nat /\ Second \in Nat /\ 8 * Second <= MaxInt
      /\ Millisecond \in Nat /\ MaxLinear \in Nat
  BY MaxIntType, UnitsAssumption, RetriesAssumption
<1>2. /\ strategy \in Strategies /\ retries = 0 /\ wait \in TimeToWait(strategy, 0)
      /\ exact = Exact(strategy, 0) /\ waited = 0 /\ panicked = FALSE
  BY DEF BackoffInit
<1>3. exact \in Nat /\ exact <= Second
  BY <1>2, ExactIs
<1>4. wait \in -(MaxInt + 1) .. MaxInt
  BY <1>2, WaitsType
<1>5. BackoffTypeOK
  <2>1. retries \in 0 .. MaxLinear /\ waited \in 0 .. MaxInt
    BY <1>1, <1>2
  <2>2. panicked \in BOOLEAN
    BY <1>2
  <2> QED
    BY <1>2, <1>3, <1>4, <2>1, <2>2 DEF BackoffTypeOK
<1>6. AddsUp
  BY <1>1, <1>2, <1>3 DEF AddsUp
<1> QED
  BY <1>2, <1>5, <1>6 DEF BackoffIInv

\* One more retry: the waits add up, or have come to a lifetime.
LEMMA BackoffSaneStep ==
    ASSUME BackoffIInv, [BackoffNext]_backoffVars
    PROVE  BackoffIInv'
<1>1. CASE UNCHANGED backoffVars
  BY <1>1 DEF BackoffIInv, BackoffTypeOK, AddsUp, Fits, backoffVars
<1>2. CASE BackoffFinished
  BY <1>2 DEF BackoffFinished, BackoffIInv, BackoffTypeOK, AddsUp, Fits, backoffVars
<1>3. CASE Retry
  <2>1. /\ MaxInt \in Nat /\ Second \in Nat /\ 8 * Second <= MaxInt
        /\ Millisecond \in Nat /\ Millisecond >= 3 /\ MaxLinear \in Nat
    BY MaxIntType, UnitsAssumption, RetriesAssumption
  <2>2. /\ BackoffTypeOK /\ retries \in Nat /\ exact \in Nat /\ waited \in 0 .. MaxInt
        /\ wait \in Int /\ strategy \in Strategies /\ exact = Exact(strategy, retries)
    BY <2>1 DEF BackoffIInv, BackoffTypeOK
  <2>3. /\ ~Wrong /\ retries < MaxLinear /\ retries' = retries + 1
        /\ waited' = Sum(waited, wait) /\ exact' = Exact(strategy, retries')
        /\ strategy' = strategy /\ retries' \in Nat
    BY <1>3, <2>2 DEF Retry
  <2>4. ~panicked /\ wait >= 0 /\ ~Amiss(wait, exact) /\ wait \in TimeToWait(strategy, retries)
    <3>1. ~panicked /\ ~(wait < 0) /\ ~Amiss(wait, exact)
      BY <2>3 DEF Wrong, Amiss
    <3>2. wait >= 0
      BY <2>2, <3>1
    <3> QED
      BY <3>1, <3>2 DEF BackoffIInv
  <2>5. waited' = (IF waited + wait > MaxInt THEN MaxInt ELSE waited + wait)
    BY <2>3 DEF Sum
  <2>6. waited' \in 0 .. MaxInt /\ waited' >= waited
    BY <2>1, <2>2, <2>4, <2>5
  <2>7. exact' \in Nat
    BY <2>2, <2>3, ExactIs
  <2>8. /\ panicked' \in BOOLEAN /\ (panicked' => ~Fits')
        /\ panicked' \/ wait' \in TimeToWait(strategy', retries')
    <3>1. CASE TimeToWait(strategy, retries') = {}
      <4>1. panicked' = TRUE
        BY <1>3, <3>1 DEF Retry
      <4>2. ~(4 * exact' <= 3 * MaxInt)
        BY <2>2, <2>3, <3>1, WaitsFit
      <4> QED
        BY <4>1, <4>2 DEF Fits
    <3>2. CASE TimeToWait(strategy, retries') # {}
      <4>1. wait' \in TimeToWait(strategy, retries') /\ panicked' = panicked
        BY <1>3, <3>2 DEF Retry
      <4> QED
        BY <2>2, <2>3, <2>4, <4>1 DEF BackoffTypeOK
    <3> QED
      BY <3>1, <3>2
  <2>9. wait' \in -(MaxInt + 1) .. MaxInt
    <3>1. CASE TimeToWait(strategy, retries') = {}
      <4>1. wait' = wait
        BY <1>3, <3>1 DEF Retry
      <4> QED
        BY <2>2, <4>1 DEF BackoffTypeOK
    <3>2. CASE TimeToWait(strategy, retries') # {}
      <4>1. wait' \in TimeToWait(strategy, retries')
        BY <1>3, <3>2 DEF Retry
      <4> QED
        BY <2>2, <2>3, <4>1, WaitsType
    <3> QED
      BY <3>1, <3>2
  <2>10. retries' \in 0 .. MaxLinear
    BY <2>1, <2>2, <2>3
  <2>11. BackoffTypeOK'
    BY <2>2, <2>3, <2>6, <2>7, <2>8, <2>9, <2>10 DEF BackoffTypeOK
  <2>12. 3 * waited' >= MaxInt \/ AddsUp'
    <3>1. CASE 3 * waited >= MaxInt
      <4>1. 3 * waited' >= MaxInt
        <5> DEFINE u == waited
                   v == waited'
                   M == MaxInt
        <5>1. M \in Nat /\ u \in Nat /\ v \in Nat /\ v >= u /\ 3 * u >= M
          BY <2>1, <2>2, <2>6, <3>1
        <5> HIDE DEF u, v, M
        <5>2. 3 * v >= M
          BY <5>1
        <5> QED
          BY <5>2 DEF v, M
      <4> QED
        BY <4>1
    <3>2. CASE ~Fits
      <4>1. 3 * waited >= MaxInt
        BY <3>2, LifetimePasses
      <4> QED
        BY <3>1, <4>1
    <3>3. CASE waited + wait > MaxInt
      <4>1. waited' = MaxInt
        BY <2>5, <3>3
      <4> QED
        BY <2>1, <4>1
    <3>4. CASE AddsUp /\ Fits /\ ~(waited + wait > MaxInt)
      <4> DEFINE a == retries * Millisecond
                 b == retries' * Millisecond
                 S == Second
                 mm == Millisecond
      <4>1. waited' = waited + wait
        BY <2>5, <3>4
      <4>2. 3 * wait >= (2 * exact) - (3 * mm)
        BY <2>2, <2>4, <3>4, WaitsFit DEF Fits
      <4>3. a \in Nat /\ b = a + mm
        <5>1. (retries + 1) * Millisecond = (retries * Millisecond) + Millisecond
          BY <2>1, <2>2
        <5> QED
          BY <2>1, <2>2, <2>3, <5>1
      <4>4. (3 * waited) + (3 * a) + (2 * S) >= 2 * exact
        BY <3>4 DEF AddsUp
      <4>5. /\ exact' = CASE strategy = "default" -> S
                          [] strategy \in {"linear", "linear-jitter"} -> exact + S
                          [] OTHER -> 2 * exact
            /\ strategy # "default" => retries * S <= exact
            /\ Exact(strategy, 0) <= S
        BY <2>2, <2>3, ExactIs
      <4>6. exact' <= S \/ exact' = 2 * exact \/ (exact' = exact + S /\ (exact >= S \/ exact = 0))
        <5>1. CASE strategy = "default"
          BY <2>1, <4>5, <5>1
        <5>2. CASE strategy \in {"exponential", "exponential-jitter"}
          BY <4>5, <5>2
        <5>3. CASE strategy \in {"linear", "linear-jitter"}
          <6>1. exact = retries * S /\ exact' = exact + S
            BY <2>2, <4>5, <5>3 DEF Exact
          <6>2. retries = 0 => exact = 0
            BY <2>1, <6>1
          <6>3. retries >= 1 => exact >= S
            <7> HIDE DEF S
            <7>1. S \in Nat
              BY <2>1 DEF S
            <7> SUFFICES ASSUME retries >= 1 PROVE exact >= S
              OBVIOUS
            <7>2. 1 * S <= retries * S /\ 1 * S = S
              BY <2>2, <7>1, Multiples
            <7> QED
              BY <6>1, <7>2
          <6> QED
            BY <2>2, <6>1, <6>2, <6>3
        <5> QED
          BY <2>2, <5>1, <5>2, <5>3 DEF Strategies
      <4>7. (3 * waited') + (3 * b) + (2 * S) >= 2 * exact'
        <5>1. S \in Nat /\ mm \in Nat
          BY <2>1
        <5> HIDE DEF a, b, S, mm
        <5>2. /\ (3 * waited') + (3 * b) + (2 * S) >= 4 * exact
              /\ (3 * waited') + (3 * b) + (2 * S) >= 2 * S
              /\ (3 * waited') + (3 * b) + (2 * S) \in Int
          BY <2>2, <2>4, <4>1, <4>2, <4>3, <4>4, <5>1
        <5> DEFINE t == (3 * waited') + (3 * b) + (2 * S)
        <5> HIDE DEF t
        <5>3. t >= 4 * exact /\ t >= 2 * S /\ t \in Int
          BY <5>2 DEF t
        <5>4. t >= 2 * exact'
          <6>1. CASE exact' <= S
            <7> DEFINE y == exact'
            <7>1. y \in Nat /\ y <= S
              BY <2>7, <6>1
            <7> HIDE DEF y
            <7>2. 2 * y <= 2 * S
              BY <5>1, <7>1
            <7>3. t >= 2 * y
              BY <5>1, <5>3, <7>1, <7>2
            <7> QED
              BY <7>3 DEF y
          <6>2. CASE exact' = 2 * exact
            BY <2>2, <5>3, <6>2
          <6>3. CASE exact' = exact + S /\ exact >= S
            BY <2>2, <5>1, <5>3, <6>3
          <6>4. CASE exact' = exact + S /\ exact = 0
            BY <5>1, <5>3, <6>4
          <6> QED
            BY <4>6, <6>1, <6>2, <6>3, <6>4
        <5> QED
          BY <5>4 DEF t
      <4> QED
        BY <4>7 DEF AddsUp
    <3> QED
      BY <3>1, <3>2, <3>3, <3>4 DEF BackoffIInv
  <2> QED
    BY <2>3, <2>8, <2>11, <2>12 DEF BackoffIInv
<1> QED
  BY <1>1, <1>2, <1>3 DEF BackoffNext

\* What is promised of the waits follows from their invariant.
LEMMA BackoffSaneInv == ASSUME BackoffIInv PROVE WaitsAreSane
<1>1. /\ MaxInt \in Nat /\ Second \in Nat /\ Millisecond \in Nat /\ MaxLinear \in Nat
  BY MaxIntType, UnitsAssumption, RetriesAssumption
<1>2. /\ retries \in Nat /\ exact \in Nat /\ wait \in -(MaxInt + 1) .. MaxInt /\ wait \in Int
      /\ strategy \in Strategies /\ exact = Exact(strategy, retries)
  BY <1>1 DEF BackoffIInv, BackoffTypeOK
<1>3. Wrong <=> (panicked \/ Amiss(wait, exact))
  BY DEF Wrong, Amiss
<1>4. OverflowTakesALifetime
  <2> SUFFICES ASSUME Wrong PROVE 3 * waited >= MaxInt
    BY DEF OverflowTakesALifetime
  <2>1. ~Fits
    <3> SUFFICES ASSUME Fits PROVE FALSE
      OBVIOUS
    <3>1. ~panicked /\ wait \in TimeToWait(strategy, retries) /\ 4 * exact <= 3 * MaxInt
      BY DEF BackoffIInv, Fits
    <3>2. ~Amiss(wait, exact)
      BY <1>2, <3>1, WaitsFit
    <3> QED
      BY <1>3, <3>1, <3>2
  <2> QED
    BY <2>1, LifetimePasses
<1>5. JitterIsAThird
  <2> SUFFICES ASSUME strategy \in Jittered, ~Wrong
               PROVE  /\ wait > 0
                      /\ 3 * wait <= 4 * exact + 3 * Millisecond
                      /\ 3 * wait >= 2 * exact - 3 * Millisecond
    BY DEF JitterIsAThird
  <2>1. wait \in TimeToWait(strategy, retries) /\ ~Amiss(wait, exact)
    BY <1>3 DEF BackoffIInv
  <2>2. exact <= (2 * MaxInt) + (4 * Millisecond)
    BY <1>1, <1>2, <2>1 DEF Amiss
  <2>3. strategy # "default"
    BY DEF Jittered
  <2>4. PICK k \in Nat : exact = k * Second /\ TimeToWait(strategy, retries) = jitter(k)
    BY <1>2, <2>2, <2>3, FactorIs
  <2>5. /\ wait \in 1 .. MaxInt
        /\ 3 * wait <= (4 * exact) + (3 * Millisecond)
        /\ 3 * wait >= (2 * exact) - (3 * Millisecond)
    BY <1>2, <2>1, <2>4, JitterIsSane
  <2> QED
    BY <1>1, <2>5
<1> QED
  BY <1>4, <1>5 DEF WaitsAreSane

\* No loop of retries comes to a wait that is negative, cut short or badly
\* jittered, nor to a panic of rand.Intn, before it has waited for a third of
\* the longest Duration (backoff.go:41-79): its waits add up to two thirds of
\* the plain one that comes next.
THEOREM BackoffSane == BackoffSpec => []WaitsAreSane
<1>1. BackoffInit => BackoffIInv
  BY BackoffSaneInit
<1>2. BackoffIInv /\ [BackoffNext]_backoffVars => BackoffIInv'
  BY BackoffSaneStep
<1>3. BackoffIInv => WaitsAreSane
  BY BackoffSaneInv
<1> QED
  BY <1>1, <1>2, <1>3, PTL DEF BackoffSpec

\* The waits between retries keep their types: a wait is a Duration, whatever
\* overflows (backoff.go:41-79).
THEOREM BackoffTypeCorrect == BackoffSpec => []BackoffTypeOK
<1>1. BackoffInit => BackoffIInv
  BY BackoffSaneInit
<1>2. BackoffIInv /\ [BackoffNext]_backoffVars => BackoffIInv'
  BY BackoffSaneStep
<1>3. BackoffIInv => BackoffTypeOK
  BY DEF BackoffIInv
<1> QED
  BY <1>1, <1>2, <1>3, PTL DEF BackoffSpec
=============================================================================
