----------------------------- MODULE ServiceProofs -----------------------------
(***************************************************************************)
(* Proofs about the service: the server (Server), the agents next to it    *)
(* (AsyncAgents) and the handler of an endpoint (Endpoint).                *)
(***************************************************************************)
EXTENDS MCService, TLAPS

-----------------------------------------------------------------------------
(* RunServer.                                                              *)

\* The shared list has grown by one pair a call at most, and holds the
\* configured ones.
KeysInv ==
    /\ Len(keys) <= Len(cfg.keys) + run - (IF serverPc = "check" THEN 1 ELSE 0)
    /\ ToSet(cfg.keys) \subseteq ToSet(keys)
    /\ ToSet(keys) \subseteq Configured

\* A call that was not made, or checks its keys.
NotStarted(n) == n > run \/ (n = run /\ serverPc = "check")

\* Where a call is tells what its goroutine does and what it has returned.
CallInv(n) ==
    /\ NotStarted(n) => /\ serving[n] = "none" /\ ~inShutdown[n]
                        /\ serverResult[n] = "none"
    /\ (n = run /\ serverPc \in {"select", "shutdown"}) =>
          /\ serving[n] \in {"serving", "sending"} /\ serverResult[n] = "none"
          /\ inShutdown[n] <=> serverPc = "shutdown"
    /\ Returned(n) =>
          IF inShutdown[n]
          THEN /\ serving[n] \in {"serving", "sending"}
               /\ \/ serverResult[n] = "nil"
                  \/ serverResult[n] = "deadline" /\ cfg.maxWait > 0
          ELSE \/ serving[n] = "none" /\ serverResult[n] = "keyError"
               \/ serving[n] = "gone" /\ serverResult[n] = listenErr[n]
    /\ listenErr[n] # "none" <=> serving[n] \in {"sending", "gone"}
    /\ inShutdown[n] => ctxDone[n]
    /\ serverResult[n] = "nil" => inShutdown[n] /\ inFlight[n] = 0
    /\ inFlight[n] <= accepted

\* The certificates of a call that serves.
CertsInv(n) ==
    (cfg.tls /\ serving[n] # "none") =>
        ToSet(certs[n]) = Configured /\ \A p \in Configured : Usable(p)

ServerIInv ==
    /\ ServerTypeOK /\ KeysInv
    /\ serverPc = "idle" <=> run = 0
    /\ \A n \in Calls : CallInv(n) /\ CertsInv(n)

\* The fields of a configuration.
LEMMA ConfigTypes ==
    ASSUME ServerTypeOK
    PROVE  /\ cfg.tls \in BOOLEAN /\ cfg.keys \in Seq(PairKind)
           /\ cfg.legacy \in PairKind \cup {NoPair} /\ cfg.maxWait \in {0, 1}
           /\ Len(cfg.keys) \in Nat
BY ServicesAssumption DEF ServerTypeOK

\* The list of a call: at most one pair more, and all the configured ones.
LEMMA LoadedKeysAreConfigured ==
    ASSUME ServerTypeOK, KeysInv
    PROVE  /\ LoadedKeys \in Seq(PairKind)
           /\ Len(LoadedKeys) \in {Len(keys), Len(keys) + 1}
           /\ ToSet(LoadedKeys) = Configured
<1>1. /\ keys \in Seq(PairKind) /\ cfg.keys \in Seq(PairKind)
      /\ cfg.legacy \in PairKind \cup {NoPair}
  BY ConfigTypes DEF ServerTypeOK
<1>2. CASE cfg.legacy = NoPair
  BY <1>1, <1>2 DEF LoadedKeys, KeysInv, Configured
<1>3. CASE cfg.legacy # NoPair
  <2>1. LoadedKeys = Append(keys, cfg.legacy) /\ cfg.legacy \in PairKind
    BY <1>1, <1>3 DEF LoadedKeys
  <2>2. Len(LoadedKeys) = Len(keys) + 1 /\ LoadedKeys \in Seq(PairKind)
    BY <1>1, <2>1
  <2>3. ToSet(LoadedKeys) = ToSet(keys) \cup {cfg.legacy}
    <3>1. DOMAIN LoadedKeys = 1 .. Len(keys) + 1 /\ DOMAIN keys = 1 .. Len(keys)
      BY <1>1, <2>1
    <3>2. /\ \A j \in DOMAIN keys : LoadedKeys[j] = keys[j]
          /\ LoadedKeys[Len(keys) + 1] = cfg.legacy
      BY <1>1, <2>1
    <3>3. \A j \in DOMAIN LoadedKeys : j \in DOMAIN keys \/ j = Len(keys) + 1
      BY <1>1, <3>1
    <3>4. DOMAIN keys \subseteq DOMAIN LoadedKeys /\ Len(keys) + 1 \in DOMAIN LoadedKeys
      BY <1>1, <3>1
    <3> QED
      BY <3>2, <3>3, <3>4 DEF ToSet
  <2>4. Configured = ToSet(cfg.keys) \cup {cfg.legacy}
    BY <1>3 DEF Configured
  <2> QED
    BY <2>2, <2>3, <2>4 DEF KeysInv
<1> QED
  BY <1>2, <1>3

\* A step of the current call leaves the others as they are.
LEMMA CheckStepInv ==
    ASSUME ServerIInv, StartPlain \/ StartTLS \/ RefuseKeys
    PROVE  ServerIInv'
<1> USE DEF ServerIInv
<1>1. /\ serverPc = "check" /\ run \in Calls
      /\ UNCHANGED <<cfg, run, ctxDone, listenErr, inShutdown, inFlight, accepted>>
  BY DEF StartPlain, StartTLS, RefuseKeys, configVars, ServerTypeOK, Calls
<1>2. /\ cfg.tls \in BOOLEAN /\ keys \in Seq(PairKind) /\ Len(keys) \in Nat
      /\ Len(cfg.keys) \in Nat /\ run \in Nat
      /\ LoadedKeys \in Seq(PairKind) /\ Len(LoadedKeys) \in {Len(keys), Len(keys) + 1}
      /\ ToSet(LoadedKeys) = Configured
  BY <1>1, ConfigTypes, LoadedKeysAreConfigured, RunsAssumption DEF ServerTypeOK, Calls
<1>3. keys' \in {keys, LoadedKeys} /\ (cfg.tls => keys' = LoadedKeys)
  BY DEF StartPlain, StartTLS, RefuseKeys, configVars
<1>4. Configured' = Configured
  BY <1>1 DEF Configured
<1>5. \/ serverPc' = "select" /\ serving' = [serving EXCEPT ![run] = "serving"]
         /\ serverResult' = serverResult
      \/ serverPc' = "returned" /\ serverResult' = [serverResult EXCEPT ![run] = "keyError"]
         /\ serving' = serving
  BY DEF StartPlain, StartTLS, RefuseKeys, Go, Return
<1>6. \/ certs' = certs
      \/ certs' = [certs EXCEPT ![run] = LoadedKeys]
  BY DEF StartPlain, StartTLS, RefuseKeys, configVars
<1>7. ServerTypeOK'
  <2>1. Len(keys') \in Len(cfg.keys) .. Len(cfg.keys) + run
    BY <1>1, <1>2, <1>3 DEF KeysInv, ServerTypeOK
  <2>2. certs' \in [Calls -> Seq(PairKind)]
    BY <1>1, <1>2, <1>6 DEF ServerTypeOK
  <2>3. serving' \in [Calls -> {"none", "serving", "sending", "gone"}]
    BY <1>5 DEF ServerTypeOK
  <2>4. serverResult' \in [Calls -> Result]
    BY <1>5 DEF ServerTypeOK, Result
  <2> QED
    BY <1>1, <1>2, <1>3, <1>5, <2>1, <2>2, <2>3, <2>4 DEF ServerTypeOK
<1>8. KeysInv'
  <2>1. Len(keys') <= Len(cfg.keys) + run
    BY <1>1, <1>2, <1>3 DEF KeysInv
  <2>2. ToSet(cfg.keys) \subseteq ToSet(keys') /\ ToSet(keys') \subseteq Configured
    BY <1>2, <1>3 DEF KeysInv, Configured
  <2>3. serverPc' # "check"
    BY <1>5
  <2>4. cfg' = cfg /\ run' = run /\ run \in Nat /\ Len(cfg.keys) \in Nat
    BY <1>1, <1>2
  <2> QED
    BY <1>4, <2>1, <2>2, <2>3, <2>4 DEF KeysInv
<1>9. serverPc' # "idle" /\ run' # 0
  BY <1>1, <1>5 DEF ServerTypeOK
<1>10. ASSUME NEW n \in Calls PROVE CallInv(n)'
  <2>1. CASE n = run
    BY <1>1, <1>5, <2>1 DEF CallInv, NotStarted, Returned, ServerTypeOK
  <2>2. CASE n # run
    <3>1. serving'[n] = serving[n] /\ serverResult'[n] = serverResult[n]
      BY <1>5, <2>2 DEF ServerTypeOK
    <3> QED
      BY <1>1, <2>2, <3>1 DEF CallInv, NotStarted, Returned
  <2> QED
    BY <2>1, <2>2
<1>11. ASSUME NEW n \in Calls PROVE CertsInv(n)'
  <2>1. CASE n = run /\ StartTLS
    <3>1. certs'[n] = LoadedKeys /\ \A i \in DOMAIN LoadedKeys : Usable(LoadedKeys[i])
      BY <2>1 DEF StartTLS, ServerTypeOK
    <3>2. \A p \in Configured : Usable(p)
      BY <1>2, <3>1 DEF ToSet
    <3> QED
      BY <1>2, <1>4, <3>1, <3>2 DEF CertsInv
  <2>2. CASE n = run /\ StartPlain
    BY <1>1, <2>2 DEF StartPlain, CertsInv
  <2>3. CASE n = run /\ RefuseKeys
    BY <1>1, <2>3 DEF RefuseKeys, CertsInv, CallInv, NotStarted
  <2>4. CASE n # run
    <3>1. serving'[n] = serving[n] /\ certs'[n] = certs[n]
      BY <1>5, <1>6, <2>4 DEF ServerTypeOK
    <3> QED
      BY <1>1, <1>4, <3>1 DEF CertsInv
  <2> QED
    BY <2>1, <2>2, <2>3, <2>4
<1> QED
  BY <1>7, <1>8, <1>9, <1>10, <1>11

\* The wait of the current call, and its shutdown.
LEMMA WaitStepInv ==
    ASSUME ServerIInv, TakeDone \/ SeeCtxDone \/ ShutdownEnds \/ ShutdownExpires
    PROVE  ServerIInv'
<1> USE DEF ServerIInv
<1>1. /\ serverPc \in {"select", "shutdown"} /\ run \in Calls
      /\ serverPc' \in {"shutdown", "returned"}
      /\ UNCHANGED <<cfg, keys, certs, run, ctxDone, listenErr, inFlight, accepted>>
  BY DEF TakeDone, SeeCtxDone, ShutdownEnds, ShutdownExpires, Return, configVars,
         ServerTypeOK, Calls
<1>2. \/ /\ serverPc = "select" /\ serving[run] = "sending" /\ serverPc' = "returned"
         /\ serving' = [serving EXCEPT ![run] = "gone"]
         /\ serverResult' = [serverResult EXCEPT ![run] = listenErr[run]]
         /\ inShutdown' = inShutdown
      \/ /\ serverPc = "select" /\ ctxDone[run] /\ serverPc' = "shutdown"
         /\ inShutdown' = [inShutdown EXCEPT ![run] = TRUE]
         /\ UNCHANGED <<serving, serverResult>>
      \/ /\ serverPc = "shutdown" /\ serverPc' = "returned"
         /\ \/ inFlight[run] = 0 /\ serverResult' = [serverResult EXCEPT ![run] = "nil"]
            \/ /\ cfg.maxWait > 0
               /\ serverResult' = [serverResult EXCEPT ![run] = "deadline"]
         /\ UNCHANGED <<serving, inShutdown>>
  BY DEF TakeDone, SeeCtxDone, ShutdownEnds, ShutdownExpires, Return
<1>3. listenErr[run] \in {"none", "closed", "failed"}
  BY <1>1 DEF ServerTypeOK
<1>4. ServerTypeOK'
  BY <1>1, <1>2, <1>3 DEF ServerTypeOK, Result
<1>5. KeysInv' /\ Configured' = Configured
  BY <1>1 DEF KeysInv, Configured
<1>6. serverPc' # "idle" /\ run' # 0
  BY <1>1 DEF ServerTypeOK
<1>7. ASSUME NEW n \in Calls PROVE CallInv(n)' /\ CertsInv(n)'
  <2>1. CASE n = run
    <3>1. CallInv(n)'
      BY <1>1, <1>2, <1>3, <2>1 DEF CallInv, NotStarted, Returned, ServerTypeOK
    <3>2. CertsInv(n)'
      BY <1>1, <1>2, <1>5, <2>1 DEF CertsInv, CallInv, ServerTypeOK
    <3> QED
      BY <3>1, <3>2
  <2>2. CASE n # run
    <3>1. /\ serving'[n] = serving[n] /\ serverResult'[n] = serverResult[n]
          /\ inShutdown'[n] = inShutdown[n]
      BY <1>2, <2>2 DEF ServerTypeOK
    <3> QED
      BY <1>1, <1>5, <2>2, <3>1 DEF CallInv, CertsInv, NotStarted, Returned
  <2> QED
    BY <2>1, <2>2
<1> QED
  BY <1>4, <1>5, <1>6, <1>7

\* What goes on around a call: its goroutine, its clients, its caller.
LEMMA AroundStepInv ==
    ASSUME ServerIInv, NEW n \in Calls,
           \/ ListenFails(n) \/ ListenerCloses(n) \/ Accept(n) \/ HandlerReturns(n)
           \/ CtxDone(n)
    PROVE  ServerIInv'
<1> USE DEF ServerIInv
<1>1. UNCHANGED <<cfg, keys, certs, run, serverPc, inShutdown, serverResult>>
  BY DEF ListenFails, ListenerCloses, Accept, HandlerReturns, CtxDone, configVars
<1>2. KeysInv' /\ Configured' = Configured
  BY <1>1 DEF KeysInv, Configured
<1>3. \/ /\ serving[n] = "serving" /\ serving' = [serving EXCEPT ![n] = "sending"]
         /\ \E e \in {"closed", "failed"} : listenErr' = [listenErr EXCEPT ![n] = e]
         /\ UNCHANGED <<ctxDone, inFlight, accepted>>
      \/ /\ serving[n] = "serving" /\ ~inShutdown[n] /\ accepted < MaxRequests
         /\ accepted' = accepted + 1 /\ inFlight' = [inFlight EXCEPT ![n] = @ + 1]
         /\ UNCHANGED <<serving, listenErr, ctxDone>>
      \/ /\ inFlight[n] > 0 /\ inFlight' = [inFlight EXCEPT ![n] = @ - 1]
         /\ UNCHANGED <<serving, listenErr, ctxDone, accepted>>
      \/ /\ ctxDone' = [ctxDone EXCEPT ![n] = TRUE]
         /\ UNCHANGED <<serving, listenErr, inFlight, accepted>>
  BY DEF ListenFails, ListenerCloses, Accept, HandlerReturns, CtxDone
<1>4. /\ accepted \in Nat /\ \A m \in Calls : inFlight[m] \in Nat /\ inFlight[m] <= accepted
      /\ accepted <= MaxRequests
  BY RunsAssumption DEF ServerTypeOK, CallInv
<1>5. ServerTypeOK'
  <2>1. inFlight' \in [Calls -> 0 .. MaxRequests] /\ accepted' \in 0 .. MaxRequests
    <3>1. CASE accepted' = accepted + 1
      <4>1. /\ accepted < MaxRequests /\ inFlight' = [inFlight EXCEPT ![n] = @ + 1]
        BY <1>3, <1>4, <3>1
      <4>2. inFlight[n] + 1 \in 0 .. MaxRequests /\ accepted + 1 \in 0 .. MaxRequests
        BY <1>4, <4>1, RunsAssumption
      <4> QED
        BY <3>1, <4>1, <4>2 DEF ServerTypeOK
    <3>2. CASE inFlight[n] > 0 /\ inFlight' = [inFlight EXCEPT ![n] = @ - 1]
               /\ accepted' = accepted
      BY <3>2, RunsAssumption DEF ServerTypeOK
    <3>3. CASE UNCHANGED <<inFlight, accepted>>
      BY <3>3 DEF ServerTypeOK
    <3> QED
      BY <1>3, <3>1, <3>2, <3>3
  <2>2. /\ serving' \in [Calls -> {"none", "serving", "sending", "gone"}]
        /\ listenErr' \in [Calls -> {"none", "closed", "failed"}]
        /\ ctxDone' \in [Calls -> BOOLEAN]
    BY <1>3 DEF ServerTypeOK
  <2> QED
    BY <1>1, <2>1, <2>2 DEF ServerTypeOK
<1>6. ASSUME NEW m \in Calls PROVE CallInv(m)' /\ CertsInv(m)'
  <2>1. CASE m = n
    <3>1. CallInv(m)'
      BY <1>1, <1>3, <1>4, <2>1 DEF CallInv, NotStarted, Returned, ServerTypeOK
    <3>2. CertsInv(m)'
      BY <1>1, <1>2, <1>3, <2>1 DEF CertsInv, ServerTypeOK
    <3> QED
      BY <3>1, <3>2
  <2>2. CASE m # n
    <3>1. /\ serving'[m] = serving[m] /\ listenErr'[m] = listenErr[m]
          /\ ctxDone'[m] = ctxDone[m] /\ inFlight'[m] = inFlight[m]
          /\ accepted' \in {accepted, accepted + 1}
      BY <1>3, <2>2 DEF ServerTypeOK
    <3> QED
      BY <1>1, <1>2, <1>4, <3>1 DEF CallInv, CertsInv, NotStarted, Returned
  <2> QED
    BY <2>1, <2>2
<1> QED
  BY <1>1, <1>2, <1>5, <1>6

\* The invariant of the server, for any number of calls and requests.
THEOREM ServerInvariance == ServerInit /\ [][ServerNext]_serverVars => []ServerIInv
<1>1. ServerInit => ServerIInv
  <2> SUFFICES ASSUME ServerInit PROVE ServerIInv
    OBVIOUS
  <2>1. ServerTypeOK
    <3>1. cfg.keys \in Seq(PairKind)
      BY ServicesAssumption DEF ServerInit
    <3> QED
      BY <3>1, RunsAssumption DEF ServerInit, ServerTypeOK, Result
  <2>2. Len(cfg.keys) \in Nat
    BY <2>1, ConfigTypes
  <2>3. KeysInv
    BY <2>2 DEF ServerInit, KeysInv, Configured
  <2>4. \A n \in Calls : CallInv(n) /\ CertsInv(n)
    BY DEF ServerInit, CallInv, CertsInv, NotStarted, Returned, Calls
  <2> QED
    BY <2>1, <2>3, <2>4 DEF ServerIInv, ServerInit
<1>2. ServerIInv /\ [ServerNext]_serverVars => ServerIInv'
  <2> SUFFICES ASSUME ServerIInv, [ServerNext]_serverVars PROVE ServerIInv'
    OBVIOUS
  <2>1. CASE Call
    <3>1. /\ serverPc \in {"idle", "returned"} /\ run' = run + 1 /\ run' \in Calls
          /\ serverPc' = "check" /\ run \in Nat
          /\ UNCHANGED <<cfg, keys, certs, ctxDone, serving, listenErr, inShutdown, inFlight,
                         accepted, serverResult>>
      BY <2>1, RunsAssumption DEF Call, configVars, ServerIInv, ServerTypeOK, Calls
    <3>2. Len(cfg.keys) \in Nat /\ Len(keys) \in Nat
      BY ConfigTypes DEF ServerIInv, ServerTypeOK
    <3>3. ServerTypeOK'
      <4>1. Len(keys) \in Len(cfg.keys) .. Len(cfg.keys) + (run + 1)
        <5>1. Len(keys) \in Len(cfg.keys) .. Len(cfg.keys) + run
          BY DEF ServerIInv, ServerTypeOK
        <5>2. run \in Nat
          BY <3>1
        <5>3. ASSUME NEW a \in Nat, NEW b \in Nat, NEW r \in Nat, b \in a .. a + r
              PROVE  b \in a .. a + (r + 1)
          BY <5>3
        <5> QED
          BY <3>2, <5>1, <5>2, <5>3
      <4>2. run + 1 \in 0 .. Runs
        BY <3>1, RunsAssumption DEF Calls
      <4> QED
        BY <3>1, <4>1, <4>2 DEF ServerIInv, ServerTypeOK
    <3>4. KeysInv'
      BY <3>1, <3>2 DEF ServerIInv, KeysInv, Configured
    <3>5. ASSUME NEW n \in Calls PROVE CallInv(n)' /\ CertsInv(n)'
      <4>1. n \in Int
        BY DEF Calls
      <4>2. Returned(n)' => Returned(n)
        BY <3>1, <4>1 DEF ServerIInv, Returned, Calls
      <4>3. NotStarted(n)' => NotStarted(n)
        BY <3>1, <4>1 DEF NotStarted
      <4>4. CertsInv(n)'
        BY <3>1 DEF ServerIInv, CertsInv, Configured
      <4>5. CallInv(n)'
        BY <3>1, <4>2, <4>3 DEF ServerIInv, CallInv
      <4> QED
        BY <4>4, <4>5
    <3> QED
      BY <3>1, <3>3, <3>4, <3>5 DEF ServerIInv
  <2>2. CASE RunServerStep
    BY <2>2, CheckStepInv, WaitStepInv DEF RunServerStep
  <2>3. CASE \E n \in Calls : \/ ListenFails(n) \/ ListenerCloses(n)
                              \/ Accept(n) \/ HandlerReturns(n) \/ CtxDone(n)
    BY <2>3, AroundStepInv
  <2>4. CASE UNCHANGED serverVars
    BY <2>4 DEF serverVars, configVars, ServerIInv, ServerTypeOK, KeysInv, CallInv,
                CertsInv, NotStarted, Returned, Configured
  <2> QED
    BY <2>1, <2>2, <2>3, <2>4 DEF ServerNext, ServerFinished
<1> QED
  BY <1>1, <1>2, PTL

(***************************************************************************)
(* The variables of the server keep their types: the list of key pairs     *)
(* grows by one with every call at most (server.go:119-126).               *)
(***************************************************************************)
THEOREM ServerTypeCorrect == ServerSpec => []ServerTypeOK
<1>1. ServerIInv => ServerTypeOK
  BY DEF ServerIInv
<1> QED
  BY <1>1, ServerInvariance, PTL DEF ServerSpec

\* What the server promises follows from its invariant.
LEMMA ServerPromise == ServerIInv => ShutdownIsOrderly
<1> SUFFICES ASSUME ServerIInv PROVE ShutdownIsOrderly
  OBVIOUS
<1>1. GracefulShutdown
  BY DEF ServerIInv, CallInv, GracefulShutdown
<1>2. EveryConfiguredPairIsServed
  BY DEF ServerIInv, CertsInv, EveryConfiguredPairIsServed
<1>3. FailureIsReported
  BY DEF ServerIInv, CallInv, FailureIsReported
<1>4. OnlyShutdownsLeaveGoroutines
  BY DEF ServerIInv, CallInv, OnlyShutdownsLeaveGoroutines
<1> QED
  BY <1>1, <1>2, <1>3, <1>4 DEF ShutdownIsOrderly

(***************************************************************************)
(* For any number of calls of RunServer with any key pairs: a shutdown     *)
(* that is waited for cuts no request, every configured pair is served,    *)
(* the failure of a listener is reported, and only shutdowns leave a       *)
(* goroutine behind (server.go:105-160).                                   *)
(***************************************************************************)
THEOREM ServerIsOrderly == ServerSpec => []ShutdownIsOrderly
<1>1. ServerIInv => ShutdownIsOrderly
  BY ServerPromise
<1> QED
  BY <1>1, ServerInvariance, PTL DEF ServerSpec

-----------------------------------------------------------------------------
(* The agents.                                                             *)

\* Start offers one agent after the other, and each to nobody after it is taken.
OfferInv ==
    /\ startPc = "offer" => /\ agent \in Agents /\ offered[agent] < factories
                            /\ maxRetries[agent] > 0
    /\ \A a \in Agents :
          /\ taken[a] \subseteq {offered[a]}
          /\ a > agent \/ (a = agent /\ startPc \in {"next", "offer"}) => taken[a] = {}
          /\ a > agent \/ (a = agent /\ startPc = "next") => offered[a] = 0
          /\ taken[a] = {} => state[a] = "none"

AgentsIInv == AgentsTypeOK /\ OfferInv

\* The numbers the agents count with.
LEMMA AgentNumbers ==
    ASSUME AgentsTypeOK
    PROVE  /\ N \in Nat /\ MaxAttempts \in Nat /\ Unlimited = MaxAttempts + 1
           /\ factories \in Nat /\ agent \in Nat
           /\ \A a \in Agents : /\ a \in Nat /\ a # Nil /\ maxRetries[a] \in Int
                                /\ attempt[a] \in Nat /\ offered[a] \in Nat
<1>1. N \in Nat /\ MaxAttempts \in Nat /\ FactoryCounts \subseteq Nat
  BY NumbersAssumption
<1>2. Unlimited = MaxAttempts + 1 /\ Retries \cup {Unlimited} \subseteq Int
  BY <1>1, RetriesAssumption DEF Unlimited
<1>3. factories \in Nat /\ agent \in Nat
  BY <1>1 DEF AgentsTypeOK
<1>4. ASSUME NEW a \in Agents
      PROVE  /\ a \in Nat /\ a # Nil /\ maxRetries[a] \in Int
             /\ attempt[a] \in Nat /\ offered[a] \in Nat
  <2>1. a \in Nat /\ a # Nil
    BY <1>1 DEF Agents, Nil
  <2>2. maxRetries[a] \in Int
    BY <1>2 DEF AgentsTypeOK
  <2>3. attempt[a] \in 0 .. MaxAttempts + 1 /\ offered[a] \in 0 .. factories
    BY DEF AgentsTypeOK
  <2> QED
    BY <1>1, <1>3, <2>1, <2>2, <2>3
<1> QED
  BY <1>1, <1>2, <1>3, <1>4

\* Start itself: the agents that were taken are not touched.
LEMMA StartInv ==
    ASSUME AgentsIInv, Starter
    PROVE  AgentsIInv'
<1> USE DEF AgentsIInv
<1>1. CASE NoFactories
  <2>1. \A a \in Agents : taken[a] = {}
    BY <1>1, AgentNumbers DEF NoFactories, AgentsTypeOK
  <2>2. /\ startPc = "next" /\ factories = 0 /\ startPc' = "returned"
        /\ startResult' = ErrNoAgents
        /\ UNCHANGED <<factories, agent, offered, taken, broken, maxRetries, state, attempt,
                       live, failure, reports>>
    BY <1>1 DEF NoFactories, Unchanged
  <2> QED
    BY <2>1, <2>2 DEF AgentsTypeOK, OfferInv
<1>2. CASE NextAgent
  <2>1. /\ startPc = "next" /\ factories > 0
        /\ UNCHANGED <<factories, offered, taken, broken, state, attempt, live, failure,
                       startResult, reports>>
        /\ \/ agent > N /\ startPc' = "wait" /\ UNCHANGED <<agent, maxRetries>>
           \/ /\ agent <= N /\ agent' = agent + 1 /\ UNCHANGED <<startPc, maxRetries>>
           \/ /\ agent <= N /\ startPc' = "offer" /\ agent' = agent
              /\ maxRetries' = [maxRetries EXCEPT ![agent] = IF @ <= 0 THEN Unlimited ELSE @]
    BY <1>2, AgentNumbers DEF NextAgent, Unchanged
  <2>2. agent <= N => agent \in Agents
    BY AgentNumbers DEF AgentsTypeOK, Agents
  <2>3. \A a \in Agents : taken[a] # {} => maxRetries'[a] = maxRetries[a]
    BY <2>1 DEF AgentsTypeOK, OfferInv
  <2>4. /\ maxRetries' \in [Agents -> Retries \cup {Unlimited}]
        /\ startPc' = "offer" => maxRetries'[agent] > 0
    BY <2>1, <2>2, AgentNumbers DEF AgentsTypeOK
  <2>5. AgentsTypeOK'
    <3>1. agent' \in 1 .. N + 1
      BY <2>1, AgentNumbers DEF AgentsTypeOK
    <3> QED
      BY <2>1, <2>3, <2>4, <3>1 DEF AgentsTypeOK
  <2>6. OfferInv'
    <3>1. startPc' = "offer" => agent' \in Agents /\ offered'[agent'] < factories'
      BY <2>1, <2>2, AgentNumbers DEF OfferInv
    <3>2. ASSUME NEW a \in Agents, a > agent' \/ (a = agent' /\ startPc' \in {"next", "offer"})
          PROVE  a > agent \/ (a = agent /\ startPc = "next")
      BY <2>1, <3>2, AgentNumbers
    <3> QED
      BY <2>1, <2>4, <3>1, <3>2 DEF OfferInv
  <2> QED
    BY <2>5, <2>6
<1>3. CASE Offer
  <2>1. /\ startPc = "offer" /\ agent \in Agents /\ taken[agent] = {}
        /\ offered[agent] < factories /\ maxRetries[agent] > 0
        /\ offered' = [offered EXCEPT ![agent] = @ + 1]
        /\ offered'[agent] = offered[agent] + 1 /\ offered'[agent] \in 1 .. factories
        /\ UNCHANGED <<factories, broken, maxRetries, attempt, live, failure, startResult,
                       reports>>
        /\ startPc' \in {"next", "offer"}
    BY <1>3, AgentNumbers DEF Offer, Unchanged, OfferInv, AgentsTypeOK
  <2>2. \/ /\ taken' = [taken EXCEPT ![agent] = {offered'[agent]}]
           /\ state' = [state EXCEPT ![agent] = "connecting"]
           /\ startPc' = "next" /\ agent' = agent + 1
        \/ /\ UNCHANGED <<taken, state>>
           /\ \/ startPc' = "next" /\ agent' = agent + 1
              \/ startPc' = "offer" /\ agent' = agent /\ offered'[agent] # factories
    BY <1>3, <2>1 DEF Offer, Take, AgentsTypeOK
  <2>3. AgentsTypeOK'
    <3>1. offered' \in [Agents -> 0 .. factories]
      BY <2>1, AgentNumbers DEF AgentsTypeOK
    <3>2. taken' \in [Agents -> SUBSET (1 .. factories)] /\ state' \in [Agents -> States]
      BY <2>1, <2>2 DEF AgentsTypeOK, States
    <3>3. agent' \in 1 .. N + 1
      BY <2>1, <2>2, AgentNumbers DEF Agents
    <3>4. \A a \in Agents : taken'[a] # {} => maxRetries'[a] > 0
      BY <2>1, <2>2 DEF AgentsTypeOK
    <3> QED
      BY <2>1, <3>1, <3>2, <3>3, <3>4 DEF AgentsTypeOK
  <2>4. OfferInv'
    <3>1. startPc' = "offer" => agent' \in Agents /\ offered'[agent'] < factories
                                  /\ maxRetries'[agent'] > 0
      BY <2>1, <2>2, AgentNumbers
    <3>2. ASSUME NEW a \in Agents
          PROVE  /\ taken'[a] \subseteq {offered'[a]}
                 /\ a > agent' \/ (a = agent' /\ startPc' \in {"next", "offer"})
                       => taken'[a] = {}
                 /\ a > agent' \/ (a = agent' /\ startPc' = "next") => offered'[a] = 0
                 /\ taken'[a] = {} => state'[a] = "none"
      <4>1. CASE a = agent
        BY <2>1, <2>2, <4>1, AgentNumbers DEF AgentsTypeOK, OfferInv
      <4>2. CASE a # agent
        <5>1. taken'[a] = taken[a] /\ state'[a] = state[a] /\ offered'[a] = offered[a]
          BY <2>1, <2>2, <4>2 DEF AgentsTypeOK
        <5>2. a >= agent' => a > agent
          BY <2>2, <4>2, AgentNumbers
        <5> QED
          BY <5>1, <5>2, AgentNumbers, <2>2 DEF OfferInv
      <4> QED
        BY <4>1, <4>2
    <3> QED
      BY <2>1, <3>1, <3>2 DEF OfferInv
  <2> QED
    BY <2>3, <2>4
<1>4. CASE Wait
  <2>1. /\ startPc = "wait" /\ \A a \in Agents : taken[a] # {} => state[a] = "ended"
        /\ startPc' = "returned" /\ startResult' = failure /\ live' = FALSE
        /\ UNCHANGED <<factories, agent, offered, taken, broken, maxRetries, state, attempt,
                       failure, reports>>
    BY <1>4 DEF Wait
  <2> QED
    BY <2>1 DEF AgentsTypeOK, OfferInv
<1> QED
  BY <1>1, <1>2, <1>3, <1>4 DEF Starter

\* An agent: only one that was taken moves.
LEMMA AgentInv ==
    ASSUME AgentsIInv, NEW a \in Agents, Agent(a)
    PROVE  AgentsIInv'
<1> USE DEF AgentsIInv
<1>1. /\ state[a] # "none" /\ taken[a] # {}
      /\ UNCHANGED <<factories, startPc, agent, offered, taken, broken, maxRetries, startResult>>
  BY DEF Agent, Connect, Retry, Report, Consume, Stop, Start, OfferInv
<1>2. \E s \in States \ {"none"} : state' = [state EXCEPT ![a] = s]
  BY DEF Agent, Connect, Retry, Report, Consume, Stop, States
<1>3. /\ reports' \subseteq Agents /\ live' \in BOOLEAN
      /\ failure' \in {failure, a}
      /\ \/ attempt' = attempt
         \/ attempt' = [attempt EXCEPT ![a] = 0]
         \/ attempt[a] <= MaxAttempts /\ attempt' = [attempt EXCEPT ![a] = @ + 1]
  <2>1. CASE Connect(a) \/ Report(a) \/ Stop(a)
    BY <2>1 DEF Connect, Report, Stop, AgentsTypeOK
  <2>2. CASE Consume(a)
    <3>1. attempt' = attempt \/ attempt' = [attempt EXCEPT ![a] = 0]
      BY <2>2 DEF Consume, AgentsTypeOK
    <3> QED
      BY <2>2, <3>1 DEF Consume, AgentsTypeOK
  <2>3. CASE Retry(a)
    BY <2>3 DEF Retry, AgentsTypeOK
  <2> QED
    BY <2>1, <2>2, <2>3 DEF Agent
<1>4. attempt' \in [Agents -> 0 .. MaxAttempts + 1]
  BY <1>3, AgentNumbers DEF AgentsTypeOK
<1>5. AgentsTypeOK'
  BY <1>1, <1>2, <1>3, <1>4 DEF AgentsTypeOK
<1>6. OfferInv'
  <2>1. \A b \in Agents : b # a => state'[b] = state[b]
    BY <1>2 DEF AgentsTypeOK
  <2> QED
    BY <1>1, <2>1 DEF OfferInv
<1> QED
  BY <1>5, <1>6

\* The invariant of the agents, for any number of agents and factories.
THEOREM AgentsInvariance == AgentsInit /\ [][AgentsNext]_agentsVars => []AgentsIInv
<1>1. AgentsInit => AgentsIInv
  <2> SUFFICES ASSUME AgentsInit PROVE AgentsIInv
    OBVIOUS
  <2>1. AgentsTypeOK
    BY NumbersAssumption DEF AgentsInit, AgentsTypeOK, States
  <2>2. OfferInv
    BY DEF AgentsInit, OfferInv
  <2> QED
    BY <2>1, <2>2 DEF AgentsIInv
<1>2. AgentsIInv /\ [AgentsNext]_agentsVars => AgentsIInv'
  <2> SUFFICES ASSUME AgentsIInv, [AgentsNext]_agentsVars PROVE AgentsIInv'
    OBVIOUS
  <2>1. CASE Cancel
    BY <2>1 DEF Cancel, Start, AgentsIInv, AgentsTypeOK, OfferInv
  <2>2. CASE UNCHANGED agentsVars
    BY <2>2 DEF agentsVars, AgentsIInv, AgentsTypeOK, OfferInv
  <2> QED
    BY <2>1, <2>2, StartInv, AgentInv DEF AgentsNext, AgentsFinished
<1> QED
  BY <1>1, <1>2, PTL

(***************************************************************************)
(* The variables of the agents keep their types: an agent that was taken   *)
(* has a positive limit on its retries (asyncagent.go:84-94).              *)
(***************************************************************************)
THEOREM AgentsTypeCorrect == AgentsSpec => []AgentsTypeOK
<1>1. AgentsIInv => AgentsTypeOK
  BY DEF AgentsIInv
<1> QED
  BY <1>1, AgentsInvariance, PTL DEF AgentsSpec

-----------------------------------------------------------------------------
(* The handler of an endpoint.                                             *)

\* What is complete on its way up was complete below; there is no response
\* that is complete and missing, nor headers without a response.
CompletenessInv ==
    /\ response.complete => full
    /\ response.nil => response = NilResponse
    /\ handlerPc \in {"flatmap", "modifiers"} => (full <=> response.complete)
    /\ handlerPc = "flatmap" => setup.multi /\ setup.flatmap
    /\ handlerPc \in {"request", "requestModifiers", "pipe"} =>
          response = NilResponse /\ err = "none" /\ ~full

\* The client has nothing before the handler has the reply.
UntouchedInv ==
    handlerPc \notin {"render", "answered"} =>
        /\ w.status = 0 /\ w.completed = "unset" /\ ~w.cached
        /\ w.headers = 0 /\ w.body = {}
        /\ handlerPc = "request" => ctx = "none"

\* What the headers say when the renderer starts.
RenderInv ==
    handlerPc = "render" =>
        /\ w.status = 0 /\ w.body = {}
        /\ w.completed = "true" => response.complete
        /\ w.cached => response.complete /\ HasData
        /\ w.headers = IF HasData THEN response.headers ELSE 0
        /\ err # "none" => IF setup.router = "mux" THEN HasData ELSE ~response.nil

EndpointIInv == /\ EndpointTypeOK /\ AnswerIsTrue
                /\ CompletenessInv /\ UntouchedInv /\ RenderInv

\* The fields of a response and of the client's answer.
LEMMA ResponseFields ==
    ASSUME EndpointTypeOK
    PROVE  /\ response.nil \in BOOLEAN /\ response.data \subseteq Items
           /\ response.complete \in BOOLEAN /\ response.headers \in {0, 1}
           /\ response.status \in {0, 200, 500} /\ response.io \in BOOLEAN
           /\ w.cached \in BOOLEAN /\ w.headers \in 0 .. 2
           /\ response # NilResponse => response \in Responses /\ ~response.nil
<1>1. w.cached \in BOOLEAN /\ w.headers \in 0 .. 2
  BY DEF EndpointTypeOK, ClientAnswers
<1>2. CASE response = NilResponse
  BY <1>1, <1>2 DEF NilResponse
<1>3. CASE response \in Responses
  BY <1>1, <1>3 DEF Responses
<1> QED
  BY <1>2, <1>3 DEF EndpointTypeOK

\* A response that is given other data is still one.
LEMMA WithData ==
    ASSUME EndpointTypeOK, NEW d \in SUBSET Items
    PROVE  /\ [response EXCEPT !.nil = FALSE, !.data = d] \in Responses
           /\ [response EXCEPT !.nil = FALSE, !.data = d].complete = response.complete
           /\ ~[response EXCEPT !.nil = FALSE, !.data = d].nil
<1> DEFINE x == [response EXCEPT !.nil = FALSE, !.data = d]
       All == [nil : BOOLEAN, data : SUBSET Items, complete : BOOLEAN, headers : {0, 1},
               status : {0, 200, 500}, io : BOOLEAN]
<1>1. response \in All
  <2>1. NilResponse \in All
    BY DEF NilResponse
  <2>2. Responses \subseteq All
    BY DEF Responses
  <2> QED
    BY <2>1, <2>2 DEF EndpointTypeOK
<1>2. x \in Responses
  BY <1>1 DEF Responses
<1>3. x.complete = response.complete /\ ~x.nil
  BY <1>1
<1> QED
  BY <1>2, <1>3

\* Before the handler has the reply there is nothing to be true or false.
LEMMA NotAnswered ==
    ASSUME handlerPc' \notin {"answered", "panicked"}
    PROVE  AnswerIsTrue'
BY DEF AnswerIsTrue, CompleteIsTrue, CachedIsWhole, FailureIsNotASuccess, HeadersOnce,
       NothingOutlivesTheAnswer, PanicsOnlyWithoutReply, Answered

\* The chain of proxies, down to the backends and up again.
LEMMA ChainInv ==
    ASSUME EndpointIInv,
           \/ Handle \/ ModifyRequest \/ PipeReply \/ AddStatic \/ CheckDeadline
    PROVE  EndpointIInv'
<1> USE DEF EndpointIInv
<1>1. /\ handlerPc' \in {"requestModifiers", "static", "pipe", "flatmap", "modifiers",
                         "deadline", "headers"}
      /\ handlerPc \notin {"render", "answered", "panicked"}
      /\ UNCHANGED <<setup, w>>
  BY DEF Handle, ModifyRequest, PipeReply, AddStatic, CheckDeadline
<1>2. AnswerIsTrue' /\ UntouchedInv' /\ RenderInv'
  BY <1>1, NotAnswered DEF UntouchedInv, RenderInv
<1>3. CASE Handle
  BY <1>1, <1>2, <1>3 DEF Handle, EndpointTypeOK, CompletenessInv
<1>4. CASE ModifyRequest
  BY <1>1, <1>2, <1>4 DEF ModifyRequest, EndpointTypeOK, CompletenessInv, Errors
<1>5. CASE PipeReply
  <2>1. handlerPc = "pipe" /\ response = NilResponse /\ err = "none" /\ full = FALSE
    BY <1>5 DEF PipeReply, CompletenessInv, EndpointTypeOK
  <2>2. Answers \subseteq Responses
    BY DEF Answers
  <2>3. ~NilResponse.complete
    BY DEF NilResponse
  <2>4. \/ response' \in Responses /\ full' = response'.complete /\ err' \in Errors
        \/ response' = NilResponse /\ full' = FALSE /\ err' \in Errors
    BY <1>5, <2>1, <2>2 DEF PipeReply, Errors, Responses
  <2>5. EndpointTypeOK'
    <3>1. full' \in BOOLEAN
      BY <2>4 DEF Responses
    <3> QED
      BY <1>1, <1>5, <2>4, <3>1 DEF EndpointTypeOK, PipeReply
  <2>6. CompletenessInv'
    <3>1. response' \in Responses => ~response'.nil
      BY DEF Responses
    <3>2. /\ handlerPc' \in {"flatmap", "modifiers"}
          /\ handlerPc' = "flatmap" => setup.multi /\ setup.flatmap
      BY <1>5 DEF PipeReply
    <3> QED
      BY <1>1, <2>3, <2>4, <3>1, <3>2 DEF CompletenessInv
  <2> QED
    BY <1>2, <2>5, <2>6
<1>6. CASE AddStatic
  <2>1. handlerPc' = "deadline" /\ UNCHANGED <<setup, err, full, ctx, w>>
    BY <1>6 DEF AddStatic
  <2>2. CASE response' = response
    BY <1>1, <1>2, <2>1, <2>2 DEF EndpointTypeOK, CompletenessInv
  <2>3. CASE response' = [response EXCEPT !.nil = FALSE, !.data = @ \cup {"static"}]
    <3>1. /\ response' \in Responses /\ ~response'.nil
          /\ response'.complete = response.complete
      <4>1. response.data \cup {"static"} \in SUBSET Items
        BY ResponseFields DEF Items
      <4> QED
        BY <2>3, <4>1, WithData
    <3> QED
      BY <1>1, <1>2, <2>1, <3>1 DEF EndpointTypeOK, CompletenessInv
  <2> QED
    BY <1>6, <2>2, <2>3 DEF AddStatic
<1>7. CASE CheckDeadline
  BY <1>1, <1>2, <1>7 DEF CheckDeadline, EndpointTypeOK, CompletenessInv, Errors
<1> QED
  BY <1>3, <1>4, <1>5, <1>6, <1>7

\* What runs on the data of a response, and panics without one.
LEMMA ModifyInv ==
    ASSUME EndpointIInv, Flatmap \/ ModifyResponse
    PROVE  EndpointIInv'
<1> USE DEF EndpointIInv
<1>1. /\ handlerPc \in {"flatmap", "modifiers"} /\ UNCHANGED <<setup, ctx, w>>
      /\ handlerPc' \in {"panicked", "modifiers", "static"}
  BY DEF Flatmap, ModifyResponse
<1>2. UntouchedInv' /\ RenderInv'
  BY <1>1 DEF UntouchedInv, RenderInv
<1>3. ~NilResponse.complete
  BY DEF NilResponse
<1>4. CASE handlerPc' = "panicked"
  <2>1. /\ UNCHANGED <<response, err, full>> /\ response.nil /\ err = "none"
        /\ setup.modifiers # <<>> \/ handlerPc = "flatmap"
    BY <1>4 DEF Flatmap, ModifyResponse, Modifies
  <2>2. ~full
    BY <1>1, <1>3, <2>1 DEF CompletenessInv
  <2>3. PanicsOnlyWithoutReply'
    BY <1>1, <2>1, <2>2 DEF PanicsOnlyWithoutReply, CompletenessInv
  <2> QED
    BY <1>1, <1>2, <1>4, <2>1, <2>3
       DEF EndpointTypeOK, CompletenessInv, AnswerIsTrue, CompleteIsTrue, CachedIsWhole,
           FailureIsNotASuccess, HeadersOnce, NothingOutlivesTheAnswer, Answered
<1>5. CASE handlerPc' # "panicked"
  <2>1. AnswerIsTrue'
    BY <1>1, <1>5, NotAnswered
  <2>2. CASE UNCHANGED <<response, err, full>>
    BY <1>1, <1>2, <2>1, <2>2 DEF EndpointTypeOK, CompletenessInv
  <2>3. CASE /\ handlerPc' = "static" /\ full' = full
             /\ response' = NilResponse /\ err' = "plain"
    BY <1>1, <1>2, <1>3, <2>1, <2>3 DEF EndpointTypeOK, CompletenessInv, Errors
  <2>4. CASE /\ handlerPc' = "static" /\ err' = err
             /\ response' \in Modified /\ full' = response'.complete
    <3>1. response' \in Responses /\ ~response'.nil /\ full' \in BOOLEAN
      BY <2>4 DEF Modified, Responses
    <3> QED
      BY <1>1, <1>2, <2>1, <2>4, <3>1 DEF EndpointTypeOK, CompletenessInv
  <2> QED
    BY <1>5, <2>2, <2>3, <2>4 DEF Flatmap, ModifyResponse
<1> QED
  BY <1>4, <1>5

\* The headers say what the response says, if it has data.
LEMMA HeadersOfTheResponse ==
    ASSUME EndpointTypeOK, UntouchedInv, handlerPc = "headers"
    PROVE  /\ HandlerHeaders.status = 0 /\ HandlerHeaders.body = {}
           /\ HandlerHeaders.completed \in {"true", "false"}
           /\ HandlerHeaders.completed = "true" => HasData /\ response.complete
           /\ HandlerHeaders.cached = (HasData /\ response.complete)
           /\ HandlerHeaders.headers = IF HasData THEN response.headers ELSE 0
           /\ HandlerHeaders \in ClientAnswers
<1>1. /\ w.status = 0 /\ w.completed = "unset" /\ ~w.cached /\ w.headers = 0 /\ w.body = {}
      /\ response.headers \in {0, 1} /\ response.complete \in BOOLEAN
  BY ResponseFields DEF UntouchedInv
<1>2. w \in ClientAnswers
  BY DEF EndpointTypeOK
<1>3. CASE HasData
  <2>1. PICK k \in BOOLEAN : k = response.complete
    BY <1>1
  <2>2. PICK h \in 0 .. 2 : h = response.headers
    BY <1>1
  <2>3. PICK c \in {"true", "false"} : c = IF response.complete THEN "true" ELSE "false"
    OBVIOUS
  <2>4. HandlerHeaders = [w EXCEPT !.completed = c, !.cached = k, !.headers = h]
    <3>1. w.headers + response.headers = h
      BY <1>1, <2>2
    <3> QED
      BY <1>3, <2>1, <2>3, <3>1 DEF HandlerHeaders
  <2>5. /\ HandlerHeaders \in ClientAnswers
        /\ HandlerHeaders.status = w.status /\ HandlerHeaders.body = w.body
        /\ HandlerHeaders.completed = c /\ HandlerHeaders.cached = k
        /\ HandlerHeaders.headers = h
    <3> DEFINE u == [w EXCEPT !.completed = c]
               v == [u EXCEPT !.cached = k]
    <3>1. u \in ClientAnswers
      BY <1>2 DEF ClientAnswers
    <3> HIDE DEF u
    <3>2. v \in ClientAnswers
      BY <3>1 DEF ClientAnswers
    <3> HIDE DEF v
    <3>3. [v EXCEPT !.headers = h] \in ClientAnswers
      BY <3>2 DEF ClientAnswers
    <3>4. HandlerHeaders = [v EXCEPT !.headers = h]
      BY <1>2, <2>4 DEF u, v
    <3>5. /\ HandlerHeaders.status = w.status /\ HandlerHeaders.body = w.body
          /\ HandlerHeaders.completed = c /\ HandlerHeaders.cached = k
          /\ HandlerHeaders.headers = h
      BY <1>2, <2>4 DEF ClientAnswers
    <3> QED
      BY <3>3, <3>4, <3>5
  <2> QED
    BY <1>1, <1>3, <2>1, <2>2, <2>3, <2>5
<1>4. CASE ~HasData
  BY <1>1, <1>2, <1>4 DEF HandlerHeaders, ClientAnswers
<1> QED
  BY <1>3, <1>4

\* An answer with a status and a body.
Answering(x, s, b) == [x EXCEPT !.status = s, !.body = b]

\* An answer gets a status and a body, and keeps its headers.
LEMMA AnswerWith ==
    ASSUME NEW x \in ClientAnswers,
           NEW s \in {200, 204, 404, 405, 500}, NEW b \in SUBSET BodyParts
    PROVE  /\ Answering(x, s, b) \in ClientAnswers
           /\ Answering(x, s, b).status = s /\ Answering(x, s, b).body = b
           /\ Answering(x, s, b).completed = x.completed
           /\ Answering(x, s, b).cached = x.cached
           /\ Answering(x, s, b).headers = x.headers
<1> DEFINE u == [x EXCEPT !.status = s]
<1>1. u \in ClientAnswers
  BY DEF ClientAnswers
<1> HIDE DEF u
<1>2. [u EXCEPT !.body = b] \in ClientAnswers
  BY <1>1 DEF ClientAnswers
<1>3. Answering(x, s, b) = [u EXCEPT !.body = b]
  BY DEF u, Answering
<1>4. /\ Answering(x, s, b).status = s /\ Answering(x, s, b).body = b
      /\ Answering(x, s, b).completed = x.completed
      /\ Answering(x, s, b).cached = x.cached
      /\ Answering(x, s, b).headers = x.headers
  BY DEF ClientAnswers, Answering
<1> QED
  BY <1>2, <1>3, <1>4

\* An answer that is sent: what has to hold of it.
LEMMA AnswerSent ==
    ASSUME EndpointIInv, UNCHANGED <<setup, response, err, full>>,
           handlerPc' = "answered", ctx' \in {"none", "done"}, w' \in ClientAnswers,
           w'.completed = "true" => full,
           w'.cached => /\ full /\ HasData
                        /\ w'.status # 200 =>
                              \/ getRender = "no-op" /\ w'.status = response.status
                              \/ setup.router = "mux" /\ "opaque" \in response.data
                        /\ "error" \in w'.body => w'.status # 200,
           w'.headers <= 1 \/ (getRender = "no-op" /\ HasData),
           (err # "none" /\ (response.nil \/ (setup.router = "mux" /\ ~HasData)))
               => w'.status >= 400 \/ (err = "204" /\ w'.status = 204)
    PROVE  EndpointIInv'
<1> USE DEF EndpointIInv
<1>1. EndpointTypeOK'
  BY DEF EndpointTypeOK
<1>2. HasData' = HasData /\ getRender' = getRender
  BY DEF HasData, getRender, getWithFallback
<1>3. AnswerIsTrue'
  <2>1. CompleteIsTrue'
    BY DEF CompleteIsTrue
  <2>2. CachedIsWhole'
    BY <1>2 DEF CachedIsWhole
  <2>3. FailureIsNotASuccess'
    BY <1>2 DEF FailureIsNotASuccess
  <2>4. HeadersOnce'
    BY <1>2 DEF HeadersOnce
  <2>5. NothingOutlivesTheAnswer' /\ PanicsOnlyWithoutReply'
    BY DEF NothingOutlivesTheAnswer, PanicsOnlyWithoutReply
  <2> QED
    BY <2>1, <2>2, <2>3, <2>4, <2>5 DEF AnswerIsTrue
<1>4. CompletenessInv' /\ UntouchedInv' /\ RenderInv'
  BY DEF CompletenessInv, UntouchedInv, RenderInv
<1> QED
  BY <1>1, <1>3, <1>4

\* The answers that show no data.
LEMMA RefusedInv ==
    ASSUME EndpointIInv, WrongMethod \/ FailMux \/ FailGin
    PROVE  EndpointIInv'
<1> USE DEF EndpointIInv
<1>1. CASE WrongMethod
  <2>1. /\ handlerPc = "request" /\ handlerPc' = "answered"
        /\ UNCHANGED <<setup, response, err, full, ctx>>
        /\ w' = [w EXCEPT !.status = 405, !.completed = "false", !.body = {"error"}]
    BY <1>1 DEF WrongMethod
  <2>2. ~w.cached /\ w.headers = 0 /\ ctx = "none" /\ w \in ClientAnswers
    BY <2>1 DEF UntouchedInv, EndpointTypeOK
  <2>3. w' \in ClientAnswers
    <3> DEFINE u == [w EXCEPT !.status = 405]
               v == [u EXCEPT !.completed = "false"]
    <3>1. u \in ClientAnswers
      BY <2>2 DEF ClientAnswers
    <3> HIDE DEF u
    <3>2. v \in ClientAnswers
      BY <3>1 DEF ClientAnswers
    <3> HIDE DEF v
    <3>3. {"error"} \in SUBSET BodyParts
      BY DEF BodyParts
    <3>4. [v EXCEPT !.body = {"error"}] \in ClientAnswers
      BY <3>2, <3>3 DEF ClientAnswers
    <3>5. w' = [v EXCEPT !.body = {"error"}]
      BY <2>1 DEF u, v
    <3> QED
      BY <3>4, <3>5
  <2>4. w'.completed = "false" /\ ~w'.cached /\ w'.headers = 0
    BY <2>1, <2>2 DEF ClientAnswers
  <2>5. err = "none"
    BY <2>1 DEF CompletenessInv
  <2> QED
    BY <2>1, <2>2, <2>3, <2>4, <2>5, AnswerSent
<1>2. CASE FailMux \/ FailGin
  <2>1. /\ handlerPc = "headers" /\ handlerPc' = "answered" /\ ctx' = "done"
        /\ UNCHANGED <<setup, response, err, full>> /\ ~HasData
    BY <1>2 DEF FailMux, FailGin, HasData
  <2>2. /\ ErrorStatus \in {204, 404, 500} /\ ErrorPage \in SUBSET BodyParts
        /\ ErrorStatus >= 400 \/ (err = "204" /\ ErrorStatus = 204)
    BY DEF ErrorStatus, ErrorPage, BodyParts
  <2>3. /\ HandlerHeaders.completed \in {"true", "false"}
        /\ HandlerHeaders.completed = "true" => HasData
        /\ HandlerHeaders.cached = (HasData /\ response.complete)
        /\ HandlerHeaders.headers = 0
        /\ HandlerHeaders \in ClientAnswers
    BY <2>1, HeadersOfTheResponse
  <2> DEFINE x == Answering(HandlerHeaders, ErrorStatus, ErrorPage)
  <2>4. /\ x \in ClientAnswers /\ x.status = ErrorStatus
        /\ x.completed # "true" /\ ~x.cached /\ x.headers = 0
    <3>1. ErrorStatus \in {200, 204, 404, 405, 500}
      BY <2>2
    <3>2. /\ x \in ClientAnswers /\ x.status = ErrorStatus
          /\ x.completed = HandlerHeaders.completed
          /\ x.cached = HandlerHeaders.cached /\ x.headers = HandlerHeaders.headers
      BY <2>2, <2>3, <3>1, AnswerWith
    <3>3. ~HandlerHeaders.cached /\ HandlerHeaders.completed # "true"
      BY <2>1, <2>3
    <3> QED
      BY <2>3, <3>2, <3>3
  <2>5. PICK n \in {0, 1} : w' = [x EXCEPT !.headers = n]
    <3>1. CASE FailMux
      <4>1. w' = x
        BY <3>1 DEF FailMux, Answering
      <4>2. x = [x EXCEPT !.headers = 0]
        <5> HIDE DEF x
        <5> QED
          BY <2>4 DEF ClientAnswers
      <4> QED
        BY <4>1, <4>2
    <3>2. CASE FailGin
      <4>1. PICK n \in {0, 1} :
                w' = [HandlerHeaders EXCEPT !.status = ErrorStatus, !.body = ErrorPage,
                                            !.headers = @ + n]
        BY <3>2 DEF FailGin
      <4>2. HandlerHeaders.headers + n = n
        BY <2>3
      <4> QED
        BY <4>1, <4>2 DEF Answering
    <3> QED
      BY <1>2, <3>1, <3>2
  <2> HIDE DEF x
  <2>6. /\ w' \in ClientAnswers /\ w'.status = ErrorStatus
        /\ w'.completed # "true" /\ ~w'.cached /\ w'.headers <= 1
    <3>1. n \in 0 .. 2 /\ n <= 1
      BY <2>5
    <3>2. w' \in ClientAnswers /\ w'.headers = n
      BY <2>4, <2>5, <3>1 DEF ClientAnswers
    <3>3. w'.status = x.status /\ w'.completed = x.completed /\ w'.cached = x.cached
      BY <2>4, <2>5 DEF ClientAnswers
    <3> QED
      BY <2>4, <3>1, <3>2, <3>3
  <2> QED
    BY <2>1, <2>2, <2>6, AnswerSent
<1> QED
  BY <1>1, <1>2

\* The headers of what is going to be rendered.
LEMMA HeadersInv ==
    ASSUME EndpointIInv, SetHeaders
    PROVE  EndpointIInv'
<1> USE DEF EndpointIInv
<1>1. /\ handlerPc = "headers" /\ handlerPc' = "render" /\ w' = HandlerHeaders
      /\ UNCHANGED <<setup, response, err, full, ctx>>
      /\ err # "none" => IF setup.router = "mux" THEN HasData ELSE ~response.nil
  BY DEF SetHeaders
<1>2. HasData' = HasData
  BY <1>1 DEF HasData
<1>3. EndpointTypeOK'
  BY <1>1, HeadersOfTheResponse DEF EndpointTypeOK
<1>4. AnswerIsTrue' /\ UntouchedInv'
  BY <1>1, NotAnswered DEF UntouchedInv
<1>5. RenderInv'
  BY <1>1, <1>2, HeadersOfTheResponse DEF RenderInv
<1>6. CompletenessInv'
  BY <1>1 DEF CompletenessInv
<1> QED
  BY <1>3, <1>4, <1>5, <1>6

\* The ways to render.
LEMMA RenderedInv ==
    ASSUME EndpointIInv, RenderData \/ RenderFails \/ RenderNoop
    PROVE  EndpointIInv'
<1> USE DEF EndpointIInv
<1>1. /\ handlerPc = "render" /\ handlerPc' = "answered" /\ ctx' = "done"
      /\ UNCHANGED <<setup, response, err, full>> /\ w \in ClientAnswers
  BY DEF RenderData, RenderFails, RenderNoop, EndpointTypeOK
<1>2. /\ w.completed = "true" => full
      /\ w.cached => full /\ HasData
      /\ w.headers = IF HasData THEN response.headers ELSE 0
      /\ err # "none" => IF setup.router = "mux" THEN HasData ELSE ~response.nil
  BY <1>1 DEF RenderInv, CompletenessInv
<1>3. response.headers \in {0, 1} /\ response.data \subseteq Items
  BY ResponseFields
<1>4. ~(err # "none" /\ (response.nil \/ (setup.router = "mux" /\ ~HasData)))
  BY <1>2 DEF HasData
<1>5. CASE RenderData
  <2> DEFINE shown == Rendered(response.data) \ {"opaque"}
  <2>1. w' = [w EXCEPT !.status = 200, !.body = shown]
    BY <1>5 DEF RenderData
  <2>2. shown \in SUBSET BodyParts /\ "error" \notin shown
    BY <1>3 DEF Rendered, BodyParts, Items
  <2>3. /\ w' \in ClientAnswers /\ w'.status = 200 /\ "error" \notin w'.body
        /\ w'.completed = w.completed /\ w'.cached = w.cached /\ w'.headers = w.headers
    <3>1. w' = Answering(w, 200, shown)
      BY <2>1 DEF Answering
    <3> QED
      BY <1>1, <2>2, <3>1, AnswerWith
  <2> QED
    BY <1>1, <1>2, <1>3, <1>4, <2>3, AnswerSent
<1>6. CASE RenderNoop
  <2>1. getRender = "no-op"
    BY <1>6 DEF RenderNoop
  <2>2. CASE response.nil
    <3>1. w' = [w EXCEPT !.status = 500, !.completed = Intercepted(500)]
      BY <1>6, <2>2 DEF RenderNoop
    <3>2. Intercepted(500) = "false" \/ Intercepted(500) = w.completed
      BY DEF Intercepted
    <3>3. ~HasData
      BY <2>2 DEF HasData
    <3>4. w' \in ClientAnswers
      <4> DEFINE u == [w EXCEPT !.status = 500]
      <4>1. u \in ClientAnswers
        BY <1>1 DEF ClientAnswers
      <4> HIDE DEF u
      <4>2. Intercepted(500) \in {"unset", "true", "false"}
        BY <1>1, <3>2 DEF ClientAnswers
      <4>3. [u EXCEPT !.completed = Intercepted(500)] \in ClientAnswers
        BY <4>1, <4>2 DEF ClientAnswers
      <4>4. w' = [u EXCEPT !.completed = Intercepted(500)]
        BY <3>1 DEF u
      <4> QED
        BY <4>3, <4>4
    <3>5. /\ w'.completed = "true" => full
          /\ w'.cached = w.cached /\ w'.headers = w.headers
      BY <1>1, <1>2, <3>1, <3>2 DEF ClientAnswers
    <3>6. ~w.cached /\ w.headers = 0
      BY <1>2, <3>3
    <3> QED
      BY <1>1, <1>4, <3>4, <3>5, <3>6, AnswerSent
  <2>3. CASE ~response.nil
    <3>1. w' = [w EXCEPT !.status = SentStatus, !.headers = @ + response.headers,
                         !.completed = Intercepted(SentStatus),
                         !.body = IF response.io THEN {"stream"} ELSE {}]
      BY <1>6, <2>3 DEF RenderNoop
    <3>2. PICK s \in {200, 500} : s = SentStatus /\ (s # 200 => s = response.status)
      BY ResponseFields DEF SentStatus
    <3>3. PICK c \in {"unset", "true", "false"} :
              /\ c = Intercepted(SentStatus)
              /\ c = "true" => full
      <4>1. w.completed \in {"unset", "true", "false"}
        BY <1>1 DEF ClientAnswers
      <4>2. Intercepted(SentStatus) = "false" \/ Intercepted(SentStatus) = w.completed
        BY DEF Intercepted
      <4> QED
        BY <1>2, <4>1, <4>2
    <3>4. PICK h \in 0 .. 2 : /\ h = w.headers + response.headers
                              /\ h <= 1 \/ HasData
      BY <1>2, <1>3
    <3>5. PICK b \in SUBSET BodyParts :
              /\ b = IF response.io THEN {"stream"} ELSE {}
              /\ "error" \notin b
      <4>1. {"stream"} \in SUBSET BodyParts /\ "error" \notin {"stream"}
        BY DEF BodyParts
      <4>2. {} \in SUBSET BodyParts /\ "error" \notin {}
        OBVIOUS
      <4>3. CASE response.io
        BY <4>1, <4>3
      <4>4. CASE ~response.io
        BY <4>2, <4>4
      <4> QED
        BY <4>3, <4>4
    <3>6. w' = [w EXCEPT !.status = s, !.headers = h, !.completed = c, !.body = b]
      BY <3>1, <3>2, <3>3, <3>4, <3>5
    <3>7. w' \in ClientAnswers
      <4> DEFINE x == [w EXCEPT !.status = s]
                 u == [x EXCEPT !.headers = h]
                 v == [u EXCEPT !.completed = c]
      <4>1. x \in ClientAnswers
        BY <1>1 DEF ClientAnswers
      <4> HIDE DEF x
      <4>2. u \in ClientAnswers
        BY <4>1 DEF ClientAnswers
      <4> HIDE DEF u
      <4>3. v \in ClientAnswers
        BY <4>2 DEF ClientAnswers
      <4> HIDE DEF v
      <4>4. [v EXCEPT !.body = b] \in ClientAnswers
        BY <4>3 DEF ClientAnswers
      <4>5. w' = [v EXCEPT !.body = b]
        BY <3>6 DEF x, u, v
      <4> QED
        BY <4>4, <4>5
    <3>8. /\ w'.status = s /\ w'.headers = h /\ w'.completed = c /\ w'.body = b
          /\ w'.cached = w.cached
      BY <1>1, <3>6 DEF ClientAnswers
    <3> QED
      BY <1>1, <1>2, <1>4, <2>1, <3>2, <3>3, <3>4, <3>5, <3>7, <3>8, AnswerSent
  <2> QED
    BY <2>2, <2>3
<1>7. CASE RenderFails
  <2>1. Intercepted(500) = "false" \/ Intercepted(500) = w.completed
    BY DEF Intercepted
  <2>2. CASE setup.router = "mux"
    <3>1. w' = [w EXCEPT !.status = 500, !.completed = Intercepted(500), !.body = {"error"}]
      BY <1>7, <2>2 DEF RenderFails
    <3>2. PICK c \in {"unset", "true", "false"} : /\ c = Intercepted(500)
                                                  /\ c = "true" => full
      BY <1>1, <1>2, <2>1 DEF ClientAnswers
    <3>3. w' = [w EXCEPT !.status = 500, !.completed = c, !.body = {"error"}]
      BY <3>1, <3>2
    <3>4. w' \in ClientAnswers
      <4> DEFINE u == [w EXCEPT !.status = 500]
                 v == [u EXCEPT !.completed = c]
      <4>1. u \in ClientAnswers
        BY <1>1 DEF ClientAnswers
      <4> HIDE DEF u
      <4>2. v \in ClientAnswers
        BY <4>1 DEF ClientAnswers
      <4> HIDE DEF v
      <4>3. [v EXCEPT !.body = {"error"}] \in ClientAnswers
        BY <4>2 DEF ClientAnswers, BodyParts
      <4>4. w' = [v EXCEPT !.body = {"error"}]
        BY <3>3 DEF u, v
      <4> QED
        BY <4>3, <4>4
    <3>5. /\ w'.status = 500 /\ w'.completed = c
          /\ w'.cached = w.cached /\ w'.headers = w.headers
      BY <1>1, <3>3 DEF ClientAnswers
    <3>6. "opaque" \in response.data
      <4>1. getRender # "xml"
        BY <2>2 DEF getRender, getWithFallback, Registered
      <4> QED
        BY <1>7, <4>1 DEF RenderFails, MayNotEncode, Rendered
    <3> QED
      BY <1>1, <1>2, <1>3, <1>4, <2>2, <3>2, <3>4, <3>5, <3>6, AnswerSent
  <2>3. CASE setup.router # "mux"
    <3>1. w' = [w EXCEPT !.status = 200]
      BY <1>7, <2>3 DEF RenderFails
    <3>2. w.body = {}
      BY <1>1 DEF RenderInv
    <3>3. /\ w' \in ClientAnswers /\ w'.status = 200 /\ w'.body = {}
          /\ w'.completed = w.completed /\ w'.cached = w.cached /\ w'.headers = w.headers
      BY <1>1, <3>1, <3>2 DEF ClientAnswers
    <3> QED
      BY <1>1, <1>2, <1>3, <1>4, <3>3, AnswerSent
  <2> QED
    BY <2>2, <2>3
<1> QED
  BY <1>5, <1>6, <1>7

\* The end of the request's context.
LEMMA ContextEndsInv ==
    ASSUME EndpointIInv, RequestCtxDone
    PROVE  EndpointIInv'
<1> USE DEF EndpointIInv
<1>1. /\ ctx = "live" /\ ctx' = "done"
      /\ UNCHANGED <<setup, handlerPc, response, err, full, w>>
  BY DEF RequestCtxDone
<1>2. HasData' = HasData /\ getRender' = getRender
  BY <1>1 DEF HasData, getRender, getWithFallback
<1>3. AnswerIsTrue'
  <2>1. ~Answered
    BY <1>1 DEF AnswerIsTrue, NothingOutlivesTheAnswer
  <2>2. CASE handlerPc = "panicked"
    BY <1>1, <2>1, <2>2
       DEF AnswerIsTrue, CompleteIsTrue, CachedIsWhole, FailureIsNotASuccess, HeadersOnce,
           NothingOutlivesTheAnswer, PanicsOnlyWithoutReply, Answered
  <2>3. CASE handlerPc # "panicked"
    BY <1>1, <2>1, <2>3, NotAnswered DEF Answered
  <2> QED
    BY <2>2, <2>3
<1>4. EndpointTypeOK' /\ CompletenessInv' /\ UntouchedInv'
  BY <1>1 DEF EndpointTypeOK, CompletenessInv, UntouchedInv
<1>5. RenderInv'
  BY <1>1, <1>2 DEF RenderInv
<1> QED
  BY <1>3, <1>4, <1>5

(***************************************************************************)
(* The invariant of the handler (mux/endpoint.go:36-98, gin/endpoint.go):  *)
(* what is complete at any stage is complete at the backends, and nothing  *)
(* is written before the reply is there.                                   *)
(***************************************************************************)
THEOREM EndpointInvariance == EndpointInit /\ [][EndpointNext]_endpointVars => []EndpointIInv
<1>1. EndpointInit => EndpointIInv
  <2> SUFFICES ASSUME EndpointInit PROVE EndpointIInv
    OBVIOUS
  <2>1. EndpointTypeOK
    <3>1. [status |-> 0, completed |-> "unset", cached |-> FALSE,
           headers |-> 0, body |-> {}] \in ClientAnswers
      BY DEF ClientAnswers
    <3>2. response \in Responses \cup {NilResponse}
      BY DEF EndpointInit
    <3> QED
      BY <3>1, <3>2 DEF EndpointInit, EndpointTypeOK, Errors
  <2>2. AnswerIsTrue
    BY DEF EndpointInit, AnswerIsTrue, CompleteIsTrue, CachedIsWhole, FailureIsNotASuccess,
           HeadersOnce, NothingOutlivesTheAnswer, PanicsOnlyWithoutReply, Answered
  <2>3. CompletenessInv /\ UntouchedInv /\ RenderInv
    BY DEF EndpointInit, CompletenessInv, UntouchedInv, RenderInv, NilResponse
  <2> QED
    BY <2>1, <2>2, <2>3 DEF EndpointIInv
<1>2. EndpointIInv /\ [EndpointNext]_endpointVars => EndpointIInv'
  <2> SUFFICES ASSUME EndpointIInv, [EndpointNext]_endpointVars PROVE EndpointIInv'
    OBVIOUS
  <2>1. CASE Handle \/ ModifyRequest \/ PipeReply \/ AddStatic \/ CheckDeadline
    BY <2>1, ChainInv
  <2>2. CASE Flatmap \/ ModifyResponse
    BY <2>2, ModifyInv
  <2>3. CASE WrongMethod \/ FailMux \/ FailGin
    BY <2>3, RefusedInv
  <2>4. CASE SetHeaders
    BY <2>4, HeadersInv
  <2>5. CASE RenderData \/ RenderFails \/ RenderNoop
    BY <2>5, RenderedInv
  <2>6. CASE RequestCtxDone
    BY <2>6, ContextEndsInv
  <2>7. CASE UNCHANGED endpointVars
    BY <2>7
       DEF endpointVars, EndpointIInv, EndpointTypeOK, CompletenessInv, UntouchedInv,
           RenderInv, HasData, AnswerIsTrue, CompleteIsTrue, CachedIsWhole,
           FailureIsNotASuccess, HeadersOnce, NothingOutlivesTheAnswer,
           PanicsOnlyWithoutReply, Answered, getRender, getWithFallback
  <2> QED
    BY <2>1, <2>2, <2>3, <2>4, <2>5, <2>6, <2>7
       DEF EndpointNext, HandlerStep, EndpointFinished
<1> QED
  BY <1>1, <1>2, PTL

(***************************************************************************)
(* The variables of a handler keep their types.                            *)
(***************************************************************************)
THEOREM EndpointTypeCorrect == EndpointSpec => []EndpointTypeOK
<1>1. EndpointIInv => EndpointTypeOK
  BY DEF EndpointIInv
<1> QED
  BY <1>1, EndpointInvariance, PTL DEF EndpointSpec

(***************************************************************************)
(* Whatever the endpoint's modifiers, static data and renderer are, and    *)
(* whenever its context ends: X-Krakend-Completed and Cache-Control are    *)
(* sent only for what every backend has answered completely or a modifier  *)
(* vouches for, Cache-Control with an error only if the no-op backend sent *)
(* it or mux cannot encode the data; a failure without data is an error    *)
(* status or the backend's own, and the context is ended with the answer   *)
(* (mux/endpoint.go:66-95, gin/endpoint.go:60-117).                        *)
(***************************************************************************)
THEOREM EndpointAnswers == EndpointSpec => []AnswerIsTrue
<1>1. EndpointIInv => AnswerIsTrue
  BY DEF EndpointIInv
<1> QED
  BY <1>1, EndpointInvariance, PTL DEF EndpointSpec
-----------------------------------------------------------------------------
(* The service.                                                            *)

(***************************************************************************)
(* The parts of the service share no state: a step of one is a step of it  *)
(* alone, and leaves the others as they are.  So a behaviour of the        *)
(* composition is one of each part: the types of all three, what a client  *)
(* is told by a handler and the order of a shutdown hold in it             *)
(* (mux/endpoint.go:36-98, server.go:105-160, asyncagent.go:46-110).       *)
(***************************************************************************)
THEOREM ServiceIsItsParts ==
    ServiceSpec => [](TypesOK /\ AnswerIsTrue /\ ShutdownIsOrderly)
<1>1. ServiceInit => EndpointInit /\ ServerInit /\ AgentsInit
  BY DEF ServiceInit, EndpointIdle, ServerIdle, AgentsIdle
<1>2. [ServiceNext]_serviceVars => /\ [EndpointNext]_endpointVars
                                   /\ [ServerNext]_serverVars
                                   /\ [AgentsNext]_agentsVars
  BY DEF ServiceNext, serviceVars
<1>3. EndpointIInv => EndpointTypeOK /\ AnswerIsTrue
  BY DEF EndpointIInv
<1>4. ServerIInv => ServerTypeOK /\ ShutdownIsOrderly
  BY ServerPromise DEF ServerIInv
<1>5. AgentsIInv => AgentsTypeOK
  BY DEF AgentsIInv
<1>6. EndpointTypeOK /\ ServerTypeOK /\ AgentsTypeOK => TypesOK
  BY DEF TypesOK
<1> QED
  BY <1>1, <1>2, <1>3, <1>4, <1>5, <1>6, EndpointInvariance, ServerInvariance,
     AgentsInvariance, PTL DEF ServiceSpec
=============================================================================
