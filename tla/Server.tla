------------------------------- MODULE Server --------------------------------
(***************************************************************************)
(* RunServer (transport/http/server/server.go): check the key pairs, serve *)
(* in a goroutine of its own, and wait for that goroutine or for the end   *)
(* of the context, whichever is seen first.  The end of the context starts *)
(* a graceful shutdown that may have a deadline.                           *)
(*                                                                         *)
(* A program may run the server several times with the same configuration: *)
(* ServiceConfig is copied but its TLS section is shared, and RunServer    *)
(* appends to the key pairs in it.  net/http is modelled by what RunServer *)
(* relies on: Shutdown closes the listener, then waits for the requests.   *)
(***************************************************************************)
EXTENDS Integers, Sequences, SequencesExt

CONSTANTS Runs,         \* times RunServer is called
          MaxRequests,  \* bound: requests accepted in all
          Services      \* the configurations to check

\* The state of a key pair: complete and readable, or what is wrong with it.
PairKind == {"good", "other", "noPublic", "noPrivate", "unreadable"}
NoPair == "noPair"

ASSUME RunsAssumption == Runs \in Nat /\ MaxRequests \in Nat
ASSUME ServicesAssumption ==
    Services \subseteq [tls : BOOLEAN, keys : Seq(PairKind),
                        legacy : PairKind \cup {NoPair}, maxWait : {0, 1}]

VARIABLES
    cfg,        \* the configuration, without cfg.TLS.Keys
    keys,       \* cfg.TLS.Keys, shared by all the calls
    run,        \* the current call of RunServer
    serverPc,   \* it is at: "idle", "check", "select", "shutdown", "returned"
    ctxDone,    \* [1..Runs -> BOOLEAN], the context of each call
    certs,      \* [1..Runs -> Seq(PairKind)], the certificates of each server
    serving,    \* [1..Runs -> {"none", "serving", "sending", "gone"}], the
                \* goroutine; sending: blocked on done <-
    listenErr,  \* [1..Runs -> {"none", "closed", "failed"}], what it sends
    inShutdown, \* [1..Runs -> BOOLEAN], Shutdown has been called
    inFlight,   \* [1..Runs -> Nat], requests being handled
    accepted,   \* requests accepted so far
    serverResult \* [1..Runs -> Result], what the call returned

Result == {"none", "nil", "keyError", "closed", "failed", "deadline"}

configVars == <<cfg, keys, certs>>
serverVars == <<configVars, run, serverPc, ctxDone, serving, listenErr, inShutdown, inFlight,
                accepted, serverResult>>

Calls == 1 .. Runs
Returned(n) == n < run \/ (n = run /\ serverPc = "returned")

ServerTypeOK ==
    /\ cfg \in Services /\ keys \in Seq(PairKind)
    /\ Len(keys) \in Len(cfg.keys) .. Len(cfg.keys) + run
    /\ run \in 0 .. Runs
    /\ serverPc \in {"idle", "check", "select", "shutdown", "returned"}
    /\ ctxDone \in [Calls -> BOOLEAN] /\ inShutdown \in [Calls -> BOOLEAN]
    /\ certs \in [Calls -> Seq(PairKind)]
    /\ serving \in [Calls -> {"none", "serving", "sending", "gone"}]
    /\ listenErr \in [Calls -> {"none", "closed", "failed"}]
    /\ inFlight \in [Calls -> 0 .. MaxRequests] /\ accepted \in 0 .. MaxRequests
    /\ serverResult \in [Calls -> Result]

ServerInit ==
    /\ cfg \in Services /\ keys = cfg.keys
    /\ run = 0 /\ serverPc = "idle"
    /\ ctxDone = [n \in Calls |-> FALSE]
    /\ certs = [n \in Calls |-> <<>>]
    /\ serving = [n \in Calls |-> "none"]
    /\ listenErr = [n \in Calls |-> "none"]
    /\ inShutdown = [n \in Calls |-> FALSE]
    /\ inFlight = [n \in Calls |-> 0]
    /\ accepted = 0
    /\ serverResult = [n \in Calls |-> "none"]

-----------------------------------------------------------------------------
(* RunServer.                                                              *)

\* The program calls RunServer, again if it has returned.
Call ==
    /\ serverPc \in {"idle", "returned"} /\ run < Runs
    /\ run' = run + 1
    /\ serverPc' = "check"
    /\ UNCHANGED <<configVars, ctxDone, serving, listenErr, inShutdown, inFlight,
                   accepted, serverResult>>

Return(r) ==
    /\ serverPc' = "returned"
    /\ serverResult' = [serverResult EXCEPT ![run] = r]

Usable(p) == p \in {"good", "other"}

\* cfg.TLS.Keys, with the pair that the old format has in fields of its own.
LoadedKeys == IF cfg.legacy = NoPair THEN keys ELSE Append(keys, cfg.legacy)

Go == /\ serving' = [serving EXCEPT ![run] = "serving"]
      /\ serverPc' = "select"
      /\ UNCHANGED serverResult

\* No TLS: go ListenAndServe.
StartPlain ==
    /\ serverPc = "check" /\ ~cfg.tls
    /\ Go
    /\ UNCHANGED <<configVars, run, ctxDone, listenErr, inShutdown, inFlight, accepted>>

\* All the pairs load: go ListenAndServeTLS.
StartTLS ==
    /\ serverPc = "check" /\ cfg.tls
    /\ LoadedKeys # <<>> /\ \A i \in DOMAIN LoadedKeys : Usable(LoadedKeys[i])
    /\ keys' = LoadedKeys
    /\ certs' = [certs EXCEPT ![run] = LoadedKeys]
    /\ Go
    /\ UNCHANGED <<cfg, run, ctxDone, listenErr, inShutdown, inFlight, accepted>>

\* No pair (ErrPublicKey), or one that is incomplete or cannot be loaded.  The
\* pair of the old format stays appended.
RefuseKeys ==
    /\ serverPc = "check" /\ cfg.tls
    /\ LoadedKeys = <<>> \/ \E i \in DOMAIN LoadedKeys : ~Usable(LoadedKeys[i])
    /\ keys' = LoadedKeys
    /\ Return("keyError")
    /\ UNCHANGED <<cfg, run, ctxDone, certs, serving, listenErr, inShutdown, inFlight,
                   accepted>>

\* A wait that takes the end of the listener for a clean one.
TakeDoneAsClean ==
    /\ serverPc = "select" /\ serving[run] = "sending"
    /\ serving' = [serving EXCEPT ![run] = "gone"]
    /\ Return("nil")
    /\ UNCHANGED <<configVars, run, ctxDone, listenErr, inShutdown, inFlight, accepted>>

\* case err := <-done: done is unbuffered, the two meet.
TakeDone ==
    /\ serverPc = "select" /\ serving[run] = "sending"
    /\ serving' = [serving EXCEPT ![run] = "gone"]
    /\ Return(listenErr[run])
    /\ UNCHANGED <<configVars, run, ctxDone, listenErr, inShutdown, inFlight, accepted>>

\* case <-ctx.Done(): s.Shutdown starts; also when done is ready.
SeeCtxDone ==
    /\ serverPc = "select" /\ ctxDone[run]
    /\ inShutdown' = [inShutdown EXCEPT ![run] = TRUE]
    /\ serverPc' = "shutdown"
    /\ UNCHANGED <<configVars, run, ctxDone, serving, listenErr, inFlight, accepted,
                   serverResult>>

\* Shutdown has seen every connection idle.
ShutdownEnds ==
    /\ serverPc = "shutdown" /\ inFlight[run] = 0
    /\ Return("nil")
    /\ UNCHANGED <<configVars, run, ctxDone, serving, listenErr, inShutdown, inFlight,
                   accepted>>

\* A shutdown that ignores its deadline.
ShutdownNeverExpires == FALSE /\ UNCHANGED serverVars

\* The deadline of the shutdown passes; without MaxShutdownDuration there is none.
ShutdownExpires ==
    /\ serverPc = "shutdown" /\ cfg.maxWait > 0
    /\ Return("deadline")
    /\ UNCHANGED <<configVars, run, ctxDone, serving, listenErr, inShutdown, inFlight,
                   accepted>>

-----------------------------------------------------------------------------
(* The serving goroutines, the clients and the caller.                     *)

\* Listening, accepting or serving TLS fails.
ListenFails(n) ==
    /\ serving[n] = "serving"
    /\ serving' = [serving EXCEPT ![n] = "sending"]
    /\ listenErr' = [listenErr EXCEPT ![n] = "failed"]
    /\ UNCHANGED <<configVars, run, serverPc, ctxDone, inShutdown, inFlight, accepted, serverResult>>

\* ErrServerClosed: Shutdown closes the listener, or was there before it.
ListenerCloses(n) ==
    /\ serving[n] = "serving" /\ inShutdown[n]
    /\ serving' = [serving EXCEPT ![n] = "sending"]
    /\ listenErr' = [listenErr EXCEPT ![n] = "closed"]
    /\ UNCHANGED <<configVars, run, serverPc, ctxDone, inShutdown, inFlight, accepted, serverResult>>

Accept(n) ==
    /\ serving[n] = "serving" /\ ~inShutdown[n] /\ accepted < MaxRequests
    /\ accepted' = accepted + 1
    /\ inFlight' = [inFlight EXCEPT ![n] = @ + 1]
    /\ UNCHANGED <<configVars, run, serverPc, ctxDone, serving, listenErr, inShutdown, serverResult>>

HandlerReturns(n) ==
    /\ inFlight[n] > 0
    /\ inFlight' = [inFlight EXCEPT ![n] = @ - 1]
    /\ UNCHANGED <<configVars, run, serverPc, ctxDone, serving, listenErr, inShutdown, accepted,
                   serverResult>>

\* The context of a call ends, possibly before the call.
CtxDone(n) ==
    /\ ~ctxDone[n]
    /\ ctxDone' = [ctxDone EXCEPT ![n] = TRUE]
    /\ UNCHANGED <<configVars, run, serverPc, serving, listenErr, inShutdown, inFlight, accepted,
                   serverResult>>

ServerFinished == run = Runs /\ serverPc = "returned" /\ UNCHANGED serverVars

RunServerStep == \/ StartPlain \/ StartTLS \/ RefuseKeys
                 \/ TakeDone \/ SeeCtxDone \/ ShutdownEnds \/ ShutdownExpires

ServerNext ==
    \/ Call \/ RunServerStep
    \/ \E n \in Calls : \/ ListenFails(n) \/ ListenerCloses(n)
                        \/ Accept(n) \/ HandlerReturns(n) \/ CtxDone(n)
    \/ ServerFinished

(***************************************************************************)
(* The call of RunServer runs on, and a closed listener is noticed.        *)
(* Whether handlers return is assumed only where a property says so.       *)
(***************************************************************************)
ServerFairness == /\ WF_serverVars(RunServerStep)
                  /\ \A n \in Calls : WF_serverVars(ListenerCloses(n))

HandlersReturn == \A n \in Calls : WF_serverVars(HandlerReturns(n))

ServerSpec == ServerInit /\ [][ServerNext]_serverVars /\ ServerFairness

-----------------------------------------------------------------------------
(* Properties                                                              *)

(***************************************************************************)
(* Without a maximum wait, a shutdown cuts no request: "If 0, it will wait *)
(* indefinitely until all the requests are served" (config.go:192-195,     *)
(* server.go:153-155); with one, only a call that reports it may leave     *)
(* requests behind.                                                        *)
(***************************************************************************)
GracefulShutdown ==
    \A n \in Calls :
        /\ serverResult[n] = "nil" => inFlight[n] = 0
        /\ inShutdown[n] /\ cfg.maxWait = 0 /\ Returned(n) => inFlight[n] = 0

(***************************************************************************)
(* Every call serves the certificates of all the configured pairs, of both *)
(* formats, and serves at all only if each of them is usable; that the     *)
(* shared list has grown since the last call does not change which         *)
(* (server.go:119-140).                                                    *)
(***************************************************************************)
Configured == ToSet(cfg.keys) \cup ({cfg.legacy} \ {NoPair})

EveryConfiguredPairIsServed ==
    \A n \in Calls :
        (cfg.tls /\ serving[n] # "none") =>
            ToSet(certs[n]) = Configured /\ \A p \in Configured : Usable(p)

(***************************************************************************)
(* The failure of a listener is reported by the call unless the end of its *)
(* context hides it: the select may prefer a shutdown to the error that is *)
(* waiting (server.go:149-152).                                            *)
(***************************************************************************)
FailureIsReported ==
    \A n \in Calls :
        (Returned(n) /\ listenErr[n] = "failed" /\ serverResult[n] # "failed") => ctxDone[n]

(***************************************************************************)
(* The price of the unbuffered channel (server.go:111): nobody receives    *)
(* from done after a shutdown, so every call that ends by one leaves its   *)
(* serving goroutine behind, and no other call leaves one, nor a listener  *)
(* that still accepts (server.go:149-159).                                 *)
(***************************************************************************)
OnlyShutdownsLeaveGoroutines ==
    \A n \in Calls : Returned(n) => IF inShutdown[n] THEN serving[n] # "gone"
                                    ELSE serving[n] \in {"none", "gone"}

(***************************************************************************)
(* The safety of RunServer: which requests, certificates and errors a call *)
(* may leave behind or hide, and which goroutine.                          *)
(***************************************************************************)
ShutdownIsOrderly ==
    /\ GracefulShutdown /\ EveryConfiguredPairIsServed
    /\ FailureIsReported /\ OnlyShutdownsLeaveGoroutines

(***************************************************************************)
(* Once its context is done the call returns: at once if nothing is in     *)
(* flight, by the deadline of the shutdown if it has one, or when the last *)
(* handler has returned (server.go:152-158).                               *)
(***************************************************************************)
RunServerReturns ==
    (HandlersReturn \/ cfg.maxWait > 0) =>
        \A n \in Calls : (run = n /\ serverPc # "idle" /\ ctxDone[n]) ~> Returned(n)
=============================================================================
