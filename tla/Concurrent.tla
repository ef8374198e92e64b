----------------------------- MODULE Concurrent -----------------------------
(***************************************************************************)
(* One request through the concurrent middleware of a backend              *)
(* (proxy/concurrent.go): the same request is sent NumCalls times, the     *)
(* first complete response wins, and everything is cancelled once there is *)
(* a reply.  Three contexts are involved: the caller's (parentDone), the   *)
(* middleware's, a child of it with 75% of the backend's timeout           *)
(* (localDone), and one per call, a child of the middleware's.             *)
(*                                                                         *)
(* The body of a no-op response is a stream that a goroutine of its own    *)
(* closes when the context of the call is done (proxy/proxy.go).           *)
(*                                                                         *)
(* A *Response and an error are pointers: channels and replies hold the    *)
(* call they come from, None for nil.                                      *)
(***************************************************************************)
EXTENDS Integers, Sequences, FiniteSets

CONSTANTS NumCalls,      \* remote.ConcurrentCalls
          NoOpEncoding   \* TRUE: the backend's responses are streams

\* The factory adds the middleware only for more than one call.
ASSUME NumCallsAssumption == NumCalls \in Nat /\ NumCalls >= 2
ASSUME NoOpAssumption == NoOpEncoding \in BOOLEAN

Calls == 1 .. NumCalls
None  == 0

VARIABLES
    pc,          \* the middleware: "spawn", "wait" or "returned"
    spawned,     \* calls started
    iter,        \* iterations of the wait loop done
    parentDone,  \* ctx is done
    localDone,   \* localCtx is done (timeout, parent or cancel())
    call,        \* [Calls -> CallState], the processConcurrentCall goroutines
    req,         \* [Calls -> {"none", "clone", "original"}], their *Request
    complete,    \* [Calls -> BOOLEAN], IsComplete of the call's response
    body,        \* [Calls -> {"none", "open", "closed"}], its Io
    results,     \* chan *Response
    failed,      \* chan error
    response,    \* the variables of the wait loop
    err,
    reply        \* what the caller gets

loopVars == <<pc, spawned, iter, response, err, reply>>
callVars == <<call, req, complete, body>>
vars == <<loopVars, callVars, parentDone, localDone, results, failed>>

\* calling: inside next(); deliver, fail: about to send on results or failed;
\* delivered, errored: sent, cancel() is still to come; ended, endedInError:
\* the call's context is cancelled and the goroutine is gone.
CallState == {"none", "calling", "deliver", "fail", "delivered", "errored",
              "ended", "endedInError"}

\* make(chan ..., remote.ConcurrentCalls)
ChanCap == NumCalls

Answered == {c \in Calls : call[c] \in {"delivered", "ended"}}
Failed   == {c \in Calls : call[c] \in {"errored", "endedInError"}}
Running  == {c \in Calls :
                call[c] \in {"calling", "deliver", "fail", "delivered", "errored"}}

\* The context of call c: own cancel() or the middleware's context.
callDone(c) == localDone \/ call[c] \in {"ended", "endedInError"}

TypeOK ==
    /\ pc \in {"spawn", "wait", "returned"}
    /\ spawned \in 0 .. NumCalls /\ iter \in 0 .. NumCalls
    /\ parentDone \in BOOLEAN /\ localDone \in BOOLEAN
    /\ call \in [Calls -> CallState]
    /\ req \in [Calls -> {"none", "clone", "original"}]
    /\ complete \in [Calls -> BOOLEAN]
    /\ body \in [Calls -> {"none", "open", "closed"}]
    /\ results \in Seq(Calls) /\ failed \in Seq(Calls)
    /\ response \in Calls \cup {None} /\ err \in Calls \cup {None}
    /\ reply \in [resp : Calls \cup {None}, err : Calls \cup {None}]

Init ==
    /\ pc = "spawn" /\ spawned = 0 /\ iter = 0
    /\ parentDone \in BOOLEAN /\ localDone = FALSE
    /\ call = [c \in Calls |-> "none"]
    /\ req = [c \in Calls |-> "none"]
    /\ complete = [c \in Calls |-> FALSE]
    /\ body = [c \in Calls |-> "none"]
    /\ results = <<>> /\ failed = <<>>
    /\ response = None /\ err = None
    /\ reply = [resp |-> None, err |-> None]

-----------------------------------------------------------------------------
(* The goroutine that runs the middleware.                                 *)

\* go processConcurrentCall(...), the last one with the request itself.
Spawn ==
    /\ pc = "spawn" /\ spawned < NumCalls
    /\ LET c == spawned + 1 IN
        /\ call' = [call EXCEPT ![c] = "calling"]
        /\ req' = [req EXCEPT ![c] = IF c < NumCalls THEN "clone"
                                                     ELSE "original"]
        /\ spawned' = c
    /\ UNCHANGED <<pc, iter, response, err, reply, complete, body, parentDone,
                   localDone, results, failed>>

StartWait ==
    /\ pc = "spawn" /\ spawned = NumCalls
    /\ pc' = "wait"
    /\ UNCHANGED <<spawned, iter, response, err, reply, callVars, parentDone,
                   localDone, results, failed>>

\* case response = <-results, and the response is complete: cancel(), return.
TakeComplete ==
    /\ pc = "wait" /\ iter < NumCalls
    /\ results # <<>> /\ complete[Head(results)]
    /\ results' = Tail(results)
    /\ response' = Head(results)
    /\ reply' = [resp |-> Head(results), err |-> None]
    /\ localDone' = TRUE
    /\ pc' = "returned"
    /\ UNCHANGED <<spawned, iter, err, callVars, parentDone, failed>>

\* case response = <-results, and the response is incomplete.
TakeIncomplete ==
    /\ pc = "wait" /\ iter < NumCalls
    /\ results # <<>> /\ ~complete[Head(results)]
    /\ results' = Tail(results)
    /\ response' = Head(results)
    /\ iter' = iter + 1
    /\ UNCHANGED <<pc, spawned, err, reply, callVars, parentDone, localDone,
                   failed>>

\* case err = <-failed
TakeError ==
    /\ pc = "wait" /\ iter < NumCalls
    /\ failed # <<>>
    /\ failed' = Tail(failed)
    /\ err' = Head(failed)
    /\ iter' = iter + 1
    /\ UNCHANGED <<pc, spawned, response, reply, callVars, parentDone, localDone,
                   results>>

\* A wait loop with one iteration too many.
SeeParentDonePastEnd ==
    /\ pc = "wait" /\ iter <= NumCalls
    /\ parentDone
    /\ iter' = iter + 1
    /\ UNCHANGED <<pc, spawned, response, err, reply, callVars, parentDone,
                   localDone, results, failed>>

\* A wait loop that wakes up on its own timeout as well.
SeeLocalDone ==
    /\ pc = "wait" /\ iter < NumCalls
    /\ localDone
    /\ iter' = iter + 1
    /\ UNCHANGED <<pc, spawned, response, err, reply, callVars, parentDone,
                   localDone, results, failed>>

\* case <-ctx.Done(): once done, it is ready in every later iteration too.
SeeParentDone ==
    /\ pc = "wait" /\ iter < NumCalls
    /\ parentDone
    /\ iter' = iter + 1
    /\ UNCHANGED <<pc, spawned, response, err, reply, callVars, parentDone,
                   localDone, results, failed>>

\* cancel(); return response, err
Return ==
    /\ pc = "wait" /\ iter = NumCalls
    /\ reply' = [resp |-> response, err |-> err]
    /\ localDone' = TRUE
    /\ pc' = "returned"
    /\ UNCHANGED <<spawned, iter, response, err, callVars, parentDone, results,
                   failed>>

-----------------------------------------------------------------------------
(* A processConcurrentCall goroutine.                                      *)

\* next() returns a response: of a no-op backend, a complete one is a stream.
CallAnswers(c) ==
    /\ call[c] = "calling"
    /\ \E full \in BOOLEAN :
        /\ complete' = [complete EXCEPT ![c] = full]
        /\ body' = [body EXCEPT ![c] = IF full /\ NoOpEncoding THEN "open"
                                                               ELSE "none"]
    /\ call' = [call EXCEPT ![c] = "deliver"]
    /\ UNCHANGED <<loopVars, req, parentDone, localDone, results, failed>>

\* next() returns an error, or neither response nor error (errNullResult).
CallFails(c) ==
    /\ call[c] = "calling"
    /\ call' = [call EXCEPT ![c] = "fail"]
    /\ UNCHANGED <<loopVars, req, complete, body, parentDone, localDone, results,
                   failed>>

\* case out <- result
Deliver(c) ==
    /\ call[c] = "deliver" /\ Len(results) < ChanCap
    /\ results' = Append(results, c)
    /\ call' = [call EXCEPT ![c] = "delivered"]
    /\ UNCHANGED <<loopVars, req, complete, body, parentDone, localDone, failed>>

\* A call that leaves without a word when the context is done.
DeliverNothing(c) ==
    /\ call[c] = "deliver" /\ localDone
    /\ call' = [call EXCEPT ![c] = "endedInError"]
    /\ UNCHANGED <<loopVars, req, complete, body, parentDone, localDone, results,
                   failed>>

\* case <-ctx.Done(): possible as well when results has room.
DeliverTooLate(c) ==
    /\ call[c] = "deliver" /\ localDone
    /\ call' = [call EXCEPT ![c] = "fail"]
    /\ UNCHANGED <<loopVars, req, complete, body, parentDone, localDone, results,
                   failed>>

\* failed <- err
SendError(c) ==
    /\ call[c] = "fail" /\ Len(failed) < ChanCap
    /\ failed' = Append(failed, c)
    /\ call' = [call EXCEPT ![c] = "errored"]
    /\ UNCHANGED <<loopVars, req, complete, body, parentDone, localDone, results>>

\* cancel() of the call's own context, and the end of its goroutine.
Cancel(c) ==
    /\ call[c] \in {"delivered", "errored"}
    /\ call' = [call EXCEPT ![c] = IF @ = "delivered" THEN "ended"
                                                      ELSE "endedInError"]
    /\ UNCHANGED <<loopVars, req, complete, body, parentDone, localDone, results,
                   failed>>

\* readCloserWrapper.closeOnCancel
CloseOnCancel(c) ==
    /\ body[c] = "open" /\ callDone(c)
    /\ body' = [body EXCEPT ![c] = "closed"]
    /\ UNCHANGED <<loopVars, call, req, complete, parentDone, localDone, results,
                   failed>>

-----------------------------------------------------------------------------
\* The caller's context ends: its own timeout, or the client went away.
ParentDone ==
    /\ ~parentDone
    /\ parentDone' = TRUE
    /\ UNCHANGED <<loopVars, callVars, localDone, results, failed>>

\* The service timeout fires, or the end of ctx reaches its child.
LocalDone ==
    /\ ~localDone
    /\ localDone' = TRUE
    /\ UNCHANGED <<loopVars, callVars, parentDone, results, failed>>

\* Nothing is left to do.
Finished ==
    /\ pc = "returned" /\ Running = {}
    /\ \A c \in Calls : body[c] # "open"
    /\ UNCHANGED vars

MiddlewareStep == \/ Spawn \/ StartWait \/ TakeComplete \/ TakeIncomplete
                  \/ TakeError \/ SeeParentDone \/ Return
CallReturns(c) == CallAnswers(c) \/ CallFails(c)
CallSends(c)   == Deliver(c) \/ DeliverTooLate(c) \/ SendError(c) \/ Cancel(c)

Next ==
    \/ MiddlewareStep
    \/ \E c \in Calls : CallReturns(c) \/ CallSends(c) \/ CloseOnCancel(c)
    \/ ParentDone \/ LocalDone
    \/ Finished

(***************************************************************************)
(* Goroutines are scheduled fairly, the timer of localCtx fires, and next()*)
(* returns once its context is done.  The caller's context need not end.   *)
(***************************************************************************)
Fairness ==
    /\ WF_vars(MiddlewareStep)
    /\ WF_vars(LocalDone)
    /\ \A c \in Calls : /\ WF_vars(CallSends(c))
                        /\ WF_vars(localDone /\ CallReturns(c))
                        /\ WF_vars(CloseOnCancel(c))

Spec == Init /\ [][Next]_vars /\ Fairness

-----------------------------------------------------------------------------
(* Properties                                                              *)

(***************************************************************************)
(* No call ever blocks on a send, although the middleware may have left    *)
(* without reading the channels: they hold one report of every call        *)
(* (concurrent.go:34-35, 78-90).                                           *)
(***************************************************************************)
SendsNeverBlock ==
    \A c \in Calls : /\ call[c] = "deliver" => Len(results) < ChanCap
                     /\ call[c] = "fail"    => Len(failed) < ChanCap

(***************************************************************************)
(* The request is only read by the cloning loop while no call owns it: it  *)
(* is handed out once, after the last clone, so a call that consumes the   *)
(* body or rewrites the headers cannot race with CloneRequest              *)
(* (concurrent.go:37-43).                                                  *)
(***************************************************************************)
OriginalHandedOutLast ==
    /\ spawned < NumCalls => \A c \in Calls : req[c] # "original"
    /\ spawned = NumCalls =>
          Cardinality({c \in Calls : req[c] = "original"}) = 1

\* The reply is a response that the router may serve as a whole.
Success == reply.resp # None /\ complete[reply.resp]

(***************************************************************************)
(* While the caller is there, no complete response is lost: the middleware *)
(* replies without one only if no call delivers one, before or after       *)
(* (concurrent.go:48-58).                                                  *)
(***************************************************************************)
SuccessNotMissed ==
    (pc = "returned" /\ ~parentDone /\ ~Success) =>
        \A c \in Answered : ~complete[c]

(***************************************************************************)
(* While the caller is there, a reply without a complete response accounts *)
(* for every call: it has a response iff some call delivered one and an    *)
(* error iff some call failed, so it is never (nil, nil).                  *)
(***************************************************************************)
FailureIsExplained ==
    (pc = "returned" /\ ~parentDone /\ ~Success) =>
        /\ Answered \cup Failed = Calls
        /\ reply.resp # None <=> Answered # {}
        /\ reply.err # None <=> Failed # {}

(***************************************************************************)
(* The safety of the middleware: the requests are handed out apart, no     *)
(* goroutine is stuck, and the reply is the best that the calls justify.   *)
(***************************************************************************)
ConcurrentSafety ==
    /\ SendsNeverBlock /\ OriginalHandedOutLast
    /\ SuccessNotMissed /\ FailureIsExplained

(***************************************************************************)
(* The caller gets its reply by the service timeout at the latest, every   *)
(* goroutine ends, and the body of every response, winner or loser, is     *)
(* closed (no connection to a backend is leaked).                          *)
(***************************************************************************)
EveryoneFinishes ==
    <>[](pc = "returned" /\ Running = {} /\ \A c \in Calls : body[c] # "open")

(***************************************************************************)
(* The middleware returns the first successful response                    *)
(* (docs/OVERVIEW.md), and with the no-op encoding that response is the    *)
(* stream the router still has to copy: while the caller's context lives,  *)
(* it must not be closed.  It is: cancel() of concurrent.go:52 and :92     *)
(* ends the context that closeOnCancel (proxy.go:51-54) waits for.         *)
(***************************************************************************)
ReplyBodyIsOpen ==
    (pc = "returned" /\ ~parentDone /\ reply.resp # None) =>
        body[reply.resp] # "closed"
=============================================================================
