--------------------------- MODULE ParallelMerge ----------------------------
(***************************************************************************)
(* One request through parallelMerge (proxy/merging.go): the merger's own  *)
(* goroutine filters the backends and spawns one requestPart goroutine for *)
(* each one kept, the parts report on two buffered channels, and the merger*)
(* takes as many reports as there are parts and folds them into an         *)
(* accumulator.  The context ends when its timeout fires or the client goes*)
(* away, at any moment of this.                                            *)
(*                                                                         *)
(* A *Response and an error are pointers: the channels hold the backend    *)
(* that sent them, got[b] the response behind the pointer.                 *)
(***************************************************************************)
EXTENDS MergeAccumulator, FiniteSets

VARIABLES
    pc,          \* the merger: "launch", "collect" or "returned"
    i,           \* next backend the launch loop looks at
    proxyCount,  \* parts to wait for
    ctxDone,     \* localCtx is done (timeout, parent or cancel())
    part,        \* [Backends -> PartState], the requestPart goroutines
    got,         \* [Backends -> Response], what next() returned to each part
    parts,       \* chan *Response, capacity len(next)
    failed,      \* chan error, capacity len(next)
    collected,   \* iterations of the collect loop so far
    acc,         \* the accumulator
    reply        \* (*Response, error) returned to the caller

mergerVars == <<pc, i, proxyCount, collected, acc, reply>>
vars == <<pc, i, proxyCount, ctxDone, part, got, parts, failed, collected,
          acc, reply>>

\* none: not looked at yet; skipped: filtered out; calling: inside next();
\* deliver, fail: about to send on parts or failed; delivered, errored: sent.
PartState == {"none", "skipped", "calling", "deliver", "fail",
              "delivered", "errored"}

\* Channels one short: the merger "could" take the last report at once.
ChanCapShort == NumBackends - 1

\* make(chan ..., proxyCount), before the filters lower proxyCount
ChanCap == NumBackends

In(states) == {b \in Backends : part[b] \in states}

TypeOK ==
    /\ pc \in {"launch", "collect", "returned"}
    /\ i \in 1 .. NumBackends + 1
    /\ proxyCount \in 0 .. NumBackends
    /\ ctxDone \in BOOLEAN
    /\ part \in [Backends -> PartState]
    /\ got \in [Backends -> Response]
    /\ parts \in Seq(Backends) /\ failed \in Seq(Backends)
    /\ collected \in 0 .. NumBackends
    /\ acc \in Accumulator
    /\ reply \in Reply

Init ==
    /\ pc = "launch" /\ i = 1
    /\ proxyCount = NumBackends
    /\ ctxDone \in BOOLEAN
    /\ part = [b \in Backends |-> "none"]
    /\ got = [b \in Backends |-> NilResponse]
    /\ parts = <<>> /\ failed = <<>>
    /\ collected = 0
    /\ acc = newIncrementalMergeAccumulator(0)
    /\ reply = NoReply

-----------------------------------------------------------------------------
(* The merger's goroutine.                                                 *)

\* filters[i] rejects the request.
Skip ==
    /\ pc = "launch" /\ i <= NumBackends
    /\ part' = [part EXCEPT ![i] = "skipped"]
    /\ proxyCount' = proxyCount - 1
    /\ i' = i + 1
    /\ UNCHANGED <<pc, ctxDone, got, parts, failed, collected, acc, reply>>

\* A launch loop that runs one index too far.
LaunchPastEnd ==
    /\ pc = "launch" /\ i <= NumBackends + 1
    /\ part' = [part EXCEPT ![i] = "calling"]
    /\ i' = i + 1
    /\ UNCHANGED <<pc, proxyCount, ctxDone, got, parts, failed, collected, acc,
                   reply>>

\* go requestPart(localCtx, n, reqCloner(request), parts, failed)
Launch ==
    /\ pc = "launch" /\ i <= NumBackends
    /\ part' = [part EXCEPT ![i] = "calling"]
    /\ i' = i + 1
    /\ UNCHANGED <<pc, proxyCount, ctxDone, got, parts, failed, collected, acc,
                   reply>>

StartCollect ==
    /\ pc = "launch" /\ i > NumBackends
    /\ pc' = "collect"
    /\ acc' = newIncrementalMergeAccumulator(proxyCount)
    /\ UNCHANGED <<i, proxyCount, ctxDone, part, got, parts, failed, collected,
                   reply>>

\* case err := <-failed
CollectError ==
    /\ pc = "collect" /\ collected < proxyCount
    /\ failed # <<>>
    /\ acc' = MergeError(acc, Head(failed))
    /\ failed' = Tail(failed)
    /\ collected' = collected + 1
    /\ UNCHANGED <<pc, i, proxyCount, ctxDone, part, got, parts, reply>>

\* case response := <-parts
CollectResponse ==
    /\ pc = "collect" /\ collected < proxyCount
    /\ parts # <<>>
    /\ acc' = MergeResponse(acc, got[Head(parts)])
    /\ parts' = Tail(parts)
    /\ collected' = collected + 1
    /\ UNCHANGED <<pc, i, proxyCount, ctxDone, part, got, failed, reply>>

\* acc.Result(), cancel() and return
Return ==
    /\ pc = "collect" /\ collected = proxyCount
    /\ reply' = Result(acc)
    /\ pc' = "returned"
    /\ ctxDone' = TRUE
    /\ UNCHANGED <<i, proxyCount, part, got, parts, failed, collected, acc>>

-----------------------------------------------------------------------------
(* A requestPart goroutine.                                                *)

\* next() returns a response, in time or late.
CallAnswers(b) ==
    /\ part[b] = "calling"
    /\ \E r \in ResponsesOf(b) : got' = [got EXCEPT ![b] = r]
    /\ part' = [part EXCEPT ![b] = "deliver"]
    /\ UNCHANGED <<mergerVars, ctxDone, parts, failed>>

\* next() returns an error, or neither response nor error (errNullResult).
CallFails(b) ==
    /\ part[b] = "calling"
    /\ part' = [part EXCEPT ![b] = "fail"]
    /\ UNCHANGED <<mergerVars, ctxDone, got, parts, failed>>

\* case out <- in
Deliver(b) ==
    /\ part[b] = "deliver" /\ Len(parts) < ChanCap
    /\ parts' = Append(parts, b)
    /\ part' = [part EXCEPT ![b] = "delivered"]
    /\ UNCHANGED <<mergerVars, ctxDone, got, failed>>

\* A part that drops its response when the context is done.
DeliverNothing(b) ==
    /\ part[b] = "deliver" /\ ctxDone
    /\ part' = [part EXCEPT ![b] = "errored"]
    /\ UNCHANGED <<mergerVars, ctxDone, got, parts, failed>>

\* case <-ctx.Done(): taken even when parts has room, if both are ready.
DeliverTooLate(b) ==
    /\ part[b] = "deliver" /\ ctxDone
    /\ part' = [part EXCEPT ![b] = "fail"]
    /\ UNCHANGED <<mergerVars, ctxDone, got, parts, failed>>

\* failed <- err
SendError(b) ==
    /\ part[b] = "fail" /\ Len(failed) < ChanCap
    /\ failed' = Append(failed, b)
    /\ part' = [part EXCEPT ![b] = "errored"]
    /\ UNCHANGED <<mergerVars, ctxDone, got, parts>>

-----------------------------------------------------------------------------
\* The timeout fires or the caller cancels the parent context.
ContextDone ==
    /\ ~ctxDone
    /\ ctxDone' = TRUE
    /\ UNCHANGED <<mergerVars, part, got, parts, failed>>

\* Nothing is left to do: the merger returned and no goroutine remains.
Finished ==
    /\ pc = "returned" /\ In({"calling", "deliver", "fail"}) = {}
    /\ UNCHANGED vars

MergerStep  == Skip \/ Launch \/ StartCollect \/ CollectError
                 \/ CollectResponse \/ Return
CallReturns(b) == CallAnswers(b) \/ CallFails(b)
PartSends(b)   == Deliver(b) \/ DeliverTooLate(b) \/ SendError(b)

Next ==
    \/ MergerStep
    \/ \E b \in Backends : CallReturns(b) \/ PartSends(b)
    \/ ContextDone
    \/ Finished

(***************************************************************************)
(* Goroutines are scheduled fairly, the timer of context.WithTimeout fires,*)
(* and next() returns once its context is done (the HTTP client and the    *)
(* middlewares below it honour the context).  Nothing is assumed of a      *)
(* backend before the deadline.                                            *)
(***************************************************************************)
Fairness ==
    /\ WF_vars(MergerStep)
    /\ WF_vars(ContextDone)
    /\ \A b \in Backends : /\ WF_vars(PartSends(b))
                           /\ WF_vars(ctxDone /\ CallReturns(b))

Spec == Init /\ [][Next]_vars /\ Fairness

-----------------------------------------------------------------------------
(* Properties                                                              *)

(***************************************************************************)
(* No requestPart ever blocks on a send: the capacity len(next) of each    *)
(* channel is enough whatever the mix of answers, errors and timeouts      *)
(* (merging.go:285-286, 491, 496, 501, 503).                               *)
(***************************************************************************)
SendsNeverBlock ==
    \A b \in Backends :
        /\ part[b] = "deliver" => Len(parts) < ChanCap
        /\ part[b] = "fail"    => Len(failed) < ChanCap

(***************************************************************************)
(* Every report is in exactly one place: what the parts have sent is what  *)
(* is in the channels plus what the collect loop has taken.                *)
(***************************************************************************)
ReportsConserved ==
    /\ Len(failed) + Len(acc.errs) = Cardinality(In({"errored"}))
    /\ Len(parts) + Len(failed) + collected
          = Cardinality(In({"delivered", "errored"}))

(***************************************************************************)
(* parallelMerge returns only after every backend it launched has reported:*)
(* no response can arrive after the reply, and no goroutine outlives it    *)
(* but for its own cancel() (merging.go:296-308).                          *)
(***************************************************************************)
ReturnsAfterLastReport ==
    pc = "returned" =>
        /\ In({"none", "calling", "deliver", "fail"}) = {}
        /\ parts = <<>> /\ failed = <<>>

(***************************************************************************)
(* A reply marked complete vouches for every backend not filtered out: each*)
(* one answered, with a complete response.  The router caches complete     *)
(* replies, so a false claim here would be served to other clients.        *)
(***************************************************************************)
CompleteReplyIsTrue ==
    (pc = "returned" /\ reply.has /\ reply.data.complete) =>
        /\ reply.errs = <<>>
        /\ In({"errored"}) = {}
        /\ \A b \in In({"delivered"}) : got[b].complete

(***************************************************************************)
(* The middleware answers (nil, nil) exactly when the filters rejected     *)
(* every backend (merging.go:289-292, 476-477): the callers' nil checks    *)
(* have that one case to handle.                                           *)
(***************************************************************************)
NilNilOnlyIfAllSkipped ==
    pc = "returned" => (~reply.has /\ reply.errs = <<>>
                           <=> In({"skipped"}) = Backends)

(***************************************************************************)
(* The safety of the merger: no send blocks, no report is lost or comes    *)
(* late, and neither a complete reply nor (nil, nil) claims more than the  *)
(* backends' outcomes justify (merging.go:270-310).                        *)
(***************************************************************************)
MergerSafety ==
    /\ SendsNeverBlock /\ ReportsConserved /\ ReturnsAfterLastReport
    /\ CompleteReplyIsTrue /\ NilNilOnlyIfAllSkipped

(***************************************************************************)
(* The flag of the accumulated response is never raised again once it has  *)
(* been lowered, and merged data never loses a key (merging.go:455-473).   *)
(***************************************************************************)
MergeIsMonotone ==
    [][acc.has => /\ acc'.has
                  /\ acc'.data.complete => acc.data.complete
                  /\ \A k \in Keys : acc.data.data[k] # Nobody
                                        => acc'.data.data[k] # Nobody]_vars

(***************************************************************************)
(* The caller always gets its reply and every goroutine ends, even if no   *)
(* backend answers before the timeout.                                     *)
(***************************************************************************)
EveryoneFinishes ==
    <>(pc = "returned" /\ In({"calling", "deliver", "fail"}) = {})

-----------------------------------------------------------------------------
(* The contract this merger implements.                                    *)

outcomeBar ==
    [b \in Backends |->
        [kind |-> CASE part[b] = "skipped"   -> "skipped"
                    [] part[b] = "errored"   -> "failed"
                    [] part[b] = "delivered" -> "answered"
                    [] OTHER                 -> "pending",
         resp |-> IF part[b] = "delivered" THEN got[b] ELSE NilResponse]]

Contract == INSTANCE MergeContract WITH outcome  <- outcomeBar,
                                        returned <- (pc = "returned")

(***************************************************************************)
(* parallelMerge implements the merging contract: its reply is the one the *)
(* outcomes of its backends justify, whatever the order they reported in.  *)
(***************************************************************************)
ImplementsContract == Contract!ContractSpec
=============================================================================
