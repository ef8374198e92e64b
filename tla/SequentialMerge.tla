-------------------------- MODULE SequentialMerge ---------------------------
(***************************************************************************)
(* One request through sequentialMerge (proxy/merging.go): the backends are*)
(* called one after the other, values of earlier responses are propagated  *)
(* to later requests as params, and the first failure or incomplete        *)
(* response ends the sequence.                                             *)
(*                                                                         *)
(* A *Response is the backend that produced it: got[b] is what it held when*)
(* it arrived.  Its Data is a Go map, and combineData writes the later     *)
(* responses into the map of the first one, so a part reads its data       *)
(* through that shared map (DataOf).                                       *)
(***************************************************************************)
EXTENDS MergeAccumulator, FiniteSets

CONSTANTS Body,          \* the slot of a full response parameter, Resp<b>
          NoopBackends,  \* backends whose response has an Io stream
          Blank,         \* <<b, slot>>: b's value there is the empty string
          Replacements   \* sequentialReplacements, per backend

Slots == Keys \cup {Body}
Dests == Backends \X Slots    \* "Resp<b>_<key>" and "Resp<b>"

ASSUME SequentialAssumption ==
    /\ Body \notin Keys
    /\ NoopBackends \subseteq Backends
    /\ Blank \subseteq Dests
    /\ Replacements \in [Backends -> Seq([backend : Nat \ {0}, slot : Slots])]

VARIABLES
    pc,        \* "resolve", "filter", "calling", "deliver", "fail", "select",
               \* "result" or "returned"
    i,         \* the backend whose turn it is
    r,         \* next entry of Replacements[i]
    ctxDone,   \* localCtx is done
    outcome,   \* what became of each backend so far (history)
    got,       \* [Backends -> Response]
    parts,     \* the backends with parts[b] # nil
    out,       \* chan *Response, capacity 1
    errCh,     \* chan error, capacity 1
    params,    \* request.Params: whose value each destination holds
    registry,  \* sequentialMergeRegistry
    received,  \* params of the request each backend was called with (history)
    acc, reply

vars == <<pc, i, r, ctxDone, outcome, got, parts, out, errCh, params,
          registry, received, acc, reply>>
callVars  == <<got, out, errCh>>
paramVars == <<params, registry, received>>

NoParams == [d \in Dests |-> Nobody]

TypeOK ==
    /\ pc \in {"resolve", "filter", "calling", "deliver", "fail", "select",
               "result", "returned"}
    /\ i \in 1 .. NumBackends + 1 /\ r \in Nat \ {0}
    /\ ctxDone \in BOOLEAN
    /\ outcome \in [Backends -> {"none", "skipped", "delivered", "errored"}]
    /\ got \in [Backends -> Response]
    /\ parts \subseteq Backends
    /\ out \in Seq(Backends) /\ errCh \in Seq(Backends)
    /\ params \in [Dests -> Origin] /\ registry \in [Dests -> Origin]
    /\ received \in [Backends -> [Dests -> Origin]]
    /\ acc \in Accumulator /\ reply \in Reply

Init ==
    /\ pc = "resolve" /\ i = 1 /\ r = 1
    /\ ctxDone \in BOOLEAN
    /\ outcome = [b \in Backends |-> "none"]
    /\ got = [b \in Backends |-> NilResponse]
    /\ parts = {}
    /\ out = <<>> /\ errCh = <<>>
    /\ params = NoParams /\ registry = NoParams
    /\ received = [b \in Backends |-> NoParams]
    /\ acc = newIncrementalMergeAccumulator(NumBackends)
    /\ reply = NoReply

-----------------------------------------------------------------------------
(* Resolving the replacements of backend i.                                *)

\* A merger that looks every key up in the merged response.
DataOfMerged(b) == acc.data.data

\* parts[b].Data, read through the map it shares with the merged response.
DataOf(b) == IF acc.has /\ acc.data.owner = b THEN acc.data.data
                                             ELSE got[b].data

Replacing == pc = "resolve" /\ i > 1 /\ i <= NumBackends
                /\ r <= Len(Replacements[i])

Dest(x)      == <<x.backend, x.slot>>
Available(x) == x.backend < i /\ x.backend \in parts
Registered(d) == registry[d] # Nobody /\ <<registry[d], d[2]>> \notin Blank

\* A merger that does not remember what it resolved.
AssignForgetful(d, v) == /\ params' = [params EXCEPT ![d] = v]
                         /\ UNCHANGED registry

\* request.Params[destination] = v, and the registry with it
Assign(d, v) == /\ params' = [params EXCEPT ![d] = v]
                /\ registry' = [registry EXCEPT ![d] = v]

\* if found := sequentialMergeRegistry[destination]; found != ""
UseRegistry(d) == params' = [params EXCEPT ![d] = registry[d]]
                     /\ UNCHANGED registry

\* Only a stream that io.ReadAll reads to its end is propagated.
ReadBody(x) ==
    \/ /\ x.backend \in NoopBackends /\ outcome[x.backend] = "delivered"
       /\ Assign(Dest(x), x.backend)
    \/ UNCHANGED <<params, registry>>

ReadKey(x) ==
    IF DataOf(x.backend)[x.slot] = Nobody
    THEN UNCHANGED <<params, registry>>
    ELSE Assign(Dest(x), DataOf(x.backend)[x.slot])

Replace ==
    /\ Replacing
    /\ LET x == Replacements[i][r]
       IN  IF ~Available(x)             THEN UNCHANGED <<params, registry>>
           ELSE IF Registered(Dest(x))  THEN UseRegistry(Dest(x))
           ELSE IF x.slot = Body        THEN ReadBody(x)
           ELSE ReadKey(x)
    /\ r' = r + 1
    /\ UNCHANGED <<pc, i, ctxDone, outcome, parts, callVars, received, acc,
                   reply>>

\* A loop that runs one index too far.
ResolvedPastEnd ==
    /\ pc = "resolve" /\ ~Replacing
    /\ pc' = IF i > NumBackends + 1 THEN "result" ELSE "filter"
    /\ UNCHANGED <<i, r, ctxDone, outcome, parts, callVars, paramVars, acc,
                   reply>>

\* The loop over next ends after the last backend.
Resolved ==
    /\ pc = "resolve" /\ ~Replacing
    /\ pc' = IF i > NumBackends THEN "result" ELSE "filter"
    /\ UNCHANGED <<i, r, ctxDone, outcome, parts, callVars, paramVars, acc,
                   reply>>

-----------------------------------------------------------------------------
(* Filtering and calling backend i.                                        *)

\* A filtered backend counts as one that answered nothing.
SkipStillPending ==
    /\ pc = "filter"
    /\ outcome' = [outcome EXCEPT ![i] = "skipped"]
    /\ parts' = parts \cup {i}
    /\ pc' = "resolve" /\ i' = i + 1 /\ r' = 1
    /\ UNCHANGED <<ctxDone, callVars, paramVars, acc, reply>>

Skip ==
    /\ pc = "filter"
    /\ outcome' = [outcome EXCEPT ![i] = "skipped"]
    /\ parts' = parts \cup {i}
    /\ acc' = [acc EXCEPT !.pending = @ - 1]
    /\ pc' = "resolve" /\ i' = i + 1 /\ r' = 1
    /\ UNCHANGED <<ctxDone, callVars, paramVars, reply>>

\* sequentialRequestPart(localCtx, n, reqCloner(request), out, errCh)
Call ==
    /\ pc = "filter"
    /\ received' = [received EXCEPT ![i] = params]
    /\ pc' = "calling"
    /\ UNCHANGED <<i, r, ctxDone, outcome, parts, callVars, params, registry,
                   acc, reply>>

CallAnswers ==
    /\ pc = "calling"
    /\ \E res \in ResponsesOf(i) : got' = [got EXCEPT ![i] = res]
    /\ pc' = "deliver"
    /\ UNCHANGED <<i, r, ctxDone, outcome, parts, out, errCh, paramVars, acc,
                   reply>>

\* next() returns an error, or neither response nor error (errNullResult).
CallFails ==
    /\ pc = "calling"
    /\ pc' = "fail"
    /\ UNCHANGED <<i, r, ctxDone, outcome, parts, callVars, paramVars, acc,
                   reply>>

\* case out <- in
Deliver ==
    /\ pc = "deliver" /\ out = <<>>
    /\ out' = Append(out, i)
    /\ outcome' = [outcome EXCEPT ![i] = "delivered"]
    /\ pc' = "select"
    /\ UNCHANGED <<i, r, ctxDone, got, parts, errCh, paramVars, acc, reply>>

\* A part that drops its response when the context is done.
DeliverNothing ==
    /\ pc = "deliver" /\ ctxDone
    /\ pc' = "select"
    /\ UNCHANGED <<i, r, ctxDone, outcome, parts, callVars, paramVars, acc,
                   reply>>

\* case <-ctx.Done()
DeliverTooLate ==
    /\ pc = "deliver" /\ ctxDone
    /\ pc' = "fail"
    /\ UNCHANGED <<i, r, ctxDone, outcome, parts, callVars, paramVars, acc,
                   reply>>

SendError ==
    /\ pc = "fail" /\ errCh = <<>>
    /\ errCh' = Append(errCh, i)
    /\ outcome' = [outcome EXCEPT ![i] = "errored"]
    /\ pc' = "select"
    /\ UNCHANGED <<i, r, ctxDone, got, parts, out, paramVars, acc, reply>>

-----------------------------------------------------------------------------
(* Taking the report of backend i.                                         *)

\* An error of the first backend is returned as it is; a later one is merged
\* and ends the sequence.
TakeError ==
    /\ pc = "select" /\ errCh # <<>>
    /\ errCh' = Tail(errCh)
    /\ IF i = 1
       THEN /\ reply' = [NoReply EXCEPT !.errs = <<Head(errCh)>>]
            /\ pc' = "returned" /\ ctxDone' = TRUE
            /\ UNCHANGED acc
       ELSE /\ acc' = MergeError(acc, Head(errCh))
            /\ pc' = "result"
            /\ UNCHANGED <<ctxDone, reply>>
    /\ UNCHANGED <<i, r, outcome, got, parts, out, paramVars>>

\* An incomplete response is merged, but ends the sequence.
TakeResponse ==
    /\ pc = "select" /\ out # <<>>
    /\ out' = Tail(out)
    /\ acc' = MergeResponse(acc, got[Head(out)])
    /\ IF got[Head(out)].complete
       THEN /\ parts' = parts \cup {i}
            /\ pc' = "resolve" /\ i' = i + 1 /\ r' = 1
       ELSE pc' = "result" /\ UNCHANGED <<parts, i, r>>
    /\ UNCHANGED <<ctxDone, outcome, got, errCh, paramVars, reply>>

\* acc.Result(), cancel() and return
Return ==
    /\ pc = "result"
    /\ reply' = Result(acc)
    /\ pc' = "returned" /\ ctxDone' = TRUE
    /\ UNCHANGED <<i, r, outcome, parts, callVars, paramVars, acc>>

-----------------------------------------------------------------------------
\* The timeout fires or the caller cancels the parent context.
ContextDone ==
    /\ ~ctxDone
    /\ ctxDone' = TRUE
    /\ UNCHANGED <<pc, i, r, outcome, parts, callVars, paramVars, acc, reply>>

Finished == pc = "returned" /\ UNCHANGED vars

CallReturns == CallAnswers \/ CallFails
MergerStep  == Replace \/ Resolved \/ Skip \/ Call \/ Deliver \/ DeliverTooLate
                 \/ SendError \/ TakeError \/ TakeResponse \/ Return

Next == MergerStep \/ CallReturns \/ ContextDone \/ Finished

\* The timer fires, and next() returns once its context is done.
Fairness ==
    /\ WF_vars(MergerStep)
    /\ WF_vars(ContextDone)
    /\ WF_vars(ctxDone /\ CallReturns)

Spec == Init /\ [][Next]_vars /\ Fairness

-----------------------------------------------------------------------------
(* Properties                                                              *)

(***************************************************************************)
(* The abort rule (merging.go:417-431): a backend is called only when every*)
(* earlier one was filtered out or answered with a complete response, and  *)
(* the two channels of capacity 1 are empty then, so that no send of its   *)
(* own can block and no report of an earlier backend is taken for its own. *)
(***************************************************************************)
CalledInGoodOrder ==
    pc = "calling" =>
        /\ out = <<>> /\ errCh = <<>>
        /\ \A b \in 1 .. i - 1 :
              \/ outcome[b] = "skipped"
              \/ outcome[b] = "delivered" /\ got[b].complete

(***************************************************************************)
(* A propagated param holds a value of a backend that was called earlier   *)
(* and answered completely, and a full response param holds the body of    *)
(* the very backend it names (merging.go:333-405).  It is never a value of *)
(* a filtered, failed or later backend.                                    *)
(***************************************************************************)
ParamsHaveASource ==
    \A b \in Backends, d \in Dests :
        LET v == received[b][d]
        IN  v # Nobody =>
              /\ d[1] <= v /\ v < b
              /\ outcome[v] = "delivered" /\ got[v].complete
              /\ IF d[2] = Body THEN v = d[1] ELSE got[v].data[d[2]] = v

(***************************************************************************)
(* The safety of the sequential merger: every call follows complete        *)
(* responses only, and hands on values that those responses hold.          *)
(***************************************************************************)
SequentialSafety == CalledInGoodOrder /\ ParamsHaveASource

(***************************************************************************)
(* What a later backend receives under a name is what an earlier backend   *)
(* received under it, unless that was blank: the registry pins a param the *)
(* first time it is resolved (merging.go:356-359, 405).                    *)
(***************************************************************************)
ParamsNeverChange ==
    [][\A d \in Dests : params[d] # Nobody /\ <<params[d], d[2]>> \notin Blank
                           => params'[d] = params[d]]_vars

(***************************************************************************)
(* Resp<b>_<key> is the value backend b answered under key, as the tests of*)
(* the sequential merger expect of every backend in the chain.             *)
(***************************************************************************)
ParamsAreTheNamedBackends ==
    \A b \in Backends, d \in Dests :
        received[b][d] \in {Nobody, d[1]}

(***************************************************************************)
(* The caller always gets its reply, even if a backend never answers before*)
(* the timeout.                                                            *)
(***************************************************************************)
AlwaysReturns == <>(pc = "returned")

-----------------------------------------------------------------------------
\* The contract this merger implements.
outcomeBar ==
    [b \in Backends |->
        [kind |-> CASE outcome[b] = "skipped"   -> "skipped"
                    [] outcome[b] = "errored"   -> "failed"
                    [] outcome[b] = "delivered" -> "answered"
                    [] OTHER                    -> "pending",
         resp |-> IF outcome[b] = "delivered" THEN got[b] ELSE NilResponse]]

Contract == INSTANCE MergeContract WITH outcome  <- outcomeBar,
                                        returned <- (pc = "returned")

(***************************************************************************)
(* sequentialMerge implements the merging contract: its reply is the one   *)
(* the outcomes of its backends justify, and it leaves backends untried    *)
(* only after a failure or an incomplete response.                         *)
(***************************************************************************)
ImplementsContract == Contract!ContractSpec
=============================================================================
