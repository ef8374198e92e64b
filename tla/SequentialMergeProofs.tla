------------------------ MODULE SequentialMergeProofs -----------------------
(***************************************************************************)
(* Proofs about SequentialMerge, for any number of backends, any keys and  *)
(* any params, and about the lookup of a param's value (SequentialParams). *)
(*                                                                         *)
(* The argument is one of order: the backends before i have answered with a*)
(* complete response or were filtered out, those after it are untouched,   *)
(* and what any param or the accumulator holds comes from the former.      *)
(***************************************************************************)
EXTENDS SequentialMerge, MergeAccumulatorProofs, SequentialParams, SequenceTheorems,
        WellFoundedInduction

(***************************************************************************)
(* The inductive invariant.                                                *)
(***************************************************************************)
Over == pc \in {"result", "returned"}

\* Where the loop stands, and what it leaves behind and ahead of it.
OrderInv ==
    /\ pc \in {"filter", "calling", "deliver", "fail", "select"} => i <= NumBackends
    /\ parts = 1 .. i - 1
    /\ \A b \in 1 .. i - 1 : \/ outcome[b] = "skipped"
                             \/ outcome[b] = "delivered" /\ got[b].complete
    /\ \A b \in Backends :
          b > i \/ (b = i /\ ~Over /\ pc # "select") => outcome[b] = "none"

\* A report is in its channel while the loop selects, and nowhere before or after.
ReportInv ==
    /\ pc # "select" => out = <<>> /\ errCh = <<>>
    /\ pc = "select" =>
          \/ outcome[i] = "delivered" /\ out = <<i>> /\ errCh = <<>>
          \/ outcome[i] = "errored" /\ out = <<>> /\ errCh = <<i>>

\* The backends whose response was merged.
Merged == {b \in Backends : outcome[b] = "delivered"
                               /\ ~(pc = "select" /\ b = i)}

\* What the backends answered, and what the accumulator made of it.  The map
\* that combineData writes to is the one of the first response that has one.
AnswerInv ==
    /\ \A b \in Backends :
          /\ outcome[b] = "delivered" \/ (pc = "deliver" /\ b = i)
                => got[b] \in ResponsesOf(b)
          /\ outcome[b] = "skipped" \/ b > i \/ (pc \in {"resolve", "filter"} /\ b = i)
                => got[b] = NilResponse
    /\ Folded(acc, Merged, got)
    /\ acc.data.owner <= i
    /\ \A k \in Keys : acc.data.data[k] # Nobody =>
          acc.data.hasMap /\ acc.data.owner <= acc.data.data[k]

\* v is a value that may be handed on as the param d.
HasSource(d, v) ==
    /\ d[1] <= v
    /\ outcome[v] = "delivered" /\ got[v].complete
    /\ IF d[2] = Body THEN v = d[1] ELSE got[v].data[d[2]] = v

\* The registry mirrors the params, and these come from earlier backends.
ParamInv ==
    /\ registry = params
    /\ \A d \in Dests : params[d] # Nobody =>
          params[d] < i /\ HasSource(d, params[d])
    /\ \A b \in Backends, d \in Dests : received[b][d] # Nobody =>
          b <= i /\ received[b][d] < b /\ HasSource(d, received[b][d])

IInv == TypeOK /\ OrderInv /\ ReportInv /\ AnswerInv /\ ParamInv

(***************************************************************************)
(* What the contract needs besides: how the loop came to its end.          *)
(***************************************************************************)
EndInv ==
    /\ ~Over => acc.errs = <<>>
    /\ ~Over \/ i > NumBackends => acc.pending = NumBackends + 1 - i
    /\ pc = "result" =>
          \/ i > NumBackends /\ acc.errs = <<>>
          \/ i <= NumBackends /\ outcome[i] = "errored" /\ acc.errs = <<i>>
          \/ /\ i <= NumBackends /\ outcome[i] = "delivered"
             /\ ~got[i].complete /\ acc.errs = <<>>

CInv == IInv /\ EndInv

-----------------------------------------------------------------------------
(* Lemmas that the actions share.                                          *)

\* The types of what the actions compute with.
LEMMA Types ==
    ASSUME TypeOK
    PROVE  /\ i \in Int /\ 1 <= i /\ i <= NumBackends + 1
           /\ acc.data \in Response /\ acc.errs \in Seq(Backends)
           /\ acc.pending \in Int /\ acc.has \in BOOLEAN
           /\ acc.data.owner \in Origin
           /\ \A d \in Dests : params[d] \in Origin
           /\ \A v \in Origin : v # Nobody <=> v \in Backends
           /\ Nobody \in Origin /\ Nobody = 0
           /\ \A b \in Backends : b \in Origin /\ b \in Int /\ b >= 1
BY NumBackendsAssumption
   DEF TypeOK, Accumulator, Response, Origin, Nobody, Backends

\* What an answer of backend b holds.
LEMMA AnswerHolds ==
    ASSUME NEW b \in Backends, NEW x \in ResponsesOf(b)
    PROVE  /\ x \in Response /\ x.owner \in {Nobody, b} /\ x.meta = b
           /\ x.hasMap \/ \A k \in Keys : x.data[k] = Nobody
           /\ \A k \in Keys : x.data[k] \in {Nobody, b}
BY ResponsesType DEF ResponsesOf, NoData

\* Params keep their source as long as the backends before i keep what they
\* answered.
LEMMA ParamsKept ==
    ASSUME TypeOK, ParamInv, UNCHANGED paramVars,
           i' \in Int, i <= i',
           \A v \in Backends : v < i => outcome'[v] = outcome[v] /\ got'[v] = got[v]
    PROVE  ParamInv'
<1>1. \A d \in Dests : params[d] # Nobody =>
          /\ params[d] < i' /\ params[d] \in Backends /\ params[d] < i
          /\ HasSource(d, params[d])
  BY Types DEF ParamInv
<1>2. \A b \in Backends, d \in Dests : received[b][d] # Nobody =>
          /\ received[b][d] \in Backends /\ received[b][d] < i
          /\ b <= i' /\ received[b][d] < b /\ HasSource(d, received[b][d])
  <2> SUFFICES ASSUME NEW b \in Backends, NEW d \in Dests, received[b][d] # Nobody
               PROVE  /\ received[b][d] \in Backends /\ received[b][d] < i
                      /\ b <= i' /\ received[b][d] < b
                      /\ HasSource(d, received[b][d])
    OBVIOUS
  <2>1. received[b][d] \in Origin
    BY DEF TypeOK
  <2>2. b <= i /\ received[b][d] < b /\ HasSource(d, received[b][d])
    BY DEF ParamInv
  <2> QED
    BY <2>1, <2>2, Types
<1> QED
  BY <1>1, <1>2 DEF ParamInv, HasSource, paramVars

\* A step that settles no backend and merges nothing keeps what was answered.
LEMMA AnswersKept ==
    ASSUME TypeOK, AnswerInv, UNCHANGED <<i, outcome, got, acc>>,
           Merged' = Merged,
           pc' = "deliver" => pc = "deliver",
           pc' \in {"resolve", "filter"} => pc \in {"resolve", "filter"}
    PROVE  AnswerInv'
BY DEF AnswerInv

-----------------------------------------------------------------------------
(* The inductive invariant: it holds initially and every action keeps it.  *)

\* The initial states satisfy the inductive invariant.
LEMMA InitInv == Init => CInv
<1> SUFFICES ASSUME Init PROVE CInv
  OBVIOUS
<1>1. TypeOK
  <2>1. acc \in Accumulator /\ reply \in Reply
    BY NewAccType, NilType, NumBackendsAssumption DEF Init
  <2>2. got \in [Backends -> Response]
    BY NilType DEF Init
  <2>3. NoParams \in [Dests -> Origin]
    BY NumBackendsAssumption DEF NoParams, Origin, Nobody
  <2>4. i \in 1 .. NumBackends + 1
    BY NumBackendsAssumption DEF Init
  <2> QED
    BY <2>1, <2>2, <2>3, <2>4 DEF Init, TypeOK
<1>2. OrderInv
  BY NumBackendsAssumption DEF Init, OrderInv, Backends
<1>3. ReportInv
  BY DEF Init, ReportInv
<1>4. Merged = {}
  BY DEF Init, Merged
<1>5. AnswerInv
  <2>1. Folded(acc, Merged, got)
    BY <1>4, FoldedNew DEF Init
  <2>2. /\ acc.data.owner = Nobody /\ \A k \in Keys : acc.data.data[k] = Nobody
        /\ acc.errs = <<>> /\ acc.pending = NumBackends
    BY DEF Init, newIncrementalMergeAccumulator, NilResponse, NoData
  <2> QED
    BY <2>1, <2>2 DEF Init, AnswerInv, Nobody
<1>6. ParamInv
  BY DEF Init, ParamInv, NoParams
<1>7. EndInv
  BY NumBackendsAssumption DEF Init, EndInv, newIncrementalMergeAccumulator, Over
<1> QED
  BY <1>1, <1>2, <1>3, <1>5, <1>6, <1>7 DEF IInv, CInv

\* Assigning a value with a source to a param keeps the invariant.
LEMMA AssignKeeps ==
    ASSUME IInv, Replacing, NEW d \in Dests, NEW v \in Backends,
           Assign(d, v), v < i, HasSource(d, v)
    PROVE  /\ registry' = params' /\ params' \in [Dests -> Origin]
           /\ \A e \in Dests : params'[e] # Nobody =>
                 params'[e] < i /\ HasSource(e, params'[e])
BY Types DEF IInv, TypeOK, ParamInv, Assign

\* The value that a replacement finds in the response of an earlier backend
\* was answered by that backend or by a later one whose response was merged
\* into the same map.
LEMMA FoundHasSource ==
    ASSUME IInv, Replacing, NEW b \in Backends, b \in parts, NEW k \in Keys,
           DataOf(b)[k] # Nobody
    PROVE  /\ DataOf(b)[k] \in Backends /\ DataOf(b)[k] < i
           /\ HasSource(<<b, k>>, DataOf(b)[k])
<1> USE DEF IInv
<1> DEFINE v == DataOf(b)[k]
<1>1. b < i /\ pc = "resolve"
  BY Types DEF OrderInv, Replacing
<1>2. k # Body
  BY SequentialAssumption
<1>3. ASSUME NEW w \in Backends, outcome[w] = "delivered"
      PROVE  w < i /\ got[w].complete /\ got[w] \in ResponsesOf(w)
  <2>1. outcome[w] # "none" /\ outcome[w] # "skipped"
    BY <1>3
  <2>2. ~(w > i \/ w = i)
    BY <1>1, <2>1 DEF OrderInv, Over
  <2>3. w \in 1 .. i - 1
    BY <2>2, Types
  <2> QED
    BY <1>3, <2>3, Types DEF OrderInv, AnswerInv
<1>4. CASE acc.has /\ acc.data.owner = b
  <2>1. v = acc.data.data[k]
    BY <1>4 DEF DataOf
  <2>2. v \in OfferedBy(Merged, got, k)
    BY <2>1 DEF AnswerInv, Folded
  <2>3. v \in Backends /\ outcome[v] = "delivered" /\ got[v].data[k] # Nobody
    BY <2>2 DEF OfferedBy, Merged
  <2>4. v < i /\ got[v].complete /\ got[v].data[k] = v
    BY <1>3, <2>3, AnswerHolds
  <2>5. b <= v
    BY <1>4, <2>1 DEF AnswerInv
  <2> QED
    BY <1>2, <2>3, <2>4, <2>5 DEF HasSource
<1>5. CASE ~(acc.has /\ acc.data.owner = b)
  <2>1. v = got[b].data[k]
    BY <1>5 DEF DataOf
  <2>2. got[b] # NilResponse
    BY <2>1 DEF NilResponse, NoData
  <2>3. outcome[b] = "delivered"
    BY <1>1, <2>2, Types DEF OrderInv, AnswerInv
  <2>4. got[b].complete /\ v = b
    BY <1>3, <2>1, <2>3, AnswerHolds
  <2>5. HasSource(<<b, k>>, b)
    <3>1. got[b].data[k] = b /\ b <= b
      BY <2>1, <2>4, Types
    <3> QED
      BY <1>2, <2>3, <2>4, <3>1 DEF HasSource
  <2> QED
    BY <1>1, <2>4, <2>5
<1> QED
  BY <1>4, <1>5

\* Resolving one replacement keeps the invariant.
LEMMA ReplaceInv == IInv /\ Replace => IInv'
<1> SUFFICES ASSUME IInv, Replace PROVE IInv'
  OBVIOUS
<1> USE DEF IInv
<1>1. /\ Replacing /\ pc = "resolve" /\ i \in Backends /\ r \in Nat \ {0}
      /\ r <= Len(Replacements[i])
  BY NumBackendsAssumption DEF Replace, Replacing, TypeOK, Backends
<1> DEFINE x == Replacements[i][r]
           d == Dest(x)
<1>2. x \in [backend : Nat \ {0}, slot : Slots]
  <2>1. Replacements[i] \in Seq([backend : Nat \ {0}, slot : Slots])
    BY <1>1, SequentialAssumption
  <2>2. r \in 1 .. Len(Replacements[i])
    BY <1>1, <2>1
  <2>3. \A S : \A q \in Seq(S) : \A j \in 1 .. Len(q) : q[j] \in S
    OBVIOUS
  <2> QED
    BY <2>1, <2>2, <2>3
<1>3. /\ registry' = params' /\ params' \in [Dests -> Origin]
      /\ \A e \in Dests : params'[e] # Nobody =>
            params'[e] < i /\ HasSource(e, params'[e])
  <2>1. CASE UNCHANGED <<params, registry>>
    BY <2>1 DEF ParamInv, TypeOK
  <2>2. CASE Available(x)
    <3>1. x.backend \in Backends /\ x.backend < i /\ d \in Dests
      BY <1>2, <2>2 DEF Available, TypeOK, Dest, Dests
    <3>2. CASE Registered(d) /\ UseRegistry(d)
      <4>1. params' = params /\ registry' = registry
        BY <3>1, <3>2 DEF UseRegistry, ParamInv, TypeOK
      <4> QED
        BY <4>1, <2>1
    <3>3. CASE x.slot = Body /\ ReadBody(x)
      <4>1. CASE outcome[x.backend] = "delivered" /\ Assign(d, x.backend)
        <5>1. HasSource(d, x.backend)
          BY <3>1, <3>3, <4>1, Types DEF OrderInv, HasSource, Dest
        <5> QED
          BY <1>1, <3>1, <4>1, <5>1, AssignKeeps
      <4> QED
        BY <2>1, <3>3, <4>1 DEF ReadBody
    <3>4. CASE x.slot # Body /\ ReadKey(x)
      <4>1. x.slot \in Keys /\ x.backend \in parts
        BY <1>2, <2>2, <3>4 DEF Slots, Available
      <4>2. CASE DataOf(x.backend)[x.slot] # Nobody
        <5>1. Assign(d, DataOf(x.backend)[x.slot])
          BY <3>4, <4>2 DEF ReadKey
        <5>2. d = <<x.backend, x.slot>>
          BY DEF Dest
        <5>3. /\ DataOf(x.backend)[x.slot] \in Backends
              /\ DataOf(x.backend)[x.slot] < i
              /\ HasSource(d, DataOf(x.backend)[x.slot])
          BY <1>1, <3>1, <4>1, <4>2, <5>2, FoundHasSource
        <5> QED
          BY <1>1, <3>1, <5>1, <5>3, AssignKeeps
      <4>3. CASE DataOf(x.backend)[x.slot] = Nobody
        BY <2>1, <3>4, <4>3 DEF ReadKey
      <4> QED
        BY <4>2, <4>3
    <3> QED
      BY <2>2, <3>2, <3>3, <3>4 DEF Replace
  <2> QED
    BY <2>1, <2>2 DEF Replace
<1>4. /\ r' = r + 1
      /\ UNCHANGED <<pc, i, ctxDone, outcome, parts, got, out, errCh, received,
                     acc, reply>>
  BY DEF Replace, callVars
<1>5. TypeOK'
  BY <1>3, <1>4 DEF TypeOK
<1>6. OrderInv' /\ ReportInv'
  BY <1>4 DEF OrderInv, ReportInv, Over
<1>7. AnswerInv'
  BY <1>4, AnswersKept DEF Merged
<1>8. ParamInv'
  BY <1>3, <1>4 DEF ParamInv, HasSource
<1> QED
  BY <1>5, <1>6, <1>7, <1>8

\* The end of the replacements of a backend, or of the backends.
LEMMA ResolvedInv == IInv /\ Resolved => IInv'
<1> SUFFICES ASSUME IInv, Resolved PROVE IInv'
  OBVIOUS
<1> USE DEF IInv, callVars
<1>1. /\ pc = "resolve"
      /\ pc' = IF i > NumBackends THEN "result" ELSE "filter"
      /\ UNCHANGED <<i, r, ctxDone, outcome, parts, got, out, errCh, paramVars,
                     acc, reply>>
  BY DEF Resolved
<1>2. TypeOK'
  BY <1>1 DEF TypeOK, paramVars
<1>3. OrderInv'
  <2>1. \A b \in Backends : b > i \/ b = i => outcome[b] = "none"
    BY <1>1 DEF OrderInv, Over
  <2>2. pc' \in {"filter", "calling", "deliver", "fail", "select"}
           => i <= NumBackends
    BY <1>1, Types, NumBackendsAssumption
  <2> QED
    BY <1>1, <2>1, <2>2 DEF OrderInv
<1>4. ReportInv'
  BY <1>1 DEF ReportInv
<1>5. AnswerInv'
  BY <1>1, AnswersKept DEF Merged
<1>6. ParamInv'
  BY <1>1, Types, ParamsKept
<1> QED
  BY <1>2, <1>3, <1>4, <1>5, <1>6

\* A filter that rejects the backend.
LEMMA SkipInv == IInv /\ Skip => IInv'
<1> SUFFICES ASSUME IInv, Skip PROVE IInv'
  OBVIOUS
<1> USE DEF IInv, callVars
<1>1. /\ pc = "filter" /\ i \in Backends /\ outcome[i] = "none"
      /\ outcome' = [outcome EXCEPT ![i] = "skipped"]
      /\ parts' = parts \cup {i} /\ acc' = [acc EXCEPT !.pending = @ - 1]
      /\ pc' = "resolve" /\ i' = i + 1 /\ r' = 1
      /\ UNCHANGED <<ctxDone, got, out, errCh, paramVars, reply>>
      /\ i \in 1 .. NumBackends
  BY NumBackendsAssumption DEF Skip, TypeOK, OrderInv, Backends, Over
<1>2. acc' \in Accumulator /\ acc'.has = acc.has /\ acc'.data = acc.data
         /\ acc'.errs = acc.errs
  <2>1. acc \in Accumulator /\ acc.pending - 1 \in Int
    BY Types DEF TypeOK
  <2> QED
    BY <1>1, <2>1 DEF Accumulator
<1>3. TypeOK'
  <2>1. i' \in 1 .. NumBackends + 1
    BY <1>1, NumBackendsAssumption
  <2> QED
    BY <1>1, <1>2, <2>1 DEF TypeOK, paramVars
<1>4. /\ outcome'[i] = "skipped"
      /\ \A b \in Backends : b # i => outcome'[b] = outcome[b]
  BY <1>1 DEF TypeOK
<1>5. OrderInv'
  <2>1. parts' = 1 .. i' - 1
    BY <1>1, Types DEF OrderInv
  <2>2. ASSUME NEW b \in 1 .. i' - 1
        PROVE  \/ outcome'[b] = "skipped"
               \/ outcome'[b] = "delivered" /\ got'[b].complete
    <3>1. b \in Backends /\ (b = i \/ b \in 1 .. i - 1)
      BY <1>1, <2>2, NumBackendsAssumption DEF Backends
    <3> QED
      BY <1>1, <1>4, <3>1 DEF OrderInv
  <2>3. ASSUME NEW b \in Backends, b > i' \/ b = i'
        PROVE  outcome'[b] = "none"
    <3>1. b > i
      BY <1>1, <2>3, Types
    <3> QED
      BY <1>4, <3>1, Types DEF OrderInv
  <2> QED
    BY <1>1, <2>1, <2>2, <2>3 DEF OrderInv, Over
<1>6. ReportInv'
  BY <1>1 DEF ReportInv
<1>7. AnswerInv'
  <2>1. Merged' = Merged
    BY <1>1, <1>4 DEF Merged
  <2>2. Folded(acc', Merged', got')
    BY <1>1, <1>2, <2>1 DEF AnswerInv, Folded
  <2>3. ASSUME NEW b \in Backends
        PROVE  /\ outcome'[b] = "delivered" => got'[b] \in ResponsesOf(b)
               /\ outcome'[b] = "skipped" \/ b > i' \/ b = i'
                     => got'[b] = NilResponse
    <3>1. b > i' \/ b = i' => b > i
      BY <1>1, Types
    <3> QED
      BY <1>1, <1>4, <3>1 DEF AnswerInv
  <2> QED
    BY <1>1, <1>2, <2>2, <2>3, Types DEF AnswerInv
<1>8. ParamInv'
  BY <1>1, <1>4, Types, ParamsKept
<1> QED
  BY <1>3, <1>5, <1>6, <1>7, <1>8

\* Calling the backend with the params resolved so far.
LEMMA CallInv == IInv /\ Call => IInv'
<1> SUFFICES ASSUME IInv, Call PROVE IInv'
  OBVIOUS
<1> USE DEF IInv, callVars
<1>1. /\ pc = "filter" /\ i \in Backends
      /\ received' = [received EXCEPT ![i] = params] /\ pc' = "calling"
      /\ UNCHANGED <<i, r, ctxDone, outcome, parts, got, out, errCh, params,
                     registry, acc, reply>>
  BY NumBackendsAssumption DEF Call, TypeOK, OrderInv, Backends
<1>2. TypeOK'
  BY <1>1 DEF TypeOK
<1>3. OrderInv'
  BY <1>1, Types DEF OrderInv, Over
<1>4. ReportInv'
  BY <1>1 DEF ReportInv
<1>5. AnswerInv'
  BY <1>1, AnswersKept DEF Merged
<1>6. \A b \in Backends : received'[b] = IF b = i THEN params ELSE received[b]
  BY <1>1 DEF TypeOK
<1>7. ParamInv'
  BY <1>1, <1>6, Types DEF ParamInv, HasSource
<1> QED
  BY <1>2, <1>3, <1>4, <1>5, <1>7

\* next() returns, or the answer comes too late to be sent.
LEMMA ReturnsInv == IInv /\ (CallReturns \/ DeliverTooLate) => IInv'
<1> SUFFICES ASSUME IInv, CallReturns \/ DeliverTooLate PROVE IInv'
  OBVIOUS
<1> USE DEF IInv, callVars
<1>1. /\ pc \in {"calling", "deliver"} /\ i \in Backends /\ outcome[i] = "none"
      /\ pc' \in {"deliver", "fail"}
      /\ UNCHANGED <<i, r, ctxDone, outcome, parts, out, errCh, paramVars, acc,
                     reply>>
  BY NumBackendsAssumption DEF CallReturns, CallAnswers, CallFails,
     DeliverTooLate, TypeOK, OrderInv, Backends, Over
<1>2. /\ got' \in [Backends -> Response]
      /\ \A b \in Backends : b # i => got'[b] = got[b]
      /\ pc' = "deliver" => got'[i] \in ResponsesOf(i)
  <2>1. CASE CallAnswers
    <3>1. PICK x \in ResponsesOf(i) : got' = [got EXCEPT ![i] = x]
      BY <2>1 DEF CallAnswers
    <3>2. x \in Response
      BY <1>1, ResponsesType
    <3> QED
      BY <1>1, <3>1, <3>2 DEF TypeOK
  <2>2. CASE CallFails \/ DeliverTooLate
    BY <2>2 DEF CallFails, DeliverTooLate, TypeOK
  <2> QED
    BY <2>1, <2>2 DEF CallReturns
<1>3. TypeOK'
  BY <1>1, <1>2 DEF TypeOK, paramVars
<1>4. OrderInv'
  <2>1. \A b \in 1 .. i - 1 : b \in Backends /\ b # i
    BY <1>1, NumBackendsAssumption DEF Backends
  <2> QED
    BY <1>1, <1>2, <2>1, Types DEF OrderInv, Over
<1>5. ReportInv'
  BY <1>1 DEF ReportInv
<1>6. AnswerInv'
  <2>1. Merged' = Merged /\ i \notin Merged
    BY <1>1 DEF Merged
  <2>2. \A b \in Merged : got'[b] = got[b]
    BY <1>2, <2>1 DEF Merged
  <2>3. Folded(acc', Merged', got')
    BY <1>1, <2>1, <2>2, FoldedSame DEF AnswerInv
  <2>4. ASSUME NEW b \in Backends
        PROVE  /\ outcome[b] = "delivered" \/ (pc' = "deliver" /\ b = i)
                     => got'[b] \in ResponsesOf(b)
               /\ outcome[b] = "skipped" \/ b > i => got'[b] = NilResponse
    BY <1>1, <1>2, Types DEF AnswerInv
  <2> QED
    BY <1>1, <2>3, <2>4 DEF AnswerInv
<1>7. ParamInv'
  <2>1. \A v \in Backends : v < i => outcome'[v] = outcome[v] /\ got'[v] = got[v]
    BY <1>1, <1>2, Types
  <2> QED
    BY <1>1, <2>1, Types, ParamsKept
<1> QED
  BY <1>3, <1>4, <1>5, <1>6, <1>7

\* Sending the response, or the error, of the backend.
LEMMA SendInv == IInv /\ (Deliver \/ SendError) => IInv'
<1> SUFFICES ASSUME IInv, Deliver \/ SendError PROVE IInv'
  OBVIOUS
<1> USE DEF IInv, callVars
<1>1. /\ pc \in {"deliver", "fail"} /\ i \in Backends /\ outcome[i] = "none"
      /\ pc' = "select" /\ out = <<>> /\ errCh = <<>>
      /\ UNCHANGED <<i, r, ctxDone, got, parts, paramVars, acc, reply>>
  BY NumBackendsAssumption DEF Deliver, SendError, TypeOK, OrderInv, Backends,
     ReportInv, Over
<1>2. \/ /\ outcome' = [outcome EXCEPT ![i] = "delivered"]
         /\ out' = <<i>> /\ errCh' = <<>> /\ pc = "deliver"
      \/ /\ outcome' = [outcome EXCEPT ![i] = "errored"]
         /\ out' = <<>> /\ errCh' = <<i>>
  BY <1>1 DEF Deliver, SendError
<1>3. TypeOK'
  <2>1. outcome' \in [Backends -> {"none", "skipped", "delivered", "errored"}]
    BY <1>2 DEF TypeOK
  <2>2. <<i>> \in Seq(Backends) /\ <<>> \in Seq(Backends)
    BY <1>1
  <2>3. out' \in Seq(Backends) /\ errCh' \in Seq(Backends)
    BY <1>2, <2>2
  <2> QED
    BY <1>1, <2>1, <2>3 DEF TypeOK, paramVars
<1>4. /\ outcome'[i] \in {"delivered", "errored"}
      /\ outcome'[i] = "delivered" => pc = "deliver"
      /\ \A b \in Backends : b # i => outcome'[b] = outcome[b]
  BY <1>1, <1>2 DEF TypeOK
<1>5. OrderInv'
  <2>1. \A b \in 1 .. i - 1 : b \in Backends /\ b # i
    BY <1>1, NumBackendsAssumption DEF Backends
  <2>2. i <= NumBackends
    BY <1>1, NumBackendsAssumption DEF Backends
  <2>3. OrderInv
    BY DEF IInv
  <2>4. /\ pc' = "select" /\ i' = i /\ parts' = parts /\ got' = got /\ ~Over /\ ~Over'
        /\ pc # "select"
    BY <1>1 DEF Over
  <2> HIDE DEF IInv
  <2>5. \A b \in 1 .. i' - 1 : \/ outcome'[b] = "skipped"
                               \/ outcome'[b] = "delivered" /\ got'[b].complete
    <3>1. i' - 1 = i - 1
      BY <2>4
    <3> SUFFICES ASSUME NEW b \in 1 .. i - 1
                 PROVE  \/ outcome'[b] = "skipped"
                        \/ outcome'[b] = "delivered" /\ got'[b].complete
      BY <3>1
    <3>2. outcome'[b] = outcome[b]
      BY <1>4, <2>1
    <3>3. \/ outcome[b] = "skipped"
          \/ outcome[b] = "delivered" /\ got[b].complete
      BY <2>3 DEF OrderInv
    <3> QED
      BY <2>4, <3>2, <3>3
  <2>6. \A b \in Backends : b > i => outcome'[b] = "none"
    <3>1. i \in Int
      BY <1>1, NumBackendsAssumption DEF Backends
    <3>2. \A b \in Backends : b \in Int
      BY NumBackendsAssumption DEF Backends
    <3>3. \A b \in Backends : b > i => b # i /\ outcome[b] = "none"
      BY <2>3, <3>1, <3>2 DEF OrderInv
    <3> QED
      BY <1>4, <3>3
  <2> QED
    BY <2>2, <2>3, <2>4, <2>5, <2>6 DEF OrderInv
<1>6. ReportInv'
  BY <1>1, <1>2 DEF ReportInv, TypeOK
<1>7. AnswerInv'
  <2>1. Merged' = Merged
    BY <1>1, <1>4 DEF Merged
  <2>2. ASSUME NEW b \in Backends
        PROVE  /\ outcome'[b] = "delivered" => got[b] \in ResponsesOf(b)
               /\ outcome'[b] = "skipped" \/ b > i => got[b] = NilResponse
    BY <1>1, <1>4, Types DEF AnswerInv
  <2> QED
    BY <1>1, <2>1, <2>2 DEF AnswerInv
<1>8. ParamInv'
  BY <1>1, <1>4, Types, ParamsKept
<1> QED
  BY <1>3, <1>5, <1>6, <1>7, <1>8

\* A step that ends the loop, with what was answered as it is.
LEMMA OverInv ==
    ASSUME IInv, TypeOK', pc \in {"select", "result"},
           pc' \in {"result", "returned"}, out' = <<>>, errCh' = <<>>,
           UNCHANGED <<i, outcome, got, parts, paramVars>>,
           Folded(acc', Merged', got'), acc'.data.owner <= i,
           \A k \in Keys : acc'.data.data[k] # Nobody =>
              acc'.data.hasMap /\ acc'.data.owner <= acc'.data.data[k]
    PROVE  IInv'
<1> USE DEF IInv
<1>1. OrderInv' /\ ReportInv'
  BY DEF OrderInv, ReportInv, Over
<1>2. AnswerInv'
  BY DEF AnswerInv
<1>3. ParamInv'
  BY Types, ParamsKept
<1> QED
  BY <1>1, <1>2, <1>3

\* case err := <-errCh
LEMMA TakeErrorInv == IInv /\ TakeError => IInv'
<1> SUFFICES ASSUME IInv, TakeError PROVE IInv'
  OBVIOUS
<1> USE DEF IInv
<1>1. /\ pc = "select" /\ i \in Backends
      /\ errCh = <<i>> /\ out = <<>> /\ outcome[i] = "errored"
  BY NumBackendsAssumption DEF TakeError, TypeOK, OrderInv, ReportInv, Backends
<1>2. /\ errCh' = <<>> /\ Head(errCh) = i
      /\ pc' \in {"result", "returned"}
      /\ UNCHANGED <<i, r, outcome, got, parts, out, paramVars>>
  BY <1>1 DEF TakeError
<1>3. acc' = acc \/ acc' = MergeError(acc, i)
  BY <1>2 DEF TakeError
<1>4. /\ acc' \in Accumulator /\ acc'.data.owner = acc.data.owner
      /\ acc'.data.hasMap = acc.data.hasMap /\ acc'.data.data = acc.data.data
  <2>1. acc \in Accumulator /\ acc.data \in Response
    BY Types DEF TypeOK
  <2> QED
    BY <1>1, <1>3, <2>1, AccType DEF MergeError, Response
<1>5. reply' \in Reply /\ ctxDone' \in BOOLEAN
  <2>1. reply' = reply \/ reply' = [NoReply EXCEPT !.errs = <<i>>]
    BY <1>2 DEF TakeError
  <2>2. [NoReply EXCEPT !.errs = <<i>>] \in Reply
    <3>1. NoReply \in Reply /\ <<i>> \in Seq(Backends)
      BY <1>1, NilType
    <3> QED
      BY <3>1 DEF Reply
  <2> QED
    BY <2>1, <2>2 DEF TakeError, TypeOK
<1>6. TypeOK'
  BY <1>1, <1>2, <1>4, <1>5 DEF TypeOK, paramVars
<1>7. Merged' = Merged
  BY <1>1, <1>2 DEF Merged
<1>8. Folded(acc', Merged', got')
  <2>1. acc \in Accumulator /\ Folded(acc, Merged, got)
    BY DEF TypeOK, AnswerInv
  <2> QED
    BY <1>1, <1>2, <1>3, <1>7, <2>1, FoldedError
<1> QED
  BY <1>1, <1>2, <1>4, <1>6, <1>8, OverInv DEF AnswerInv

\* case response := <-out: merging keeps what is known of the merged map.
LEMMA MergeKeeps ==
    ASSUME IInv, TakeResponse
    PROVE  /\ i \in Backends /\ Head(out) = i /\ outcome[i] = "delivered"
           /\ out' = <<>> /\ errCh' = <<>>
           /\ acc' = MergeResponse(acc, got[i]) /\ acc' \in Accumulator
           /\ Folded(acc', Merged \cup {i}, got)
           /\ acc'.data.owner <= i
           /\ \A k \in Keys : acc'.data.data[k] # Nobody =>
                 acc'.data.hasMap /\ acc'.data.owner <= acc'.data.data[k]
<1> USE DEF IInv
<1>1. /\ pc = "select" /\ i \in Backends /\ out = <<i>> /\ errCh = <<>>
      /\ outcome[i] = "delivered" /\ Head(out) = i
  BY NumBackendsAssumption
     DEF TakeResponse, TypeOK, OrderInv, ReportInv, Backends
<1>2. /\ out' = <<>> /\ errCh' = <<>> /\ acc' = MergeResponse(acc, got[i])
  BY <1>1 DEF TakeResponse
<1>3. got[i] \in ResponsesOf(i) /\ got[i] \in Response
  BY <1>1, AnswerHolds DEF AnswerInv
<1>4. acc \in Accumulator /\ acc' \in Accumulator
  BY <1>2, <1>3, AccType DEF TypeOK
<1>5. i \notin Merged /\ Merged \in SUBSET Backends
  BY <1>1 DEF Merged
<1>6. Folded(acc', Merged \cup {i}, got)
  BY <1>1, <1>2, <1>3, <1>4, <1>5, FoldedResponse DEF AnswerInv
<1>7. /\ acc'.data.owner <= i
      /\ \A k \in Keys : acc'.data.data[k] # Nobody =>
            acc'.data.hasMap /\ acc'.data.owner <= acc'.data.data[k]
  <2>1. /\ got[i].owner <= i
        /\ \A k \in Keys : got[i].data[k] # Nobody =>
              got[i].hasMap /\ got[i].data[k] = i
    BY <1>1, <1>3, AnswerHolds, Types
  <2>2. CASE ~acc.has
    <3>1. acc'.data = got[i]
      BY <1>2, <2>2 DEF MergeResponse
    <3> QED
      BY <2>1, <3>1
  <2>3. CASE acc.has
    <3>1. acc'.data = combineData(acc.data, got[i])
      BY <1>2, <2>3 DEF MergeResponse
    <3>2. /\ acc'.data.hasMap
          /\ acc'.data.owner = IF acc.data.hasMap THEN acc.data.owner
                                                  ELSE got[i].owner
          /\ \A k \in Keys : acc'.data.data[k] =
                IF got[i].data[k] # Nobody THEN got[i].data[k]
                                           ELSE acc.data.data[k]
      BY <3>1 DEF combineData
    <3>3. acc.data.owner <= i
      BY DEF AnswerInv
    <3>4. ASSUME NEW k \in Keys, acc'.data.data[k] # Nobody
          PROVE  acc'.data.owner <= acc'.data.data[k]
      <4>1. CASE got[i].data[k] # Nobody
        BY <2>1, <3>2, <3>3, <4>1
      <4>2. CASE got[i].data[k] = Nobody
        <5>1. acc.data.hasMap /\ acc.data.owner <= acc.data.data[k]
          BY <3>2, <3>4, <4>2 DEF AnswerInv
        <5> QED
          BY <3>2, <4>2, <5>1
      <4> QED
        BY <4>1, <4>2
    <3> QED
      BY <2>1, <3>2, <3>3, <3>4
  <2> QED
    BY <2>2, <2>3
<1> QED
  BY <1>1, <1>2, <1>4, <1>6, <1>7

\* Taking the response keeps the invariant: the loop goes on after a complete
\* one, and ends after an incomplete one.
LEMMA TakeResponseInv == IInv /\ TakeResponse => IInv'
<1> SUFFICES ASSUME IInv, TakeResponse PROVE IInv'
  OBVIOUS
<1> USE DEF IInv
<1>1. /\ pc = "select" /\ i \in Backends /\ outcome[i] = "delivered"
      /\ out' = <<>> /\ errCh' = <<>>
      /\ acc' \in Accumulator
      /\ Folded(acc', Merged \cup {i}, got)
      /\ acc'.data.owner <= i
      /\ \A k \in Keys : acc'.data.data[k] # Nobody =>
            acc'.data.hasMap /\ acc'.data.owner <= acc'.data.data[k]
      /\ UNCHANGED <<ctxDone, outcome, got, paramVars, reply>>
      /\ Head(out) = i
  BY MergeKeeps DEF TakeResponse
<1>2. CASE got[i].complete
  <2>1. /\ parts' = parts \cup {i} /\ pc' = "resolve" /\ i' = i + 1 /\ r' = 1
    BY <1>1, <1>2 DEF TakeResponse
  <2>2. TypeOK'
    <3>1. i' \in 1 .. NumBackends + 1
      BY <1>1, <2>1, NumBackendsAssumption DEF Backends
    <3> QED
      BY <1>1, <2>1, <3>1 DEF TypeOK, paramVars
  <2>3. OrderInv'
    <3>1. parts' = 1 .. i' - 1
      BY <1>1, <2>1, Types DEF OrderInv
    <3>2. ASSUME NEW b \in 1 .. i' - 1
          PROVE  outcome[b] = "skipped" \/ (outcome[b] = "delivered" /\ got[b].complete)
      <4>1. b = i \/ b \in 1 .. i - 1
        BY <1>1, <2>1, Types
      <4> QED
        BY <1>1, <1>2, <4>1 DEF OrderInv
    <3>3. ASSUME NEW b \in Backends, b > i' \/ b = i'
          PROVE  outcome[b] = "none"
      <4>1. b > i
        BY <2>1, <3>3, Types
      <4> QED
        BY <4>1 DEF OrderInv
    <3> QED
      BY <1>1, <2>1, <3>1, <3>2, <3>3 DEF OrderInv
  <2>4. ReportInv'
    BY <1>1, <2>1 DEF ReportInv
  <2>5. Merged' = Merged \cup {i}
    BY <1>1, <2>1 DEF Merged
  <2>6. AnswerInv'
    <3>1. acc'.data.owner \in Origin /\ acc'.data.owner <= i'
      <4>1. acc'.data.owner \in Origin
        BY <1>1 DEF Accumulator, Response
      <4> QED
        BY <1>1, <2>1, <4>1, Types, NumBackendsAssumption DEF Origin, Nobody
    <3>2. ASSUME NEW b \in Backends
          PROVE  /\ outcome[b] = "delivered" => got[b] \in ResponsesOf(b)
                 /\ outcome[b] = "skipped" \/ b > i' \/ b = i'
                       => got[b] = NilResponse
      <4>1. b > i' \/ b = i' => b > i
        BY <2>1, Types
      <4> QED
        BY <4>1 DEF AnswerInv
    <3> QED
      BY <1>1, <2>1, <2>5, <3>1, <3>2 DEF AnswerInv
  <2>7. ParamInv'
    BY <1>1, <2>1, Types, ParamsKept
  <2> QED
    BY <2>2, <2>3, <2>4, <2>6, <2>7
<1>3. CASE ~got[i].complete
  <2>1. pc' = "result" /\ UNCHANGED <<parts, i, r>>
    BY <1>1, <1>3 DEF TakeResponse
  <2>2. TypeOK'
    BY <1>1, <2>1 DEF TypeOK, paramVars
  <2>3. Merged' = Merged \cup {i}
    BY <1>1, <2>1 DEF Merged
  <2> QED
    BY <1>1, <2>1, <2>2, <2>3, OverInv
<1> QED
  BY <1>2, <1>3

\* acc.Result(), cancel() and return
LEMMA ReturnInv == IInv /\ Return => IInv'
<1> SUFFICES ASSUME IInv, Return PROVE IInv'
  OBVIOUS
<1> USE DEF IInv, callVars
<1>1. TypeOK'
  BY AccType DEF Return, TypeOK, paramVars
<1>2. Merged' = Merged
  BY DEF Return, Merged
<1> QED
  BY <1>1, <1>2, OverInv DEF Return, AnswerInv, ReportInv

\* The end of the context, and a step that changes nothing.
LEMMA StillInv ==
    ASSUME IInv, ctxDone' \in BOOLEAN,
           UNCHANGED <<pc, i, r, outcome, parts, callVars, paramVars, acc, reply>>
    PROVE  IInv'
<1> USE DEF IInv, callVars
<1>1. TypeOK'
  BY DEF TypeOK, paramVars
<1>2. OrderInv' /\ ReportInv'
  BY DEF OrderInv, ReportInv, Over
<1>3. AnswerInv'
  BY AnswersKept DEF Merged
<1>4. ParamInv'
  BY Types, ParamsKept
<1> QED
  BY <1>1, <1>2, <1>3, <1>4

\* Every step keeps the inductive invariant.
LEMMA StepInv == IInv /\ [Next]_vars => IInv'
<1> SUFFICES ASSUME IInv, [Next]_vars PROVE IInv'
  OBVIOUS
<1>1. ctxDone \in BOOLEAN
  BY DEF IInv, TypeOK
<1>2. CASE MergerStep \/ CallReturns
  BY <1>2, ReplaceInv, ResolvedInv, SkipInv, CallInv, ReturnsInv, SendInv,
     TakeErrorInv, TakeResponseInv, ReturnInv DEF MergerStep
<1>3. CASE ContextDone \/ Finished \/ UNCHANGED vars
  BY <1>1, <1>3, StillInv DEF ContextDone, Finished, vars, callVars, paramVars
<1> QED
  BY <1>2, <1>3 DEF Next

\* The inductive invariant holds in every reachable state.
THEOREM Invariance == Spec => []IInv
<1>1. Init => IInv
  BY InitInv DEF CInv
<1> QED
  BY <1>1, StepInv, PTL DEF Spec

-----------------------------------------------------------------------------
(* The theorems about the specification.                                   *)

\* The variables of the merger keep their types.
THEOREM TypeCorrectness == Spec => []TypeOK
BY Invariance, PTL DEF IInv

(***************************************************************************)
(* A backend is called only after complete responses, and every param it is*)
(* called with is a value that such a response holds.                      *)
(***************************************************************************)
THEOREM Safety == Spec => []SequentialSafety
<1>1. IInv => SequentialSafety
  <2> SUFFICES ASSUME IInv PROVE SequentialSafety
    OBVIOUS
  <2>1. CalledInGoodOrder
    BY DEF IInv, OrderInv, ReportInv, CalledInGoodOrder
  <2>2. ParamsHaveASource
    BY DEF IInv, ParamInv, HasSource, ParamsHaveASource
  <2> QED
    BY <2>1, <2>2 DEF SequentialSafety
<1> QED
  BY <1>1, Invariance, PTL

\* A param that is set, and not to the empty string, is set for good: the
\* registry mirrors it and is asked first.
THEOREM ParamsPinned == Spec => ParamsNeverChange
<1> DEFINE Pinned == \A d \in Dests :
              params[d] # Nobody /\ <<params[d], d[2]>> \notin Blank
                 => params'[d] = params[d]
<1>1. IInv /\ [Next]_vars => [Pinned]_vars
  <2> SUFFICES ASSUME IInv, [Next]_vars,
                      NEW d \in Dests,
                      params[d] # Nobody, <<params[d], d[2]>> \notin Blank
               PROVE  params'[d] = params[d]
    OBVIOUS
  <2>1. registry = params /\ params \in [Dests -> Origin]
    BY DEF IInv, ParamInv, TypeOK
  <2>2. CASE UNCHANGED params
    BY <2>2
  <2>3. CASE Replace
    <3> DEFINE x == Replacements[i][r]
    <3>1. Registered(d)
      BY <2>1 DEF Registered
    <3>2. CASE Dest(x) = d
      BY <2>1, <2>3, <3>1, <3>2 DEF Replace, UseRegistry
    <3>3. CASE Dest(x) # d
      <4>1. \A e, v : e # d /\ Assign(e, v) => params'[d] = params[d]
        BY <2>1 DEF Assign
      <4>2. UseRegistry(Dest(x)) => params'[d] = params[d]
        BY <2>1, <3>3 DEF UseRegistry
      <4> QED
        BY <2>3, <3>3, <4>1, <4>2 DEF Replace, ReadBody, ReadKey
    <3> QED
      BY <3>2, <3>3
  <2> QED
    BY <2>2, <2>3
       DEF Next, MergerStep, Resolved, Skip, Call, CallReturns, CallAnswers,
           CallFails, Deliver, DeliverTooLate, SendError, TakeError,
           TakeResponse, Return, ContextDone, Finished, vars, paramVars
<1> QED
  BY <1>1, Invariance, PTL DEF Spec, ParamsNeverChange

-----------------------------------------------------------------------------
(* The contract: sequentialMerge implements MergeContract.                 *)

\* Every step keeps what is known of the loop's end.
LEMMA StepEnd == CInv /\ [Next]_vars => CInv'
<1> SUFFICES ASSUME CInv, [Next]_vars PROVE CInv'
  OBVIOUS
<1> USE DEF CInv
<1>1. IInv'
  BY StepInv
<1>2. /\ i \in Int /\ 1 <= i /\ i <= NumBackends + 1
      /\ acc.pending \in Int /\ acc.errs \in Seq(Backends)
  BY Types DEF IInv
<1>3. CASE UNCHANGED <<pc, i, acc, outcome, got>>
  BY <1>1, <1>3 DEF EndInv, Over
<1>4. CASE Resolved
  BY <1>1, <1>2, <1>4, NumBackendsAssumption DEF Resolved, EndInv, Over
<1>5. CASE Skip
  <2>1. /\ acc'.pending = acc.pending - 1 /\ acc'.errs = acc.errs
        /\ pc = "filter" /\ pc' = "resolve" /\ i' = i + 1
    BY <1>5 DEF Skip, IInv, TypeOK, Accumulator
  <2> QED
    BY <1>1, <1>2, <2>1, NumBackendsAssumption DEF EndInv, Over
<1>6. CASE Call \/ CallReturns \/ Deliver \/ DeliverTooLate \/ SendError
  <2>1. /\ pc \in {"filter", "calling", "deliver", "fail"}
        /\ pc' \in {"calling", "deliver", "fail", "select"}
        /\ UNCHANGED <<i, acc>>
    BY <1>6 DEF Call, CallReturns, CallAnswers, CallFails, Deliver,
                DeliverTooLate, SendError
  <2> QED
    BY <1>1, <2>1 DEF EndInv, Over
<1>7. CASE TakeError
  <2>1. /\ pc = "select" /\ errCh = <<i>> /\ outcome[i] = "errored"
        /\ i <= NumBackends /\ acc.errs = <<>>
    BY <1>7 DEF TakeError, IInv, OrderInv, ReportInv, EndInv, Over
  <2>2. UNCHANGED <<i, outcome>>
    BY <1>7 DEF TakeError
  <2>3. pc' = "result" => acc'.errs = <<i>>
    BY <1>7, <2>1 DEF TakeError, MergeError
  <2>4. pc' \in {"result", "returned"}
    BY <1>7 DEF TakeError
  <2> QED
    BY <1>1, <1>2, <2>1, <2>2, <2>3, <2>4, NumBackendsAssumption DEF EndInv, Over
<1>8. CASE TakeResponse
  <2>1. /\ pc = "select" /\ i \in Backends /\ Head(out) = i
        /\ outcome[i] = "delivered" /\ UNCHANGED <<outcome, got>>
        /\ acc'.errs = acc.errs /\ acc'.pending = acc.pending - 1
    BY <1>8, MergeKeeps DEF TakeResponse, MergeResponse
  <2>2. i <= NumBackends
    BY <2>1, NumBackendsAssumption DEF Backends
  <2>3. acc.errs = <<>> /\ acc.pending = NumBackends + 1 - i
    BY <1>1, <2>1 DEF EndInv, Over
  <2>4. CASE got[i].complete
    <3>1. pc' = "resolve" /\ i' = i + 1
      BY <1>8, <2>1, <2>4 DEF TakeResponse
    <3> QED
      BY <1>1, <1>2, <2>1, <2>3, <3>1, NumBackendsAssumption DEF EndInv, Over
  <2>5. CASE ~got[i].complete
    <3>1. pc' = "result" /\ i' = i
      BY <1>8, <2>1, <2>5 DEF TakeResponse
    <3> QED
      BY <1>1, <1>2, <2>1, <2>2, <2>3, <2>5, <3>1, NumBackendsAssumption
         DEF EndInv, Over
  <2> QED
    BY <2>4, <2>5
<1>9. CASE Return
  BY <1>1, <1>9 DEF Return, EndInv, Over
<1>10. CASE Replace \/ ContextDone \/ Finished \/ UNCHANGED vars
  BY <1>3, <1>10 DEF Replace, ContextDone, Finished, vars, callVars
<1> QED
  BY <1>1, <1>3, <1>4, <1>5, <1>6, <1>7, <1>8, <1>9, <1>10 DEF Next, MergerStep

\* What the contract needs, in every reachable state.
THEOREM ContractInvariance == Spec => []CInv
BY InitInv, StepEnd, PTL DEF Spec

\* The contract's own copies of the values of MergeAccumulator.
LEMMA ContractValues ==
    /\ Contract!Backends = Backends /\ Contract!Nobody = Nobody
    /\ Contract!NilResponse = NilResponse /\ Contract!NoReply = NoReply
    /\ \A b \in Backends : Contract!ResponsesOf(b) = ResponsesOf(b)
BY DEF Contract!Backends, Backends, Contract!Nobody, Nobody,
       Contract!NilResponse, NilResponse, Contract!NoData, NoData,
       Contract!NoReply, NoReply, Contract!ResponsesOf, ResponsesOf

\* Its own copy of the cardinality of a set, too.
LEMMA ContractCardinality ==
    \A S : Contract!Cardinality(S) = Cardinality(S)
BY DEF Contract!Cardinality, Cardinality

\* The outcome of a backend, as the contract sees it.
LEMMA OutcomeSeen ==
    ASSUME NEW b \in Backends
    PROVE  /\ outcome[b] = "skipped"   => outcomeBar[b] = Contract!Skipped
           /\ outcome[b] = "errored"   => outcomeBar[b] = Contract!Failed
           /\ outcome[b] = "delivered" => outcomeBar[b] = Contract!Answered(got[b])
           /\ outcome[b] = "none"      => outcomeBar[b] = Contract!Pending
BY ContractValues
   DEF outcomeBar, Contract!Skipped, Contract!Failed, Contract!Answered,
       Contract!Pending

\* The same, of the next state.
LEMMA OutcomeSeenNext ==
    ASSUME NEW b \in Backends
    PROVE  /\ outcome'[b] = "skipped"   => outcomeBar'[b] = Contract!Skipped
           /\ outcome'[b] = "errored"   => outcomeBar'[b] = Contract!Failed
           /\ outcome'[b] = "delivered"
                 => outcomeBar'[b] = Contract!Answered(got'[b])
           /\ outcome'[b] = "none"      => outcomeBar'[b] = Contract!Pending
BY ContractValues
   DEF outcomeBar, Contract!Skipped, Contract!Failed, Contract!Answered,
       Contract!Pending

\* The kinds of outcome, and the answers, as the contract sees them.
LEMMA OutcomesSeen ==
    ASSUME TypeOK
    PROVE  /\ Contract!With("answered")
                 = {b \in Backends : outcome[b] = "delivered"}
           /\ Contract!With("failed") = {b \in Backends : outcome[b] = "errored"}
           /\ Contract!With("pending") = {b \in Backends : outcome[b] = "none"}
           /\ \A b \in Backends : outcome[b] = "delivered"
                                   => outcomeBar[b].resp = got[b]
<1>1. \A b \in Backends :
         /\ outcomeBar[b].kind = "answered" <=> outcome[b] = "delivered"
         /\ outcomeBar[b].kind = "failed" <=> outcome[b] = "errored"
         /\ outcomeBar[b].kind = "pending" <=> outcome[b] = "none"
         /\ outcome[b] = "delivered" => outcomeBar[b].resp = got[b]
  <2> TAKE b \in Backends
  <2>1. outcome[b] \in {"none", "skipped", "delivered", "errored"}
    BY DEF TypeOK
  <2>2. CASE outcome[b] \in {"skipped", "errored"}
    BY <2>2, OutcomeSeen DEF Contract!Skipped, Contract!Failed
  <2>3. CASE outcome[b] = "delivered"
    <3>1. outcomeBar[b] = Contract!Answered(got[b])
      BY <2>3, OutcomeSeen
    <3> QED
      BY <2>3, <3>1 DEF Contract!Answered
  <2>4. CASE outcome[b] = "none"
    BY <2>4, OutcomeSeen DEF Contract!Pending
  <2> QED
    BY <2>1, <2>2, <2>3, <2>4
<1> QED
  BY <1>1, ContractValues DEF Contract!With

\* A step that settles no backend and does not return is invisible.
LEMMA InvisibleStep ==
    ASSUME outcome' = outcome,
           \A b \in Backends : outcome[b] = "delivered" => got'[b] = got[b],
           pc' = "returned" <=> pc = "returned", reply' = reply
    PROVE  UNCHANGED Contract!contractVars
<1>1. outcomeBar' = outcomeBar
  BY DEF outcomeBar
<1> QED
  BY <1>1 DEF Contract!contractVars

\* The steps that settle the backend whose turn it is.
LEMMA SettlingStep ==
    ASSUME NEW b \in Backends, TypeOK, outcome[b] = "none",
           NEW s \in {"skipped", "errored", "delivered"},
           outcome' = [outcome EXCEPT ![b] = s],
           s = "delivered" => got[b] \in ResponsesOf(b),
           pc # "returned", pc' # "returned", UNCHANGED <<got, reply>>
    PROVE  Contract!Settle(b)
<1>1. outcomeBar[b] = Contract!Pending
  BY OutcomeSeen
<1> DEFINE o == IF s = "skipped" THEN Contract!Skipped
                ELSE IF s = "errored" THEN Contract!Failed
                ELSE Contract!Answered(got[b])
<1>2. outcomeBar' = [outcomeBar EXCEPT ![b] = o]
  <2>1. /\ outcome'[b] = s
        /\ \A c \in Backends : c # b => outcome'[c] = outcome[c]
    BY DEF TypeOK
  <2>2. outcomeBar'[b] = o
    BY <2>1, OutcomeSeenNext
  <2>3. \A c \in Backends : c # b => outcomeBar'[c] = outcomeBar[c]
    BY <2>1 DEF outcomeBar
  <2> QED
    BY <2>2, <2>3 DEF outcomeBar
<1>3. o \in {Contract!Skipped, Contract!Failed}
            \cup {Contract!Answered(x) : x \in ResponsesOf(b)}
  OBVIOUS
<1> QED
  BY <1>1, <1>2, <1>3, ContractValues DEF Contract!Settle

\* The reply of acc.Result() is what the outcomes justify.
LEMMA ResultIsJustified ==
    ASSUME CInv, pc = "result"
    PROVE  Contract!Justified(Result(acc)) /\ Contract!MayReturn
<1> USE DEF CInv
<1> DEFINE M == {b \in Backends : outcome[b] = "delivered"}
           E == {b \in Backends : outcome[b] = "errored"}
           P == {b \in Backends : outcome[b] = "none"}
<1>1. /\ TypeOK /\ acc \in Accumulator /\ acc.errs \in Seq(Backends)
      /\ acc.pending \in Int
  BY Types DEF IInv, TypeOK
<1>2. Merged = M /\ M \in SUBSET Backends
  BY DEF Merged
<1>3. Folded(acc, M, got)
  BY <1>2 DEF IInv, AnswerInv
<1>4. \A b \in Backends : b < i => outcome[b] \in {"skipped", "delivered"}
  <2>1. \A b \in Backends : b < i => b \in 1 .. i - 1
    BY <1>1, Types
  <2> QED
    BY <2>1 DEF IInv, OrderInv
<1>5. \A b \in Backends : b > i => outcome[b] = "none"
  BY DEF IInv, OrderInv
<1>6. \/ P = {} /\ E = {} /\ acc.errs = <<>> /\ acc.pending = 0
      \/ E # {} /\ E = {i} /\ acc.errs = <<i>>
      \/ E = {} /\ acc.errs = <<>> /\ i \in M /\ ~got[i].complete
  <2>1. CASE i > NumBackends /\ acc.errs = <<>>
    <3>1. \A b \in Backends : b < i
      BY <1>1, <2>1, Types, NumBackendsAssumption DEF Backends
    <3>2. acc.pending = 0
      BY <1>1, <2>1, Types, NumBackendsAssumption DEF EndInv
    <3> QED
      BY <1>4, <2>1, <3>1, <3>2
  <2>2. CASE i <= NumBackends /\ outcome[i] = "errored" /\ acc.errs = <<i>>
    <3>1. i \in Backends
      BY <1>1, <2>2, Types, NumBackendsAssumption DEF Backends
    <3>2. \A b \in Backends : b # i => b < i \/ b > i
      BY <1>1, Types
    <3> QED
      BY <1>4, <1>5, <2>2, <3>1, <3>2
  <2>3. CASE /\ i <= NumBackends /\ outcome[i] = "delivered"
             /\ ~got[i].complete /\ acc.errs = <<>>
    <3>1. i \in Backends
      BY <1>1, <2>3, Types, NumBackendsAssumption DEF Backends
    <3>2. \A b \in Backends : b # i => b < i \/ b > i
      BY <1>1, Types
    <3> QED
      BY <1>4, <1>5, <2>3, <3>1, <3>2
  <2> QED
    BY <2>1, <2>2, <2>3 DEF EndInv
<1> DEFINE x == Result(acc)
<1>7. /\ x.has <=> M # {}
      /\ x.errs = acc.errs
      /\ x.data.complete <=>
            /\ M # {} /\ acc.errs = <<>> /\ acc.pending <= 0
            /\ \A b \in M : /\ got[b].complete
                            /\ Cardinality(M) > 1 => got[b].hasMap
      /\ \A k \in Keys : IF OfferedBy(M, got, k) = {}
                         THEN x.data.data[k] = Nobody
                         ELSE x.data.data[k] \in OfferedBy(M, got, k)
      /\ x.data.meta # Nobody => M = {x.data.meta}
  BY <1>1, <1>2, <1>3, FoldedResult
<1>8. /\ Contract!With("answered") = M /\ Contract!With("failed") = E
      /\ Contract!With("pending") = P
      /\ \A b \in M : outcomeBar[b].resp = got[b]
  BY <1>1, OutcomesSeen
<1> HIDE DEF x, M, E, P
<1>9. \A k \in Keys : Contract!Offering(k) = OfferedBy(M, got, k)
  BY <1>8, ContractValues DEF Contract!Offering, OfferedBy
<1>10. x.data.complete <=> Contract!FullyAnswered
  <2>1. Contract!FullyAnswered <=>
          /\ M # {} /\ E = {} /\ P = {}
          /\ \A b \in M : /\ got[b].complete
                          /\ Cardinality(M) > 1 => got[b].hasMap
    BY <1>8, ContractCardinality DEF Contract!FullyAnswered
  <2>2. CASE P = {} /\ E = {} /\ acc.errs = <<>> /\ acc.pending = 0
    BY <1>7, <2>1, <2>2
  <2>3. CASE E # {} /\ acc.errs = <<i>>
    <3>1. acc.errs # <<>>
      BY <2>3
    <3> QED
      BY <1>7, <2>1, <2>3, <3>1
  <2>4. CASE i \in M /\ ~got[i].complete
    BY <1>7, <2>1, <2>4
  <2> QED
    BY <1>6, <2>2, <2>3, <2>4
<1>11. /\ {x.errs[j] : j \in DOMAIN x.errs} = E
       /\ Len(x.errs) = Cardinality(E)
  <2>1. CASE E = {} /\ acc.errs = <<>>
    BY <1>7, <2>1, FS_EmptySet
  <2>2. CASE E = {i} /\ acc.errs = <<i>>
    <3>1. Len(x.errs) = 1 /\ {x.errs[j] : j \in DOMAIN x.errs} = {i}
      BY <1>7, <2>2
    <3>2. Cardinality({i}) = 1
      BY FS_Singleton
    <3> QED
      BY <2>2, <3>1, <3>2
  <2> QED
    BY <1>6, <2>1, <2>2
<1>12. Contract!Justified(x)
  BY <1>7, <1>8, <1>9, <1>10, <1>11, ContractValues, ContractCardinality
     DEF Contract!Justified
<1>13. Contract!MayReturn
  BY <1>6, <1>8 DEF Contract!MayReturn
<1> QED
  BY <1>12, <1>13 DEF x

\* An error of the first backend is returned as it is, and justified.
LEMMA FirstErrorIsJustified ==
    ASSUME CInv, TakeError, i = 1
    PROVE  Contract!Justified(reply') /\ Contract!MayReturn
<1> USE DEF CInv, IInv
<1>1. /\ pc = "select" /\ errCh = <<1>> /\ outcome[1] = "errored"
      /\ \A b \in Backends : b > 1 => outcome[b] = "none"
  BY DEF TakeError, OrderInv, ReportInv
<1>2. reply' = [NoReply EXCEPT !.errs = <<1>>]
  BY <1>1 DEF TakeError
<1>3. /\ ~reply'.has /\ reply'.errs = <<1>> /\ ~reply'.data.complete
      /\ reply'.data.meta = Nobody /\ \A k \in Keys : reply'.data.data[k] = Nobody
  BY <1>2 DEF NoReply, NilResponse, NoData
<1>4. 1 \in Backends /\ \A b \in Backends : b # 1 => b > 1
  BY NumBackendsAssumption DEF Backends
<1>5. Contract!With("answered") = {} /\ Contract!With("failed") = {1}
  BY <1>1, <1>4, OutcomesSeen
<1>6. \A k \in Keys : Contract!Offering(k) = {}
  BY <1>5 DEF Contract!Offering
<1>7. ~Contract!FullyAnswered
  BY <1>5 DEF Contract!FullyAnswered
<1>8. {reply'.errs[j] : j \in DOMAIN reply'.errs} = {1} /\ Len(reply'.errs) = 1
  BY <1>3
<1>9. Cardinality({1}) = 1
  BY FS_Singleton
<1>10. Contract!Justified(reply')
  BY <1>3, <1>5, <1>6, <1>7, <1>8, <1>9, ContractValues, ContractCardinality
     DEF Contract!Justified
<1>11. Contract!MayReturn
  BY <1>5 DEF Contract!MayReturn
<1> QED
  BY <1>10, <1>11

\* The initial states are initial states of the contract.
LEMMA ContractInitially == Init => Contract!ContractInit
<1> SUFFICES ASSUME Init PROVE Contract!ContractInit
  OBVIOUS
<1>1. \A b \in Backends : outcomeBar[b] = Contract!Pending
  BY OutcomeSeen DEF Init
<1>2. outcomeBar = [b \in Backends |-> Contract!Pending]
  BY <1>1 DEF outcomeBar
<1> QED
  BY <1>2, ContractValues DEF Init, Contract!ContractInit

\* Every step of the merger is a step of the contract, or invisible.
LEMMA ContractStep ==
    CInv /\ [Next]_vars => [Contract!ContractNext]_Contract!contractVars
<1> SUFFICES ASSUME CInv, [Next]_vars
             PROVE  Contract!ContractNext \/ UNCHANGED Contract!contractVars
  OBVIOUS
<1> USE DEF CInv, IInv
<1>1. CASE Skip \/ Deliver \/ SendError
  <2>1. /\ i \in Backends /\ outcome[i] = "none"
        /\ pc = "deliver" => got[i] \in ResponsesOf(i)
    <3>1. pc \in {"filter", "deliver", "fail"}
      BY <1>1 DEF Skip, Deliver, SendError
    <3>2. i \in Backends
      BY <3>1, Types DEF OrderInv, Over, Backends
    <3>3. outcome[i] = "none"
      BY <3>1, <3>2 DEF OrderInv, Over
    <3> QED
      BY <3>2, <3>3 DEF AnswerInv
  <2>2. Contract!Settle(i)
    BY <1>1, <2>1, SettlingStep DEF Skip, Deliver, SendError, callVars
  <2> QED
    BY <2>1, <2>2, ContractValues DEF Contract!ContractNext
<1>2. CASE Return \/ (TakeError /\ i = 1)
  <2>1. /\ pc # "returned" /\ pc' = "returned"
        /\ outcomeBar' = outcomeBar
    BY <1>2 DEF Return, TakeError, outcomeBar, callVars
  <2>2. Contract!Justified(reply') /\ Contract!MayReturn
    BY <1>2, ResultIsJustified, FirstErrorIsJustified DEF Return
  <2>3. Contract!Return
    BY <2>1, <2>2 DEF Contract!Return
  <2> QED
    BY <2>3 DEF Contract!ContractNext
<1>3. CASE CallAnswers
  <2>1. outcome[i] = "none"
    BY <1>3, NumBackendsAssumption
       DEF CallAnswers, TypeOK, OrderInv, Backends, Over
  <2>2. \A b \in Backends : b # i => got'[b] = got[b]
    BY <1>3 DEF CallAnswers, TypeOK
  <2> QED
    BY <1>3, <2>1, <2>2, InvisibleStep DEF CallAnswers
<1>4. CASE TakeError /\ i # 1
  BY <1>4, InvisibleStep DEF TakeError
<1>5. CASE TakeResponse
  BY <1>5, InvisibleStep DEF TakeResponse
<1>6. CASE Replace \/ Resolved \/ Call \/ CallFails \/ DeliverTooLate
  BY <1>6, InvisibleStep DEF Replace, Replacing, Resolved, Call, CallFails,
                             DeliverTooLate, callVars
<1>7. CASE ContextDone \/ Finished \/ UNCHANGED vars
  BY <1>7, InvisibleStep DEF ContextDone, Finished, vars, callVars
<1> QED
  BY <1>1, <1>2, <1>3, <1>4, <1>5, <1>6, <1>7 DEF Next, MergerStep, CallReturns

(***************************************************************************)
(* sequentialMerge implements the merging contract: it gives up on backends*)
(* only after a failure or an incomplete answer, and the reply is the one  *)
(* the outcomes justify.                                                   *)
(***************************************************************************)
THEOREM Refinement == Spec => ImplementsContract
BY ContractInvariance, ContractInitially, ContractStep, PTL
   DEF Spec, ImplementsContract, Contract!ContractSpec


-----------------------------------------------------------------------------
(* The lookup of a dotted replacement (SequentialParams): the walk has     *)
(* followed a beginning of the path, and stops where it cannot go on.      *)

Beginning(s, k) == SubSeq(s, 1, k)

\* The walk cannot go on from the object it is at.
IsAtItsEnd ==
    Len(level) + 1 < Len(source) =>
        LET found == Beginning(source, Len(level) + 1)
        IN  found \notin tree \/ ~IsObject(found)

Found ==
    LET found == Append(level, Last(source))
    IN  IF found \in tree THEN found ELSE <<>>

LookupIInv ==
    /\ IsTree(tree) /\ tree \subseteq AllPaths
    /\ source \in AllPaths
    /\ lookupPc \in {"walk", "last", "done"}
    /\ level \in Seq(DataKeys) /\ Len(level) < Len(source)
    /\ level = Beginning(source, Len(level))
    /\ level = <<>> \/ (level \in tree /\ IsObject(level))
    /\ lookupPc # "walk" => IsAtItsEnd
    /\ param = IF lookupPc = "done" THEN Found ELSE <<>>

\* A path is a list of keys, and not empty.
LEMMA PathsAreSequences ==
    ASSUME NEW p \in AllPaths
    PROVE  p \in Seq(DataKeys) /\ Len(p) \in Nat \ {0}
<1>1. PICK n \in 1 .. Depth : p \in [1 .. n -> DataKeys]
  BY DEF AllPaths
<1>2. n \in Nat \ {0}
  BY DepthAssumption
<1> QED
  BY <1>1, <1>2

\* A beginning of a sequence.
LEMMA BeginningFacts ==
    ASSUME NEW s \in Seq(DataKeys), NEW k \in 0 .. Len(s)
    PROVE  /\ Beginning(s, k) \in Seq(DataKeys)
           /\ Len(Beginning(s, k)) = k
           /\ \A j \in 1 .. k : Beginning(s, k)[j] = s[j]
<1>1. k \in Int /\ 1 \in Int /\ \A j \in 1 .. k : s[j] \in DataKeys
  OBVIOUS
<1> DEFINE b == SubSeq(s, 1, k)
<1>2. /\ b \in Seq(DataKeys)
      /\ Len(b) = IF 1 <= k THEN k - 1 + 1 ELSE 0
      /\ \A j \in 1 .. k - 1 + 1 : b[j] = s[1 + j - 1]
  BY <1>1, SubSeqProperties
<1> HIDE DEF b
<1>3. Len(b) = k /\ \A j \in 1 .. k : b[j] = s[j]
  BY <1>2
<1> QED
  BY <1>2, <1>3 DEF Beginning, b

\* The whole of a path and nothing of it are its beginnings.
LEMMA BeginningEnds ==
    ASSUME NEW s \in Seq(DataKeys)
    PROVE  Beginning(s, Len(s)) = s /\ Beginning(s, 0) = <<>>
<1>1. Beginning(s, Len(s)) = s
  <2>1. Len(s) \in 0 .. Len(s)
    OBVIOUS
  <2>2. /\ Beginning(s, Len(s)) \in Seq(DataKeys)
        /\ Len(Beginning(s, Len(s))) = Len(s)
        /\ \A j \in 1 .. Len(Beginning(s, Len(s))) : Beginning(s, Len(s))[j] = s[j]
    BY <2>1, BeginningFacts
  <2> QED
    BY <2>2, SeqEqual
<1>2. Beginning(s, 0) = <<>>
  BY SubSeqEmpty DEF Beginning
<1> QED
  BY <1>1, <1>2

\* One element more.
LEMMA BeginningGrows ==
    ASSUME NEW s \in Seq(DataKeys), NEW k \in Nat, k < Len(s)
    PROVE  /\ Append(Beginning(s, k), s[k + 1]) = Beginning(s, k + 1)
           /\ Front(Beginning(s, k + 1)) = Beginning(s, k)
<1>1. k \in 0 .. Len(s) /\ k + 1 \in 0 .. Len(s) /\ s[k + 1] \in DataKeys
  OBVIOUS
<1>2. /\ Beginning(s, k) \in Seq(DataKeys) /\ Len(Beginning(s, k)) = k
      /\ \A j \in 1 .. k : Beginning(s, k)[j] = s[j]
  BY <1>1, BeginningFacts
<1>3. /\ Beginning(s, k + 1) \in Seq(DataKeys) /\ Len(Beginning(s, k + 1)) = k + 1
      /\ \A j \in 1 .. k + 1 : Beginning(s, k + 1)[j] = s[j]
  BY <1>1, BeginningFacts
<1> DEFINE a == Append(Beginning(s, k), s[k + 1])
           f == SubSeq(Beginning(s, k + 1), 1, k)
<1>4. a = Beginning(s, k + 1)
  <2>1. /\ a \in Seq(DataKeys) /\ Len(a) = k + 1
        /\ \A j \in 1 .. k : a[j] = Beginning(s, k)[j]
        /\ a[k + 1] = s[k + 1]
    BY <1>1, <1>2, AppendProperties
  <2> HIDE DEF a
  <2>2. \A j \in 1 .. Len(a) : a[j] = Beginning(s, k + 1)[j]
    BY <1>2, <1>3, <2>1
  <2> QED
    BY <1>3, <2>1, <2>2, SeqEqual
<1>5. f = Beginning(s, k)
  <2>1. Beginning(s, k + 1) \in Seq(DataKeys) /\ k \in 0 .. Len(Beginning(s, k + 1))
    BY <1>3
  <2>2. /\ f \in Seq(DataKeys) /\ Len(f) = k
        /\ \A j \in 1 .. k : f[j] = Beginning(s, k + 1)[j]
    BY <2>1, BeginningFacts DEF Beginning
  <2> HIDE DEF f
  <2>3. \A j \in 1 .. Len(f) : f[j] = Beginning(s, k)[j]
    BY <1>2, <1>3, <2>2
  <2> QED
    BY <1>2, <2>2, <2>3, SeqEqual
<1>6. Front(Beginning(s, k + 1)) = f
  BY <1>3 DEF Front
<1> QED
  BY <1>4, <1>5, <1>6

\* A beginning is a prefix of the path and of the next beginning.
LEMMA BeginningIsPrefix ==
    ASSUME NEW s \in Seq(DataKeys), NEW k \in Nat, k < Len(s)
    PROVE  /\ IsPrefix(Beginning(s, k), s)
           /\ IsPrefix(Beginning(s, k), Beginning(s, k + 1))
<1>1. k \in 0 .. Len(s) /\ k + 1 \in 0 .. Len(s)
  OBVIOUS
<1>2. /\ Beginning(s, k) \in Seq(DataKeys) /\ Len(Beginning(s, k)) = k
  BY <1>1, BeginningFacts
<1>3. /\ Beginning(s, k + 1) \in Seq(DataKeys) /\ Len(Beginning(s, k + 1)) = k + 1
  BY <1>1, BeginningFacts
<1>4. SubSeq(Beginning(s, k), 1, k) = Beginning(s, k)
  BY <1>2, BeginningEnds DEF Beginning
<1>5. SubSeq(Beginning(s, k + 1), 1, k) = Beginning(s, k)
  <2>1. Len(Beginning(s, k + 1)) - 1 = k
    BY <1>3
  <2> QED
    BY <2>1, BeginningGrows DEF Front
<1>6. SubSeq(s, 1, k) = Beginning(s, k)
  BY DEF Beginning
<1> QED
  BY <1>2, <1>3, <1>4, <1>5, <1>6 DEF IsPrefix

\* Whatever is in a tree, its beginnings are there and are objects.
LEMMA TreesAreClosed ==
    ASSUME NEW t, IsTree(t), t \subseteq AllPaths, NEW s \in t
    PROVE  \A k \in 1 .. Len(s) : Beginning(s, k) \in t
<1>1. s \in Seq(DataKeys) /\ Len(s) \in Nat \ {0}
  BY PathsAreSequences
<1> DEFINE Cut == {n \in 0 .. Len(s) - 1 : Beginning(s, Len(s) - n) \notin t}
<1>2. SUFFICES ASSUME Cut # {} PROVE FALSE
  <2> SUFFICES ASSUME NEW k \in 1 .. Len(s), Beginning(s, k) \notin t PROVE Cut # {}
    BY <1>2
  <2>1. Len(s) - k \in 0 .. Len(s) - 1 /\ Len(s) - (Len(s) - k) = k
    BY <1>1
  <2> QED
    BY <2>1
<1>3. Cut \subseteq Nat
  OBVIOUS
<1>4. PICK n \in Cut : \A m \in Cut : ~ (m < n)
  <2>1. PICK n \in Cut : \A m \in Cut : <<m, n>> \notin OpToRel(<, Nat)
    BY <1>2, <1>3, NatLessThanWellFounded, WFMin
  <2>2. \A m \in Cut : ~ (m < n)
    BY <1>3, <2>1 DEF OpToRel
  <2> QED
    BY <2>2
<1>5. n # 0
  BY <1>1, BeginningEnds
<1>6. n \in Nat \ {0} /\ n < Len(s) /\ n - 1 \in 0 .. Len(s) - 1 /\ n - 1 < n
  BY <1>1, <1>5
<1>7. Beginning(s, Len(s) - (n - 1)) \in t
  BY <1>4, <1>6
<1>8. Len(s) - n \in Nat \ {0} /\ Len(s) - n < Len(s) /\ Len(s) - (n - 1) = (Len(s) - n) + 1
      /\ (Len(s) - n) + 1 \in 0 .. Len(s)
  BY <1>1, <1>5, <1>6
<1>9. Beginning(s, (Len(s) - n) + 1) \in t
      /\ Len(Beginning(s, (Len(s) - n) + 1)) > 1
  <2>1. Len(Beginning(s, (Len(s) - n) + 1)) = (Len(s) - n) + 1
    BY <1>1, <1>8, BeginningFacts
  <2> QED
    BY <1>7, <1>8, <2>1
<1>10. Front(Beginning(s, (Len(s) - n) + 1)) \in t
  BY <1>9 DEF IsTree
<1> QED
  BY <1>1, <1>8, <1>10, BeginningGrows

\* The invariant of the walk along a dotted replacement (merging.go:343-365).
THEOREM LookupInvariance == LookupSpec => []LookupIInv
<1>1. LookupInit => LookupIInv
  <2> SUFFICES ASSUME LookupInit PROVE LookupIInv
    OBVIOUS
  <2>1. source \in Seq(DataKeys) /\ Len(source) \in Nat \ {0}
    BY PathsAreSequences DEF LookupInit
  <2>2. level = <<>> /\ Len(level) = 0 /\ level \in Seq(DataKeys)
    BY DEF LookupInit
  <2>3. level = Beginning(source, Len(level))
    BY <2>1, <2>2, BeginningEnds
  <2> QED
    BY <2>1, <2>2, <2>3 DEF LookupInit, LookupIInv
<1>2. LookupIInv /\ [LookupNext]_lookupVars => LookupIInv'
  <2> SUFFICES ASSUME LookupIInv, [LookupNext]_lookupVars PROVE LookupIInv'
    OBVIOUS
  <2> DEFINE k == Len(level) + 1
  <2>1. /\ source \in Seq(DataKeys) /\ Len(source) \in Nat \ {0}
        /\ level \in Seq(DataKeys) /\ Len(level) \in Nat /\ Len(level) < Len(source)
        /\ k \in 0 .. Len(source)
    BY PathsAreSequences DEF LookupIInv
  <2>2. Append(level, source[k]) = Beginning(source, k)
    BY <2>1, BeginningGrows DEF LookupIInv
  <2>3. Beginning(source, k) \in Seq(DataKeys) /\ Len(Beginning(source, k)) = k
    BY <2>1, BeginningFacts
  <2>4. CASE Walk
    <3> DEFINE found == Append(level, source[k])
    <3>1. lookupPc = "walk" /\ UNCHANGED <<tree, source, param>>
      BY <2>4 DEF Walk
    <3>2. CASE k < Len(source) /\ found \in tree /\ IsObject(found)
      <4>1. level' = found /\ lookupPc' = lookupPc
        BY <2>4, <3>2 DEF Walk
      <4>2. level' \in Seq(DataKeys) /\ Len(level') = k /\ level' = Beginning(source', Len(level'))
        BY <2>2, <2>3, <3>1, <4>1
      <4>3. level' \in tree' /\ IsObject(level)'
        BY <3>1, <3>2, <4>1 DEF IsObject
      <4> QED
        BY <3>1, <3>2, <4>1, <4>2, <4>3 DEF LookupIInv
    <3>3. CASE ~(k < Len(source) /\ found \in tree /\ IsObject(found))
      <4>1. level' = level /\ lookupPc' = "last"
        BY <2>4, <3>3 DEF Walk
      <4>2. IsAtItsEnd
        BY <2>2, <3>3 DEF IsAtItsEnd
      <4>3. IsAtItsEnd'
        BY <3>1, <4>1, <4>2 DEF IsAtItsEnd, IsObject
      <4> QED
        BY <3>1, <4>1, <4>3 DEF LookupIInv, IsObject
    <3> QED
      BY <3>2, <3>3
  <2>5. CASE LookUp
    <3>1. /\ lookupPc = "last" /\ lookupPc' = "done" /\ UNCHANGED <<tree, source, level>>
          /\ param' = Found
      BY <2>5 DEF LookUp, Found
    <3>2. Found' = Found /\ (IsAtItsEnd => IsAtItsEnd')
      BY <3>1 DEF Found, IsAtItsEnd, IsObject
    <3> QED
      BY <3>1, <3>2 DEF LookupIInv, IsObject
  <2>6. CASE UNCHANGED lookupVars
    BY <2>6 DEF lookupVars, LookupIInv, IsObject, IsAtItsEnd, Found
  <2> QED
    BY <2>4, <2>5, <2>6 DEF LookupNext, LookupFinished
<1> QED
  BY <1>1, <1>2, PTL DEF LookupSpec

(***************************************************************************)
(* The walk stays in the tree, and so does what it finds.                  *)
(***************************************************************************)
THEOREM LookupTypeCorrect == LookupSpec => []LookupTypeOK
<1>1. LookupIInv => LookupTypeOK
  BY DEF LookupIInv, LookupTypeOK, Found
<1> QED
  BY <1>1, LookupInvariance, PTL

(***************************************************************************)
(* For data and replacements of any depth: what is there is found, and     *)
(* anything else that is found is the last key in the innermost object of  *)
(* the path (merging.go:333-405).                                          *)
(***************************************************************************)
THEOREM LookupSound == LookupSpec => []LookupIsSound
<1>1. LookupIInv => LookupIsSound
  <2> SUFFICES ASSUME LookupIInv PROVE LookupIsSound
    OBVIOUS
  <2> DEFINE k == Len(level) + 1
  <2>1. /\ source \in Seq(DataKeys) /\ Len(source) \in Nat \ {0}
        /\ level \in Seq(DataKeys) /\ Len(level) \in Nat /\ Len(level) < Len(source)
        /\ level = Beginning(source, Len(level)) /\ k \in 0 .. Len(source)
    BY PathsAreSequences DEF LookupIInv
  <2>2. k = Len(source) => Append(level, Last(source)) = source
    BY <2>1, BeginningGrows, BeginningEnds DEF Last
  <2>3. PathsAreFollowed
    <3> SUFFICES ASSUME lookupPc = "done", source \in tree PROVE param = source
      BY DEF PathsAreFollowed
    <3>1. \A j \in 1 .. Len(source) : Beginning(source, j) \in tree
      BY TreesAreClosed DEF LookupIInv
    <3>2. k = Len(source)
      <4> SUFFICES ASSUME k < Len(source) PROVE FALSE
        BY <2>1
      <4>1. k \in Nat /\ k \in 1 .. Len(source) /\ k + 1 \in 1 .. Len(source)
            /\ k + 1 \in 0 .. Len(source)
        BY <2>1
      <4>2. Len(Beginning(source, k)) = k /\ Len(Beginning(source, k + 1)) = k + 1
        BY <2>1, <4>1, BeginningFacts
      <4>3. IsPrefix(Beginning(source, k), Beginning(source, k + 1))
        BY <2>1, <4>1, BeginningIsPrefix
      <4>4. IsObject(Beginning(source, k))
        BY <3>1, <4>1, <4>2, <4>3 DEF IsObject
      <4> QED
        BY <3>1, <4>1, <4>4 DEF LookupIInv, IsAtItsEnd
    <3> QED
      BY <2>2, <3>2 DEF LookupIInv, Found
  <2>4. NoFurtherThanThePath
    <3> SUFFICES ASSUME lookupPc = "done", param # <<>> PROVE NoFurtherThanThePath!2
      BY DEF NoFurtherThanThePath
    <3>1. param = Append(level, Last(source))
      BY DEF LookupIInv, Found
    <3>2. Last(source) \in DataKeys
      BY <2>1 DEF Last
    <3>3. /\ param \in Seq(DataKeys) /\ Len(param) = k
          /\ \A j \in 1 .. Len(level) : param[j] = level[j]
          /\ param[k] = Last(source)
      BY <2>1, <3>1, <3>2, AppendProperties
    <3>4. Last(param) = Last(source)
      BY <3>3 DEF Last
    <3>5. Front(param) = level
      <4>1. /\ Beginning(param, Len(level)) \in Seq(DataKeys)
            /\ Len(Beginning(param, Len(level))) = Len(level)
            /\ \A j \in 1 .. Len(Beginning(param, Len(level))) :
                   Beginning(param, Len(level))[j] = level[j]
        <5>1. Len(level) \in 0 .. Len(param)
          BY <2>1, <3>3
        <5> QED
          BY <3>3, <5>1, BeginningFacts
      <4>2. Beginning(param, Len(level)) = level
        BY <2>1, <4>1, SeqEqual
      <4> QED
        BY <2>1, <3>3, <4>2 DEF Front, Beginning
    <3>6. IsPrefix(level, source)
      BY <2>1, BeginningIsPrefix
    <3>7. param # source => SubSeq(source, 1, Len(param)) \notin tree
                            \/ ~IsObject(SubSeq(source, 1, Len(param)))
      BY <2>1, <2>2, <3>1, <3>3 DEF LookupIInv, IsAtItsEnd, Beginning
    <3> QED
      BY <3>4, <3>5, <3>6, <3>7
  <2> QED
    BY <2>3, <2>4 DEF LookupIsSound
<1> QED
  BY <1>1, LookupInvariance, PTL
=============================================================================
