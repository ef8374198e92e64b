------------------------- MODULE ParallelMergeProofs ------------------------
(***************************************************************************)
(* Proofs about ParallelMerge, for any number of backends and any keys.    *)
(*                                                                         *)
(* The argument counts reports.  A backend's goroutine sends exactly one   *)
(* report, and a report is in a channel or has been taken by the collect   *)
(* loop; the loop takes one report per backend that was not skipped.       *)
(* Everything else follows from these counts.                              *)
(***************************************************************************)
EXTENDS ParallelMerge, MergeAccumulatorProofs

\* The goroutines in one of the given states, of the part function p.
InP(p, states) == {b \in Backends : p[b] \in states}

(***************************************************************************)
(* The inductive invariant.                                                *)
(***************************************************************************)
LaunchInv ==
    /\ \A b \in Backends : part[b] = "none" <=> b >= i
    /\ pc # "launch" => i = NumBackends + 1
    /\ pc = "launch" => collected = 0 /\ ~acc.has /\ acc.errs = <<>>
    /\ proxyCount = NumBackends - Cardinality(In({"skipped"}))

CollectInv ==
    /\ collected <= proxyCount
    /\ pc = "returned" => collected = proxyCount /\ reply = Result(acc)
    /\ acc.has <=> collected > Len(acc.errs)
    /\ Len(acc.errs) <= collected

ContentInv ==
    \A b \in Backends : part[b] = "delivered" =>
        \/ \E j \in 1 .. Len(parts) : parts[j] = b
        \/ acc.has /\ (acc.data.complete => got[b].complete)

IInv == TypeOK /\ LaunchInv /\ CollectInv /\ ReportsConserved /\ ContentInv

-----------------------------------------------------------------------------
(* Counting goroutines.                                                    *)

\* Any set of goroutines is finite and has at most NumBackends members.
LEMMA InCard ==
    ASSUME NEW p, NEW S
    PROVE  /\ IsFiniteSet(InP(p, S))
           /\ Cardinality(InP(p, S)) \in 0 .. NumBackends
           /\ Cardinality(InP(p, S)) = NumBackends => InP(p, S) = Backends
<1>1. InP(p, S) \in SUBSET Backends
  BY DEF InP
<1>2. /\ IsFiniteSet(InP(p, S))
      /\ Cardinality(InP(p, S)) <= Cardinality(Backends)
      /\ Cardinality(Backends) = Cardinality(InP(p, S))
            => Backends = InP(p, S)
  BY <1>1, BackendsCard, FS_Subset
<1>3. Cardinality(InP(p, S)) \in Nat
  BY <1>2, FS_CardinalityType
<1> QED
  BY <1>2, <1>3, BackendsCard, NumBackendsAssumption

\* The same, for the current and the next state.
LEMMA InCount ==
    \A S : /\ IsFiniteSet(In(S))
           /\ Cardinality(In(S)) \in 0 .. NumBackends
           /\ Cardinality(In(S))' \in 0 .. NumBackends
           /\ Cardinality(In(S)) = NumBackends <=> In(S) = Backends
<1> TAKE S
<1>1. In(S) = InP(part, S) /\ In(S)' = InP(part', S)
  BY DEF In, InP
<1> QED
  BY <1>1, InCard, BackendsCard

\* Only goroutine b changes state from p to q.
Moves(p, q, b) == \A c \in Backends : c # b => q[c] = p[c]

\* A goroutine that enters S adds one to the count of S.
LEMMA Enter ==
    ASSUME NEW p, NEW q, NEW b \in Backends, Moves(p, q, b),
           NEW S, p[b] \notin S, q[b] \in S
    PROVE  Cardinality(InP(q, S)) = Cardinality(InP(p, S)) + 1
<1>1. InP(q, S) = InP(p, S) \cup {b}
  BY DEF InP, Moves
<1>2. b \notin InP(p, S)
  BY DEF InP
<1> QED
  BY <1>1, <1>2, InCard, FS_AddElement

\* A goroutine that stays out of S leaves the count of S alone.
LEMMA Stay ==
    ASSUME NEW p, NEW q, NEW b \in Backends, Moves(p, q, b),
           NEW S, p[b] \notin S, q[b] \notin S
    PROVE  Cardinality(InP(q, S)) = Cardinality(InP(p, S))
<1>1. InP(q, S) = InP(p, S)
  BY DEF InP, Moves
<1> QED
  BY <1>1

\* What a step of one goroutine does to the counts.
LEMMA Counts ==
    ASSUME NEW b \in Backends, Moves(part, part', b)
    PROVE  \A S : part[b] \notin S =>
              Cardinality(In(S))' = IF part'[b] \in S
                                    THEN Cardinality(In(S)) + 1
                                    ELSE Cardinality(In(S))
<1> TAKE S
<1> SUFFICES ASSUME part[b] \notin S
             PROVE  Cardinality(In(S))' = IF part'[b] \in S
                                          THEN Cardinality(In(S)) + 1
                                          ELSE Cardinality(In(S))
  OBVIOUS
<1>1. In(S) = InP(part, S) /\ In(S)' = InP(part', S)
  BY DEF In, InP
<1>2. CASE part'[b] \in S
  BY <1>1, <1>2, Enter
<1>3. CASE part'[b] \notin S
  BY <1>1, <1>3, Stay
<1> QED
  BY <1>2, <1>3

\* Disjoint sets of goroutines are at most NumBackends together, and if they
\* are that many no goroutine is in neither.
LEMMA Disjoint ==
    ASSUME NEW p, NEW S, NEW T, S \cap T = {}
    PROVE  /\ Cardinality(InP(p, S)) + Cardinality(InP(p, T)) <= NumBackends
           /\ Cardinality(InP(p, S)) + Cardinality(InP(p, T)) = NumBackends
                 => \A b \in Backends : p[b] \in S \cup T
<1>1. InP(p, S) \cap InP(p, T) = {}
  BY DEF InP
<1>2. InP(p, S) \cup InP(p, T) = InP(p, S \cup T)
  BY DEF InP
<1>3. Cardinality(InP(p, S \cup T))
         = Cardinality(InP(p, S)) + Cardinality(InP(p, T))
  <2>1. IsFiniteSet(InP(p, S)) /\ IsFiniteSet(InP(p, T))
    BY InCard
  <2>2. Cardinality(InP(p, S) \cup InP(p, T))
           = Cardinality(InP(p, S)) + Cardinality(InP(p, T))
               - Cardinality(InP(p, S) \cap InP(p, T))
    BY <2>1, FS_Union
  <2>3. Cardinality(InP(p, S) \cap InP(p, T)) = 0
    BY <1>1, FS_EmptySet
  <2>4. /\ Cardinality(InP(p, S)) \in 0 .. NumBackends
        /\ Cardinality(InP(p, T)) \in 0 .. NumBackends
    BY InCard
  <2>5. Cardinality(InP(p, S \cup T))
           = Cardinality(InP(p, S) \cup InP(p, T))
    BY <1>2
  <2> QED
    BY <2>2, <2>3, <2>4, <2>5
<1>4. /\ Cardinality(InP(p, S \cup T)) \in 0 .. NumBackends
      /\ Cardinality(InP(p, S \cup T)) = NumBackends
            => InP(p, S \cup T) = Backends
  BY InCard
<1>5. InP(p, S \cup T) = Backends => \A b \in Backends : p[b] \in S \cup T
  BY DEF InP
<1>6. Cardinality(InP(p, S)) + Cardinality(InP(p, T)) <= NumBackends
  BY <1>3, <1>4
<1> QED
  BY <1>3, <1>4, <1>5, <1>6

-----------------------------------------------------------------------------
(* Type correctness.                                                       *)

\* The initial states are well-typed.
LEMMA InitType == Init => TypeOK
<1> SUFFICES ASSUME Init PROVE TypeOK
  OBVIOUS
<1>1. acc \in Accumulator /\ reply \in Reply
  BY NewAccType, NilType DEF Init
<1>2. got \in [Backends -> Response] /\ part \in [Backends -> PartState]
  BY NilType DEF Init, PartState
<1> QED
  BY <1>1, <1>2, NumBackendsAssumption DEF Init, TypeOK

-----------------------------------------------------------------------------
(* The inductive invariant: it holds initially and every action keeps it.  *)

\* The initial states satisfy the inductive invariant.
LEMMA InitInv == Init => IInv
<1> SUFFICES ASSUME Init PROVE IInv
  OBVIOUS
<1>1. TypeOK
  BY InitType
<1>2. acc.has = FALSE /\ acc.errs = <<>> /\ Len(acc.errs) = 0
  BY DEF Init, newIncrementalMergeAccumulator
<1>3. \A S : "none" \notin S => In(S) = {} /\ Cardinality(In(S)) = 0
  BY FS_EmptySet DEF Init, In
<1>4. LaunchInv
  BY <1>2, <1>3, NumBackendsAssumption DEF Init, LaunchInv, Backends
<1>5. CollectInv
  BY <1>2, NumBackendsAssumption DEF Init, CollectInv
<1>6. ReportsConserved
  BY <1>2, <1>3 DEF Init, ReportsConserved
<1>7. ContentInv
  BY DEF Init, ContentInv
<1> QED
  BY <1>1, <1>4, <1>5, <1>6, <1>7 DEF IInv

\* A filter that rejects a backend keeps the invariant.
LEMMA SkipInv == IInv /\ Skip => IInv'
<1> SUFFICES ASSUME IInv, Skip PROVE IInv'
  OBVIOUS
<1> USE DEF IInv
<1>1. /\ i \in Backends /\ part[i] = "none"
      /\ part \in [Backends -> PartState]
      /\ part' = [part EXCEPT ![i] = "skipped"]
      /\ Moves(part, part', i) /\ part'[i] = "skipped"
  BY NumBackendsAssumption DEF Skip, TypeOK, LaunchInv, Backends, Moves
<1>2. /\ Cardinality(In({"skipped"}))' = Cardinality(In({"skipped"})) + 1
      /\ Cardinality(In({"errored"}))'
            = Cardinality(In({"errored"}))
      /\ Cardinality(In({"delivered", "errored"}))'
            = Cardinality(In({"delivered", "errored"}))
  <2>1. i \in Backends /\ Moves(part, part', i)
    BY <1>1
  <2> QED
    BY <1>1, <2>1, Counts
<1>3. /\ Cardinality(In({"skipped"})) \in 0 .. NumBackends
      /\ Cardinality(In({"skipped"}))' \in 0 .. NumBackends
  BY InCount
<1>4. /\ proxyCount' = NumBackends - Cardinality(In({"skipped"}))'
      /\ proxyCount' \in 0 .. NumBackends
  BY <1>2, <1>3, NumBackendsAssumption DEF Skip, LaunchInv
<1>5. TypeOK'
  BY <1>1, <1>4, NumBackendsAssumption DEF Skip, TypeOK, PartState
<1>6. LaunchInv'
  BY <1>1, <1>4, NumBackendsAssumption DEF Skip, LaunchInv, TypeOK, Backends
<1>7. CollectInv'
  BY <1>4 DEF Skip, CollectInv, LaunchInv, TypeOK
<1>8. ReportsConserved'
  BY <1>2 DEF Skip, ReportsConserved
<1>9. ContentInv'
  BY <1>1 DEF Skip, ContentInv
<1> QED
  BY <1>5, <1>6, <1>7, <1>8, <1>9

\* Spawning a requestPart keeps the invariant.
LEMMA LaunchKeepsInv == IInv /\ Launch => IInv'
<1> SUFFICES ASSUME IInv, Launch PROVE IInv'
  OBVIOUS
<1> USE DEF IInv
<1>1. /\ i \in Backends /\ part[i] = "none"
      /\ part \in [Backends -> PartState]
      /\ part' = [part EXCEPT ![i] = "calling"]
      /\ Moves(part, part', i) /\ part'[i] = "calling"
  BY NumBackendsAssumption DEF Launch, TypeOK, LaunchInv, Backends, Moves
<1>2. /\ In({"skipped"})' = In({"skipped"})
      /\ In({"errored"})' = In({"errored"})
      /\ In({"delivered", "errored"})' = In({"delivered", "errored"})
  BY <1>1, Stay DEF In, InP, PartState
<1>3. TypeOK'
  BY <1>1, NumBackendsAssumption DEF Launch, TypeOK, PartState
<1>4. LaunchInv'
  BY <1>1, <1>2, NumBackendsAssumption DEF Launch, LaunchInv, TypeOK, Backends
<1>5. CollectInv'
  BY DEF Launch, CollectInv
<1>6. ReportsConserved'
  BY <1>2 DEF Launch, ReportsConserved
<1>7. ContentInv'
  BY <1>1 DEF Launch, ContentInv
<1> QED
  BY <1>3, <1>4, <1>5, <1>6, <1>7

\* Making the accumulator keeps the invariant.
LEMMA StartCollectInv == IInv /\ StartCollect => IInv'
<1> SUFFICES ASSUME IInv, StartCollect PROVE IInv'
  OBVIOUS
<1> USE DEF IInv
<1>1. /\ acc' \in Accumulator
      /\ ~acc'.has /\ acc'.errs = <<>> /\ Len(acc'.errs) = 0
  BY NewAccType DEF StartCollect, TypeOK, newIncrementalMergeAccumulator
<1>2. TypeOK'
  BY <1>1 DEF StartCollect, TypeOK
<1>3. LaunchInv'
  BY NumBackendsAssumption DEF StartCollect, LaunchInv, TypeOK, In
<1>4. CollectInv'
  BY <1>1 DEF StartCollect, CollectInv, LaunchInv
<1>5. ReportsConserved'
  BY <1>1 DEF StartCollect, ReportsConserved, LaunchInv, In
<1>6. ContentInv'
  BY DEF StartCollect, ContentInv, LaunchInv
<1> QED
  BY <1>2, <1>3, <1>4, <1>5, <1>6

\* Taking an error off the channel keeps the invariant.
LEMMA CollectErrorInv == IInv /\ CollectError => IInv'
<1> SUFFICES ASSUME IInv, CollectError PROVE IInv'
  OBVIOUS
<1> USE DEF IInv
<1>1. /\ Head(failed) \in Backends /\ Tail(failed) \in Seq(Backends)
      /\ Len(Tail(failed)) = Len(failed) - 1 /\ Len(failed) \in Nat
  BY DEF CollectError, TypeOK
<1>2. /\ acc' \in Accumulator
      /\ acc'.has = acc.has /\ ~acc'.data.complete
      /\ Len(acc'.errs) = Len(acc.errs) + 1
  <2>1. /\ acc \in Accumulator /\ acc.data \in Response
        /\ acc.errs \in Seq(Backends)
    BY DEF TypeOK, Accumulator
  <2>2. acc' = MergeError(acc, Head(failed))
    BY DEF CollectError
  <2>3. ~[acc.data EXCEPT !.complete = FALSE].complete
    BY <2>1 DEF Response
  <2>4. acc' \in Accumulator
    BY <1>1, <2>1, <2>2, AccType
  <2>5. Len(Append(acc.errs, Head(failed))) = Len(acc.errs) + 1
    BY <1>1, <2>1
  <2> QED
    BY <2>2, <2>3, <2>4, <2>5 DEF MergeError
<1>3. TypeOK'
  BY <1>1, <1>2, NumBackendsAssumption DEF CollectError, TypeOK
<1>4. LaunchInv'
  BY DEF CollectError, LaunchInv, In
<1>5. Len(acc.errs) \in Nat /\ collected \in Nat /\ proxyCount \in Nat
  BY DEF TypeOK, Accumulator
<1>6. CollectInv'
  BY <1>2, <1>5 DEF CollectError, CollectInv
<1>7. ReportsConserved'
  <2>1. \A S : In(S)' = In(S)
    BY DEF CollectError, In
  <2>2. Len(parts) \in Nat
    BY DEF TypeOK
  <2>3. \A S : Cardinality(In(S)) \in 0 .. NumBackends
    BY InCount
  <2>4. Len(failed') + Len(acc'.errs) = Cardinality(In({"errored"}))
    <3>1. Len(failed) + Len(acc.errs) = Cardinality(In({"errored"}))
      BY DEF ReportsConserved
    <3>2. Len(failed') = Len(failed) - 1
      BY <1>1 DEF CollectError
    <3> QED
      BY <1>1, <1>2, <1>5, <3>1, <3>2
  <2>5. Len(parts') + Len(failed') + collected'
           = Cardinality(In({"delivered", "errored"}))
    BY <1>1, <1>5, <2>2, <2>3 DEF CollectError, ReportsConserved
  <2> QED
    BY <2>1, <2>4, <2>5 DEF ReportsConserved
<1>8. ContentInv'
  BY <1>2 DEF CollectError, ContentInv
<1> QED
  BY <1>3, <1>4, <1>6, <1>7, <1>8

\* Taking a response off the channel keeps the invariant.
LEMMA CollectResponseInv == IInv /\ CollectResponse => IInv'
<1> SUFFICES ASSUME IInv, CollectResponse PROVE IInv'
  OBVIOUS
<1> USE DEF IInv
<1> DEFINE h == Head(parts)
<1>1. /\ h \in Backends /\ h = parts[1]
      /\ parts' \in Seq(Backends)
      /\ Len(parts') = Len(parts) - 1 /\ Len(parts) \in Nat
      /\ \A j \in 1 .. Len(parts) - 1 : parts'[j] = parts[j + 1]
  BY DEF CollectResponse, TypeOK
<1>2. got[h] \in Response /\ acc \in Accumulator /\ acc.data \in Response
  BY <1>1 DEF TypeOK, Accumulator
<1>3. /\ acc' \in Accumulator /\ acc'.has /\ acc'.errs = acc.errs
      /\ acc'.data.complete => got[h].complete
      /\ acc.has /\ acc'.data.complete => acc.data.complete
  <2>1. acc' = MergeResponse(acc, got[h])
    BY DEF CollectResponse
  <2>2. combineData(acc.data, got[h]).complete
           => acc.data.complete /\ got[h].complete
    BY <1>2, combineType
  <2> QED
    BY <1>2, <2>1, <2>2, AccType DEF MergeResponse
<1>4. TypeOK'
  BY <1>1, <1>3, NumBackendsAssumption DEF CollectResponse, TypeOK
<1>5. LaunchInv'
  BY DEF CollectResponse, LaunchInv, In
<1>6. Len(acc.errs) \in Nat /\ collected \in Nat /\ proxyCount \in Nat
         /\ Len(failed) \in Nat
  BY DEF TypeOK, Accumulator
<1>7. CollectInv'
  BY <1>3, <1>6 DEF CollectResponse, CollectInv
<1>8. ReportsConserved'
  BY <1>1, <1>3, <1>6 DEF CollectResponse, ReportsConserved, In
<1>9. ContentInv'
  <2> SUFFICES ASSUME NEW b \in Backends, part[b] = "delivered"
               PROVE  \/ \E j \in 1 .. Len(parts') : parts'[j] = b
                      \/ acc'.has /\ (acc'.data.complete => got[b].complete)
    BY DEF ContentInv, CollectResponse
  <2>1. CASE acc.has /\ (acc.data.complete => got[b].complete)
    BY <1>3, <2>1
  <2>2. CASE \E j \in 1 .. Len(parts) : parts[j] = b
    <3>1. PICK j \in 1 .. Len(parts) : parts[j] = b
      BY <2>2
    <3>2. CASE j = 1
      BY <1>1, <1>3, <3>1, <3>2
    <3>3. CASE j # 1
      <4>1. j - 1 \in 1 .. Len(parts') /\ parts'[j - 1] = b
        BY <1>1, <3>1, <3>3
      <4> QED
        BY <4>1
    <3> QED
      BY <3>2, <3>3
  <2> QED
    BY <2>1, <2>2 DEF ContentInv
<1> QED
  BY <1>4, <1>5, <1>7, <1>8, <1>9

\* Returning keeps the invariant.
LEMMA ReturnInv == IInv /\ Return => IInv'
<1> SUFFICES ASSUME IInv, Return PROVE IInv'
  OBVIOUS
<1> USE DEF IInv
<1>1. TypeOK'
  BY AccType DEF Return, TypeOK
<1>2. LaunchInv'
  BY DEF Return, LaunchInv, In
<1>3. CollectInv'
  BY DEF Return, CollectInv, Result
<1>4. ReportsConserved'
  BY DEF Return, ReportsConserved, In
<1>5. ContentInv'
  BY DEF Return, ContentInv
<1> QED
  BY <1>1, <1>2, <1>3, <1>4, <1>5

(***************************************************************************)
(* A step of requestPart b that only changes part[b], from a state before  *)
(* sending to another one, keeps the invariant.                            *)
(***************************************************************************)
LEMMA QuietPartInv ==
    ASSUME IInv, NEW b \in Backends, NEW s \in {"deliver", "fail"},
           part[b] \in {"calling", "deliver"},
           part' = [part EXCEPT ![b] = s],
           got' \in [Backends -> Response],
           \A c \in Backends : c # b => got'[c] = got[c],
           UNCHANGED <<mergerVars, ctxDone, parts, failed>>
    PROVE  IInv'
<1> USE DEF IInv, mergerVars
<1>1. /\ Moves(part, part', b) /\ part'[b] = s
      /\ part[b] # "none" /\ s # "none"
  BY DEF TypeOK, Moves
<1>2. /\ Cardinality(In({"skipped"}))' = Cardinality(In({"skipped"}))
      /\ Cardinality(In({"errored"}))' = Cardinality(In({"errored"}))
      /\ Cardinality(In({"delivered", "errored"}))'
            = Cardinality(In({"delivered", "errored"}))
  BY <1>1, Counts
<1>3. TypeOK'
  BY DEF TypeOK, PartState
<1>4. LaunchInv'
  BY <1>1, <1>2 DEF LaunchInv, TypeOK, Moves
<1>5. CollectInv'
  BY DEF CollectInv, Result
<1>6. ReportsConserved'
  BY <1>2 DEF ReportsConserved
<1>7. ContentInv'
  BY <1>1 DEF ContentInv, Moves
<1> QED
  BY <1>3, <1>4, <1>5, <1>6, <1>7

\* The return of next() and a delivery that comes too late keep the invariant.
LEMMA CallInv ==
    ASSUME IInv, NEW b \in Backends,
           CallAnswers(b) \/ CallFails(b) \/ DeliverTooLate(b)
    PROVE  IInv'
<1>1. CASE CallAnswers(b)
  <2>1. PICK r \in ResponsesOf(b) : got' = [got EXCEPT ![b] = r]
    BY <1>1 DEF CallAnswers
  <2>2. r \in Response
    BY ResponsesType
  <2>3. /\ got' \in [Backends -> Response]
        /\ \A c \in Backends : c # b => got'[c] = got[c]
    BY <2>1, <2>2 DEF IInv, TypeOK
  <2>4. /\ part[b] \in {"calling", "deliver"}
        /\ part' = [part EXCEPT ![b] = "deliver"]
        /\ UNCHANGED <<mergerVars, ctxDone, parts, failed>>
    BY <1>1 DEF CallAnswers
  <2> QED
    BY <2>3, <2>4, QuietPartInv
<1>2. CASE CallFails(b) \/ DeliverTooLate(b)
  <2>1. /\ part[b] \in {"calling", "deliver"}
        /\ part' = [part EXCEPT ![b] = "fail"]
        /\ UNCHANGED <<mergerVars, ctxDone, parts, failed>>
        /\ got' = got
    BY <1>2 DEF CallFails, DeliverTooLate
  <2>2. got' \in [Backends -> Response]
    BY <2>1 DEF IInv, TypeOK
  <2> QED
    BY <2>1, <2>2, QuietPartInv
<1> QED
  BY <1>1, <1>2

\* Sending a response keeps the invariant.
LEMMA DeliverInv ==
    ASSUME IInv, NEW b \in Backends, Deliver(b)
    PROVE  IInv'
<1> USE DEF IInv, mergerVars
<1>1. /\ Moves(part, part', b) /\ part'[b] = "delivered"
      /\ part[b] = "deliver"
  BY DEF Deliver, TypeOK, Moves
<1>2. /\ Cardinality(In({"skipped"}))' = Cardinality(In({"skipped"}))
      /\ Cardinality(In({"errored"}))' = Cardinality(In({"errored"}))
      /\ Cardinality(In({"delivered", "errored"}))'
            = Cardinality(In({"delivered", "errored"})) + 1
  BY <1>1, Counts
<1>3. /\ parts' = Append(parts, b) /\ parts' \in Seq(Backends)
      /\ Len(parts') = Len(parts) + 1 /\ Len(parts) \in Nat
      /\ \A j \in 1 .. Len(parts) : parts'[j] = parts[j]
      /\ parts'[Len(parts) + 1] = b
  BY DEF Deliver, TypeOK
<1>4. TypeOK'
  BY <1>3 DEF Deliver, TypeOK, PartState
<1>5. LaunchInv'
  BY <1>1, <1>2 DEF Deliver, LaunchInv, TypeOK, Moves
<1>6. CollectInv'
  BY DEF Deliver, CollectInv, Result
<1>7. ReportsConserved'
  <2>1. Len(failed) \in Nat /\ collected \in Nat
    BY DEF TypeOK
  <2>2. Len(parts) + Len(failed) + collected
           = Cardinality(In({"delivered", "errored"}))
    BY DEF ReportsConserved
  <2>3. Len(parts') + Len(failed) + collected
           = Cardinality(In({"delivered", "errored"})) + 1
    BY <1>3, <2>1, <2>2
  <2> QED
    BY <1>2, <2>3 DEF Deliver, ReportsConserved
<1>8. ContentInv'
  BY <1>1, <1>3 DEF Deliver, ContentInv, Moves
<1> QED
  BY <1>4, <1>5, <1>6, <1>7, <1>8

\* Sending an error keeps the invariant.
LEMMA SendErrorInv ==
    ASSUME IInv, NEW b \in Backends, SendError(b)
    PROVE  IInv'
<1> USE DEF IInv, mergerVars
<1>1. /\ Moves(part, part', b) /\ part'[b] = "errored"
      /\ part[b] = "fail"
  BY DEF SendError, TypeOK, Moves
<1>2. /\ Cardinality(In({"skipped"}))' = Cardinality(In({"skipped"}))
      /\ Cardinality(In({"errored"}))' = Cardinality(In({"errored"})) + 1
      /\ Cardinality(In({"delivered", "errored"}))'
            = Cardinality(In({"delivered", "errored"})) + 1
  BY <1>1, Counts
<1>3. /\ failed' \in Seq(Backends)
      /\ Len(failed') = Len(failed) + 1 /\ Len(failed) \in Nat
  BY DEF SendError, TypeOK
<1>4. TypeOK'
  BY <1>3 DEF SendError, TypeOK, PartState
<1>5. LaunchInv'
  BY <1>1, <1>2 DEF SendError, LaunchInv, TypeOK, Moves
<1>6. CollectInv'
  BY DEF SendError, CollectInv, Result
<1>7. ReportsConserved'
  <2>1. Len(parts) \in Nat /\ collected \in Nat /\ Len(acc.errs) \in Nat
    BY DEF TypeOK, Accumulator
  <2>2. /\ Len(failed) + Len(acc.errs) = Cardinality(In({"errored"}))
        /\ Len(parts) + Len(failed) + collected
              = Cardinality(In({"delivered", "errored"}))
    BY DEF ReportsConserved
  <2>3. Len(failed') + Len(acc.errs) = Cardinality(In({"errored"})) + 1
    <3> DEFINE f == Len(failed)
               e == Len(acc.errs)
               c == Cardinality(In({"errored"}))
    <3>1. f \in Nat /\ e \in Nat /\ c \in Nat /\ f + e = c
      BY <1>3, <2>1, <2>2, InCount
    <3>2. Len(failed') = f + 1
      BY <1>3
    <3> HIDE DEF f, e, c
    <3>3. Len(failed') + e = c + 1
      BY <3>1, <3>2
    <3> QED
      BY <3>3 DEF c, e
  <2>4. Len(parts) + Len(failed') + collected
           = Cardinality(In({"delivered", "errored"})) + 1
    BY <1>3, <2>1, <2>2
  <2> QED
    BY <1>2, <2>3, <2>4 DEF SendError, ReportsConserved
<1>8. ContentInv'
  BY <1>1 DEF SendError, ContentInv, Moves
<1> QED
  BY <1>4, <1>5, <1>6, <1>7, <1>8

\* A step that changes nothing but the context keeps the invariant.
LEMMA QuietInv ==
    ASSUME IInv, ctxDone' \in BOOLEAN,
           UNCHANGED <<mergerVars, part, got, parts, failed>>
    PROVE  IInv'
BY DEF IInv, TypeOK, LaunchInv, CollectInv, ReportsConserved, ContentInv, In,
       mergerVars, Result

\* Every step keeps the inductive invariant.
LEMMA StepInv == IInv /\ [Next]_vars => IInv'
<1> SUFFICES ASSUME IInv, [Next]_vars PROVE IInv'
  OBVIOUS
<1>1. CASE MergerStep
  BY <1>1, SkipInv, LaunchKeepsInv, StartCollectInv, CollectErrorInv,
     CollectResponseInv, ReturnInv DEF MergerStep
<1>2. ASSUME NEW b \in Backends, CallReturns(b) \/ PartSends(b)
      PROVE  IInv'
  BY <1>2, CallInv, DeliverInv, SendErrorInv DEF CallReturns, PartSends
<1>3. CASE ContextDone
  BY <1>3, QuietInv DEF ContextDone
<1>4. CASE Finished \/ UNCHANGED vars
  <2>1. /\ UNCHANGED <<mergerVars, part, got, parts, failed>>
        /\ ctxDone' = ctxDone
    BY <1>4 DEF Finished, vars, mergerVars
  <2>2. ctxDone' \in BOOLEAN
    BY <2>1 DEF IInv, TypeOK
  <2> QED
    BY <2>1, <2>2, QuietInv
<1> QED
  BY <1>1, <1>2, <1>3, <1>4 DEF Next

\* The inductive invariant holds in every reachable state.
THEOREM Invariance == Spec => []IInv
BY InitInv, StepInv, PTL DEF Spec

-----------------------------------------------------------------------------
(* The theorems about the specification.                                   *)

\* The variables of the merger keep their types.
THEOREM TypeCorrectness == Spec => []TypeOK
BY Invariance, PTL DEF IInv

\* Reports are neither lost nor duplicated between the goroutines that send
\* them and the accumulator.
THEOREM Conservation == Spec => []ReportsConserved
BY Invariance, PTL DEF IInv

\* A goroutine that is about to send is not among those that have sent, so
\* fewer than NumBackends reports are in the channels.
LEMMA RoomToSend == IInv => SendsNeverBlock
<1> SUFFICES ASSUME IInv, NEW b \in Backends, part[b] \in {"deliver", "fail"}
             PROVE  Len(parts) < ChanCap /\ Len(failed) < ChanCap
  BY DEF SendsNeverBlock, ChanCap
<1> USE DEF IInv
<1>1. /\ Cardinality(In({"delivered", "errored"})) \in 0 .. NumBackends
      /\ Cardinality(In({"delivered", "errored"})) # NumBackends
  <2>1. /\ Cardinality(InP(part, {"delivered", "errored"})) \in 0 .. NumBackends
        /\ Cardinality(InP(part, {"delivered", "errored"})) = NumBackends
              => InP(part, {"delivered", "errored"}) = Backends
    BY InCard
  <2>2. InP(part, {"delivered", "errored"}) # Backends
    BY DEF InP
  <2> QED
    BY <2>1, <2>2 DEF In, InP
<1>2. Len(parts) \in Nat /\ Len(failed) \in Nat /\ collected \in Nat
  BY DEF TypeOK
<1>3. Len(parts) + Len(failed) + collected
         = Cardinality(In({"delivered", "errored"}))
  BY DEF ReportsConserved
<1> QED
  BY <1>1, <1>2, <1>3, NumBackendsAssumption DEF ChanCap

\* No requestPart goroutine ever blocks on a channel.
THEOREM NoBlockedSend == Spec => []SendsNeverBlock
BY Invariance, RoomToSend, PTL

(***************************************************************************)
(* When the collect loop has taken one report per backend that was not     *)
(* skipped, the counts leave no room for a goroutine still at work or a    *)
(* report still in a channel.                                              *)
(***************************************************************************)
LEMMA AllReported ==
    ASSUME IInv, collected = proxyCount
    PROVE  /\ \A b \in Backends : part[b] \in {"skipped", "delivered", "errored"}
           /\ Len(parts) = 0 /\ Len(failed) = 0
           /\ Cardinality(In({"errored"})) = Len(acc.errs)
           /\ collected = NumBackends - Cardinality(In({"skipped"}))
<1> USE DEF IInv
<1> DEFINE sent == Cardinality(In({"delivered", "errored"}))
           skipped == Cardinality(In({"skipped"}))
<1>1. /\ skipped + sent <= NumBackends
      /\ skipped + sent = NumBackends
            => \A b \in Backends :
                  part[b] \in {"skipped", "delivered", "errored"}
  <2>1. {"skipped"} \cap {"delivered", "errored"} = {}
    OBVIOUS
  <2>2. /\ Cardinality(InP(part, {"skipped"}))
             + Cardinality(InP(part, {"delivered", "errored"})) <= NumBackends
        /\ Cardinality(InP(part, {"skipped"}))
             + Cardinality(InP(part, {"delivered", "errored"})) = NumBackends
               => \A b \in Backends :
                     part[b] \in {"skipped"} \cup {"delivered", "errored"}
    BY <2>1, Disjoint
  <2> QED
    BY <2>2 DEF In, InP
<1>2. /\ skipped \in Nat /\ sent \in Nat
      /\ Len(parts) \in Nat /\ Len(failed) \in Nat /\ Len(acc.errs) \in Nat
  BY InCount DEF TypeOK, Accumulator
<1>3. collected = NumBackends - skipped
  BY DEF LaunchInv
<1>4. /\ Len(parts) + Len(failed) + collected = sent
      /\ Len(failed) + Len(acc.errs) = Cardinality(In({"errored"}))
  BY DEF ReportsConserved
<1> HIDE DEF sent, skipped
<1>5. Len(parts) = 0 /\ Len(failed) = 0 /\ skipped + sent = NumBackends
  BY <1>1, <1>2, <1>3, <1>4, NumBackendsAssumption
<1>6. Cardinality(In({"errored"})) = Len(acc.errs)
  BY <1>2, <1>4, <1>5
<1> QED
  BY <1>1, <1>3, <1>5, <1>6 DEF skipped

\* So it is when the merger has returned.
LEMMA AllSettled ==
    ASSUME IInv, pc = "returned"
    PROVE  /\ \A b \in Backends : part[b] \in {"skipped", "delivered", "errored"}
           /\ Len(parts) = 0 /\ Len(failed) = 0
           /\ Cardinality(In({"errored"})) = Len(acc.errs)
           /\ collected = NumBackends - Cardinality(In({"skipped"}))
BY AllReported DEF IInv, CollectInv

\* parallelMerge returns only after the last report.
THEOREM NoLateReport == Spec => []ReturnsAfterLastReport
<1>1. IInv => ReturnsAfterLastReport
  <2> SUFFICES ASSUME IInv, pc = "returned"
               PROVE  /\ In({"none", "calling", "deliver", "fail"}) = {}
                      /\ parts = <<>> /\ failed = <<>>
    BY DEF ReturnsAfterLastReport
  <2>1. parts \in Seq(Backends) /\ failed \in Seq(Backends)
    BY DEF IInv, TypeOK
  <2>2. parts = <<>> /\ failed = <<>>
    BY <2>1, AllSettled
  <2>3. In({"none", "calling", "deliver", "fail"}) = {}
    BY AllSettled DEF In
  <2> QED
    BY <2>2, <2>3
<1> QED
  BY <1>1, Invariance, PTL

\* A reply marked complete vouches for every backend not filtered out.
THEOREM CompleteIsTrue == Spec => []CompleteReplyIsTrue
<1>1. IInv => CompleteReplyIsTrue
  <2> SUFFICES ASSUME IInv, pc = "returned", reply.has, reply.data.complete
               PROVE  /\ reply.errs = <<>>
                      /\ In({"errored"}) = {}
                      /\ \A b \in In({"delivered"}) : got[b].complete
    BY DEF CompleteReplyIsTrue
  <2>1. /\ acc \in Accumulator /\ acc.data \in Response
        /\ acc.errs \in Seq(Backends) /\ reply = Result(acc)
    BY DEF IInv, TypeOK, CollectInv, Accumulator
  <2>2. reply.errs = acc.errs
    BY <2>1 DEF Result
  <2>3. ~(acc.pending > 0 \/ Len(acc.errs) > 0) /\ reply.data = acc.data
    BY <2>1 DEF Result, Response
  <2>4. acc.errs = <<>> /\ Len(acc.errs) = 0
    BY <2>1, <2>3
  <2>5. In({"errored"}) = {}
    <3>1. IsFiniteSet(In({"errored"}))
      BY InCount
    <3>2. Cardinality(In({"errored"})) = 0
      BY <2>4, AllSettled
    <3> QED
      BY <3>1, <3>2, FS_EmptySet
  <2>6. ASSUME NEW b \in Backends, part[b] = "delivered"
        PROVE  got[b].complete
    <3>1. Len(parts) = 0
      BY AllSettled
    <3> QED
      BY <2>3, <2>6, <3>1 DEF IInv, ContentInv
  <2> QED
    BY <2>2, <2>4, <2>5, <2>6 DEF In
<1> QED
  BY <1>1, Invariance, PTL

\* (nil, nil) is the answer exactly when every backend was filtered out.
THEOREM NilNil == Spec => []NilNilOnlyIfAllSkipped
<1>1. IInv => NilNilOnlyIfAllSkipped
  <2> SUFFICES ASSUME IInv, pc = "returned"
               PROVE  ~reply.has /\ reply.errs = <<>>
                         <=> In({"skipped"}) = Backends
    BY DEF NilNilOnlyIfAllSkipped
  <2>1. /\ acc \in Accumulator /\ acc.errs \in Seq(Backends)
        /\ Len(acc.errs) \in Nat /\ collected \in Nat
        /\ reply = Result(acc)
    BY DEF IInv, TypeOK, CollectInv, Accumulator
  <2>2. reply.has = acc.has /\ reply.errs = acc.errs
    BY <2>1 DEF Result
  <2>3. acc.errs = <<>> <=> Len(acc.errs) = 0
    BY <2>1
  <2>4. ~acc.has /\ acc.errs = <<>> <=> collected = 0
    BY <2>1, <2>3 DEF IInv, CollectInv
  <2>5. collected = 0 <=> Cardinality(In({"skipped"})) = NumBackends
    <3>1. Cardinality(In({"skipped"})) \in 0 .. NumBackends
      BY InCount
    <3>2. collected = NumBackends - Cardinality(In({"skipped"}))
      BY AllSettled
    <3> QED
      BY <3>1, <3>2, NumBackendsAssumption
  <2>6. Cardinality(In({"skipped"})) = NumBackends
           <=> In({"skipped"}) = Backends
    BY InCount
  <2> QED
    BY <2>2, <2>4, <2>5, <2>6
<1> QED
  BY <1>1, Invariance, PTL

\* The safety of the merger as the runs check it: the conjuncts hold together.
THEOREM Safety == Spec => []MergerSafety
<1> QED
  BY Conservation, NoBlockedSend, NoLateReport, CompleteIsTrue, NilNil, PTL
     DEF MergerSafety

\* No step raises the flag of the accumulated response or drops a key of it.
THEOREM Monotone == Spec => MergeIsMonotone
<1> DEFINE Mono == acc.has =>
              /\ acc'.has
              /\ acc'.data.complete => acc.data.complete
              /\ \A k \in Keys : acc.data.data[k] # Nobody
                                    => acc'.data.data[k] # Nobody
<1>1. IInv /\ [Next]_vars => [Mono]_vars
  <2> SUFFICES ASSUME IInv, [Next]_vars, acc.has
               PROVE  Mono
    OBVIOUS
  <2>1. acc \in Accumulator /\ acc.data \in Response
    BY DEF IInv, TypeOK, Accumulator
  <2>2. CASE acc' = acc
    BY <2>2
  <2>3. CASE StartCollect
    BY <2>3 DEF StartCollect, IInv, LaunchInv
  <2>4. CASE CollectError
    <3>1. acc'.has /\ acc'.data = [acc.data EXCEPT !.complete = FALSE]
      BY <2>4 DEF CollectError, MergeError
    <3> QED
      BY <2>1, <3>1 DEF Response
  <2>5. CASE CollectResponse
    <3>1. got[Head(parts)] \in Response
      BY <2>5 DEF CollectResponse, IInv, TypeOK
    <3>2. /\ acc'.has
          /\ acc'.data = combineData(acc.data, got[Head(parts)])
      BY <2>5 DEF CollectResponse, MergeResponse
    <3> QED
      BY <2>1, <3>1, <3>2, combineType
  <2> QED
    BY <2>2, <2>3, <2>4, <2>5
       DEF Next, MergerStep, Skip, Launch, Return, CallReturns, CallAnswers,
           CallFails, PartSends, Deliver, DeliverTooLate, SendError,
           ContextDone, Finished, vars, mergerVars
<1> QED
  BY <1>1, Invariance, PTL DEF Spec, MergeIsMonotone

-----------------------------------------------------------------------------
(* The contract: parallelMerge implements MergeContract.                   *)

\* The backends whose response the collect loop has taken.
Merged == {b \in Backends : /\ part[b] = "delivered"
                            /\ \A j \in 1 .. Len(parts) : parts[j] # b}

\* The channels hold each report once, and errors lose nobody.
ChannelInv ==
    /\ \A j \in 1 .. Len(parts) : part[parts[j]] = "delivered"
    /\ \A j, l \in 1 .. Len(parts) : parts[j] = parts[l] => j = l
    /\ \A j \in 1 .. Len(failed) : part[failed[j]] = "errored"
    /\ \A j \in 1 .. Len(acc.errs) : part[acc.errs[j]] = "errored"
    /\ \A b \in Backends : part[b] = "errored" =>
          \/ \E j \in 1 .. Len(failed) : failed[j] = b
          \/ \E j \in 1 .. Len(acc.errs) : acc.errs[j] = b

\* The accumulator stands for what the loop has taken.
FoldInv ==
    /\ \A b \in Backends : part[b] \in {"deliver", "delivered"}
                              => got[b] \in ResponsesOf(b)
    /\ Folded(acc, Merged, got)
    /\ pc # "launch" => acc.pending = proxyCount - collected

CInv == IInv /\ ChannelInv /\ FoldInv

\* The initial states satisfy it.
LEMMA InitContract == Init => CInv
<1> SUFFICES ASSUME Init PROVE CInv
  OBVIOUS
<1>1. Merged = {} /\ acc.errs = <<>>
  BY DEF Init, Merged, newIncrementalMergeAccumulator
<1>2. Folded(acc, Merged, got)
  BY <1>1, FoldedNew DEF Init
<1>3. FoldInv
  BY <1>2 DEF Init, FoldInv
<1>4. ChannelInv
  BY <1>1 DEF Init, ChannelInv
<1> QED
  BY <1>3, <1>4, InitInv DEF CInv

\* A step that sends and takes no report keeps it.
LEMMA QuietContract ==
    ASSUME CInv, IInv',
           UNCHANGED <<parts, failed, acc, collected>>,
           \A b \in Backends : /\ part'[b] = "delivered" <=> part[b] = "delivered"
                               /\ part'[b] = "errored" <=> part[b] = "errored"
                               /\ part'[b] \in {"deliver", "delivered"}
                                     => got'[b] \in ResponsesOf(b)
                               /\ part[b] = "delivered" => got'[b] = got[b],
           pc' # "launch" => pc # "launch" /\ proxyCount' = proxyCount
    PROVE  CInv'
<1> USE DEF CInv
<1>1. \A j \in 1 .. Len(parts) : parts[j] \in Backends
  BY DEF IInv, TypeOK
<1>2. \A j \in 1 .. Len(failed) : failed[j] \in Backends
  BY DEF IInv, TypeOK
<1>3. \A j \in 1 .. Len(acc.errs) : acc.errs[j] \in Backends
  BY DEF IInv, TypeOK, Accumulator
<1>4. ChannelInv'
  BY <1>1, <1>2, <1>3 DEF ChannelInv
<1>5. Merged' = Merged
  BY DEF Merged
<1>6. Folded(acc, Merged, got')
  <2>1. Folded(acc, Merged, got) /\ \A b \in Merged : got[b] = got'[b]
    BY DEF FoldInv, Merged
  <2> QED
    BY <2>1, FoldedSame
<1>7. FoldInv'
  BY <1>5, <1>6 DEF FoldInv
<1> QED
  BY <1>4, <1>7

\* Making the accumulator keeps it: nothing was folded before.
LEMMA StartCollectContract == CInv /\ StartCollect /\ IInv' => CInv'
<1> SUFFICES ASSUME CInv, StartCollect, IInv' PROVE CInv'
  OBVIOUS
<1> USE DEF CInv
<1>1. /\ ~acc.has /\ acc.errs = <<>> /\ collected = 0
      /\ acc' = newIncrementalMergeAccumulator(proxyCount)
      /\ UNCHANGED <<proxyCount, part, got, parts, failed, collected>>
  BY DEF StartCollect, IInv, LaunchInv
<1>2. Merged = {} /\ Merged' = Merged
  BY <1>1 DEF FoldInv, Folded, Merged
<1>3. Folded(acc', Merged', got')
  BY <1>1, <1>2, FoldedNew
<1>4. acc'.errs = acc.errs /\ acc'.pending = proxyCount
  BY <1>1 DEF newIncrementalMergeAccumulator
<1>5. proxyCount \in Nat
  BY DEF IInv, TypeOK
<1>6. FoldInv'
  BY <1>1, <1>3, <1>4, <1>5 DEF FoldInv
<1>7. ChannelInv'
  BY <1>1, <1>4 DEF ChannelInv
<1> QED
  BY <1>6, <1>7

\* Taking an error keeps it: the error moves from the channel to the list.
LEMMA CollectErrorContract == CInv /\ CollectError /\ IInv' => CInv'
<1> SUFFICES ASSUME CInv, CollectError, IInv' PROVE CInv'
  OBVIOUS
<1> USE DEF CInv
<1> DEFINE h == Head(failed)
<1>1. /\ acc \in Accumulator /\ acc.errs \in Seq(Backends)
      /\ acc.pending \in Int /\ failed \in Seq(Backends)
      /\ proxyCount \in Nat /\ collected \in Nat
  BY DEF IInv, TypeOK, Accumulator
<1>2. /\ failed # <<>> /\ pc = "collect" /\ acc' = MergeError(acc, h)
      /\ failed' = Tail(failed) /\ collected' = collected + 1
      /\ UNCHANGED <<pc, proxyCount, part, got, parts>>
  BY DEF CollectError
<1>3. /\ h \in Backends /\ h = failed[1] /\ Len(failed) \in Nat
      /\ Len(failed') = Len(failed) - 1 /\ Len(failed) > 0
      /\ \A j \in 1 .. Len(failed) - 1 : failed'[j] = failed[j + 1]
  BY <1>1, <1>2
<1>4. /\ acc'.errs = Append(acc.errs, h)
      /\ acc'.pending = acc.pending - 1
  BY <1>2 DEF MergeError
<1>5. /\ Len(acc'.errs) = Len(acc.errs) + 1 /\ Len(acc.errs) \in Nat
      /\ acc'.errs[Len(acc.errs) + 1] = h
      /\ \A j \in 1 .. Len(acc.errs) : acc'.errs[j] = acc.errs[j]
  BY <1>1, <1>3, <1>4
<1>6. Merged' = Merged
  BY <1>2 DEF Merged
<1>7. Folded(acc', Merged', got')
  BY <1>1, <1>2, <1>3, <1>6, FoldedError DEF FoldInv
<1>8. FoldInv'
  BY <1>1, <1>2, <1>4, <1>7 DEF FoldInv
<1>9. ASSUME NEW b \in Backends, part[b] = "errored"
      PROVE  \/ \E j \in 1 .. Len(failed') : failed'[j] = b
             \/ \E j \in 1 .. Len(acc'.errs) : acc'.errs[j] = b
  <2>1. CASE \E j \in 1 .. Len(failed) : failed[j] = b
    <3>1. PICK j \in 1 .. Len(failed) : failed[j] = b
      BY <2>1
    <3>2. CASE j = 1
      BY <1>3, <1>5, <3>1, <3>2
    <3>3. CASE j # 1
      <4>1. j - 1 \in 1 .. Len(failed') /\ failed'[j - 1] = b
        BY <1>3, <3>1, <3>3
      <4> QED
        BY <4>1
    <3> QED
      BY <3>2, <3>3
  <2>2. CASE \E j \in 1 .. Len(acc.errs) : acc.errs[j] = b
    BY <1>5, <2>2
  <2> QED
    BY <1>9, <2>1, <2>2 DEF ChannelInv
<1>10. part[h] = "errored"
  BY <1>3 DEF ChannelInv
<1>11. ChannelInv'
  <2>1. \A j \in 1 .. Len(failed') : part'[failed'[j]] = "errored"
    BY <1>2, <1>3 DEF ChannelInv
  <2>2. \A j \in 1 .. Len(acc'.errs) : part'[acc'.errs[j]] = "errored"
    <3>1. part' = part /\ \A j \in 1 .. Len(acc.errs) : part[acc.errs[j]] = "errored"
      BY <1>2 DEF ChannelInv
    <3>2. ASSUME NEW j \in 1 .. Len(acc'.errs)
          PROVE  j \in 1 .. Len(acc.errs) \/ j = Len(acc.errs) + 1
      BY <1>5
    <3> QED
      BY <1>5, <1>10, <3>1, <3>2
  <2> QED
    BY <1>2, <1>9, <2>1, <2>2 DEF ChannelInv
<1> QED
  BY <1>8, <1>11

\* Taking a response keeps it: its backend was not merged before.
LEMMA CollectResponseContract == CInv /\ CollectResponse /\ IInv' => CInv'
<1> SUFFICES ASSUME CInv, CollectResponse, IInv' PROVE CInv'
  OBVIOUS
<1> USE DEF CInv
<1> DEFINE h == Head(parts)
<1>1. /\ acc \in Accumulator /\ acc.pending \in Int
      /\ parts \in Seq(Backends)
      /\ proxyCount \in Nat /\ collected \in Nat
  BY DEF IInv, TypeOK, Accumulator
<1>2. /\ parts # <<>> /\ pc = "collect" /\ acc' = MergeResponse(acc, got[h])
      /\ parts' = Tail(parts) /\ collected' = collected + 1
      /\ UNCHANGED <<pc, proxyCount, part, got, failed>>
  BY DEF CollectResponse
<1>3. /\ h \in Backends /\ h = parts[1] /\ Len(parts) \in Nat
      /\ Len(parts') = Len(parts) - 1 /\ Len(parts) > 0
      /\ \A j \in 1 .. Len(parts) - 1 : parts'[j] = parts[j + 1]
  BY <1>1, <1>2
<1>4. /\ part[h] = "delivered"
      /\ \A j \in 1 .. Len(parts) : j # 1 => parts[j] # h
  BY <1>3 DEF ChannelInv
<1>5. h \notin Merged /\ Merged' = Merged \cup {h}
  <2>1. h \notin Merged
    BY <1>3 DEF Merged
  <2>2. ASSUME NEW b \in Backends
        PROVE  (\A j \in 1 .. Len(parts') : parts'[j] # b)
                  <=> \A j \in 1 .. Len(parts) : j # 1 => parts[j] # b
    <3>1. ASSUME NEW j \in 1 .. Len(parts), j # 1
          PROVE  j - 1 \in 1 .. Len(parts') /\ parts'[j - 1] = parts[j]
      BY <1>3, <3>1
    <3>2. ASSUME NEW j \in 1 .. Len(parts')
          PROVE  j + 1 \in 1 .. Len(parts) /\ j + 1 # 1
                    /\ parts'[j] = parts[j + 1]
      BY <1>3
    <3> QED
      BY <3>1, <3>2
  <2> QED
    BY <1>2, <1>3, <1>4, <2>1, <2>2 DEF Merged
<1>6. Folded(acc', Merged', got')
  <2>1. got[h] \in ResponsesOf(h) /\ Folded(acc, Merged, got)
    BY <1>3, <1>4 DEF FoldInv
  <2>2. Merged \in SUBSET Backends
    BY DEF Merged
  <2> QED
    BY <1>1, <1>2, <1>3, <1>5, <2>1, <2>2, FoldedResponse
<1>7. acc'.errs = acc.errs /\ acc'.pending = acc.pending - 1
  BY <1>2 DEF MergeResponse
<1>8. FoldInv'
  BY <1>1, <1>2, <1>6, <1>7 DEF FoldInv
<1>9. ChannelInv'
  <2>1. \A j \in 1 .. Len(parts') : part'[parts'[j]] = "delivered"
    BY <1>2, <1>3 DEF ChannelInv
  <2>2. \A j, l \in 1 .. Len(parts') : parts'[j] = parts'[l] => j = l
    <3> SUFFICES ASSUME NEW j \in 1 .. Len(parts'), NEW l \in 1 .. Len(parts'),
                        parts'[j] = parts'[l]
                 PROVE  j = l
      OBVIOUS
    <3>1. /\ j + 1 \in 1 .. Len(parts) /\ l + 1 \in 1 .. Len(parts)
          /\ parts[j + 1] = parts[l + 1]
      BY <1>3
    <3>2. j + 1 = l + 1
      BY <3>1 DEF ChannelInv
    <3> QED
      BY <3>2
  <2> QED
    BY <1>2, <1>7, <2>1, <2>2 DEF ChannelInv
<1> QED
  BY <1>8, <1>9

\* Sending a response keeps it: the backend had not sent one.
LEMMA DeliverContract ==
    ASSUME CInv, IInv', NEW b \in Backends, Deliver(b)
    PROVE  CInv'
<1> USE DEF CInv
<1>1. /\ part \in [Backends -> PartState] /\ parts \in Seq(Backends)
  BY DEF IInv, TypeOK
<1>2. /\ part[b] = "deliver" /\ part' = [part EXCEPT ![b] = "delivered"]
      /\ parts' = Append(parts, b)
      /\ UNCHANGED <<pc, proxyCount, collected, acc, got, failed>>
  BY DEF Deliver, mergerVars
<1>3. /\ Len(parts') = Len(parts) + 1 /\ Len(parts) \in Nat
      /\ parts'[Len(parts) + 1] = b
      /\ \A j \in 1 .. Len(parts) : parts'[j] = parts[j]
  BY <1>1, <1>2
<1>4. /\ part'[b] = "delivered"
      /\ \A c \in Backends : c # b => part'[c] = part[c]
  BY <1>1, <1>2
<1>5. \A j \in 1 .. Len(parts) : parts[j] # b /\ parts[j] \in Backends
  BY <1>1, <1>2 DEF ChannelInv
<1>6. Merged' = Merged
  BY <1>2, <1>3, <1>4 DEF Merged
<1>7. FoldInv'
  BY <1>2, <1>4, <1>6 DEF FoldInv
<1>8. ChannelInv'
  <2>1. \A j \in 1 .. Len(parts') : part'[parts'[j]] = "delivered"
    BY <1>3, <1>4, <1>5 DEF ChannelInv
  <2>2. \A j, l \in 1 .. Len(parts') : parts'[j] = parts'[l] => j = l
    BY <1>3, <1>5 DEF ChannelInv
  <2>3. /\ \A j \in 1 .. Len(failed) : failed[j] # b /\ failed[j] \in Backends
        /\ \A j \in 1 .. Len(acc.errs) :
              acc.errs[j] # b /\ acc.errs[j] \in Backends
    <3>1. failed \in Seq(Backends) /\ acc.errs \in Seq(Backends)
      BY DEF IInv, TypeOK, Accumulator
    <3> QED
      BY <1>2, <3>1 DEF ChannelInv
  <2> QED
    BY <1>2, <1>4, <2>1, <2>2, <2>3 DEF ChannelInv
<1> QED
  BY <1>7, <1>8

\* Sending an error keeps it.
LEMMA SendErrorContract ==
    ASSUME CInv, IInv', NEW b \in Backends, SendError(b)
    PROVE  CInv'
<1> USE DEF CInv
<1>1. /\ part \in [Backends -> PartState] /\ failed \in Seq(Backends)
      /\ parts \in Seq(Backends) /\ acc.errs \in Seq(Backends)
  BY DEF IInv, TypeOK, Accumulator
<1>2. /\ part[b] = "fail" /\ part' = [part EXCEPT ![b] = "errored"]
      /\ failed' = Append(failed, b)
      /\ UNCHANGED <<pc, proxyCount, collected, acc, got, parts>>
  BY DEF SendError, mergerVars
<1>3. /\ Len(failed') = Len(failed) + 1 /\ Len(failed) \in Nat
      /\ failed'[Len(failed) + 1] = b
      /\ \A j \in 1 .. Len(failed) : failed'[j] = failed[j]
  BY <1>1, <1>2
<1>4. /\ part'[b] = "errored"
      /\ \A c \in Backends : c # b => part'[c] = part[c]
  BY <1>1, <1>2
<1>5. /\ \A j \in 1 .. Len(parts) : parts[j] # b /\ parts[j] \in Backends
      /\ \A j \in 1 .. Len(failed) : failed[j] # b /\ failed[j] \in Backends
      /\ \A j \in 1 .. Len(acc.errs) :
            acc.errs[j] # b /\ acc.errs[j] \in Backends
  <2>1. \A j \in 1 .. Len(parts) : parts[j] # b /\ parts[j] \in Backends
    BY <1>1, <1>2 DEF ChannelInv
  <2>2. \A j \in 1 .. Len(failed) : failed[j] # b /\ failed[j] \in Backends
    BY <1>1, <1>2 DEF ChannelInv
  <2>3. \A j \in 1 .. Len(acc.errs) :
            acc.errs[j] # b /\ acc.errs[j] \in Backends
    BY <1>1, <1>2 DEF ChannelInv
  <2> QED
    BY <2>1, <2>2, <2>3
<1>6. Merged' = Merged
  BY <1>2, <1>4 DEF Merged
<1>7. FoldInv'
  BY <1>2, <1>4, <1>6 DEF FoldInv
<1>8. ChannelInv'
  <2>1. \A j \in 1 .. Len(failed') : part'[failed'[j]] = "errored"
    BY <1>3, <1>4, <1>5 DEF ChannelInv
  <2>2. \A c \in Backends : part'[c] = "errored" =>
           \/ \E j \in 1 .. Len(failed') : failed'[j] = c
           \/ \E j \in 1 .. Len(acc'.errs) : acc'.errs[j] = c
    BY <1>2, <1>3, <1>4 DEF ChannelInv
  <2> QED
    BY <1>2, <1>4, <1>5, <2>1, <2>2 DEF ChannelInv
<1> QED
  BY <1>7, <1>8

\* The return of next() and a late delivery keep it.
LEMMA CallContract ==
    ASSUME CInv, IInv', NEW b \in Backends,
           CallAnswers(b) \/ CallFails(b) \/ DeliverTooLate(b)
    PROVE  CInv'
<1>1. part \in [Backends -> PartState] /\ got \in [Backends -> Response]
  BY DEF CInv, IInv, TypeOK
<1>2. \A c \in Backends : part[c] \in {"deliver", "delivered"}
                              => got[c] \in ResponsesOf(c)
  BY DEF CInv, FoldInv
<1>3. CASE CallAnswers(b)
  <2>1. PICK x \in ResponsesOf(b) : got' = [got EXCEPT ![b] = x]
    BY <1>3 DEF CallAnswers
  <2>2. /\ part[b] = "calling" /\ part' = [part EXCEPT ![b] = "deliver"]
        /\ UNCHANGED <<pc, proxyCount, collected, acc, parts, failed>>
    BY <1>3 DEF CallAnswers, mergerVars
  <2> QED
    BY <1>1, <1>2, <2>1, <2>2, QuietContract
<1>4. CASE CallFails(b) \/ DeliverTooLate(b)
  <2>1. /\ part[b] \in {"calling", "deliver"}
        /\ part' = [part EXCEPT ![b] = "fail"]
        /\ UNCHANGED <<pc, proxyCount, collected, acc, got, parts, failed>>
    BY <1>4 DEF CallFails, DeliverTooLate, mergerVars
  <2> QED
    BY <1>1, <1>2, <2>1, QuietContract
<1> QED
  BY <1>3, <1>4

\* Filtering or launching a backend keeps it.
LEMMA LaunchContract == CInv /\ (Skip \/ Launch) /\ IInv' => CInv'
<1> SUFFICES ASSUME CInv, Skip \/ Launch, IInv' PROVE CInv'
  OBVIOUS
<1>1. /\ part \in [Backends -> PartState] /\ i \in Backends
      /\ part[i] = "none" /\ pc = "launch"
  BY NumBackendsAssumption
     DEF Skip, Launch, CInv, IInv, TypeOK, LaunchInv, Backends
<1>2. /\ \/ part' = [part EXCEPT ![i] = "skipped"]
         \/ part' = [part EXCEPT ![i] = "calling"]
      /\ UNCHANGED <<pc, collected, acc, got, parts, failed>>
  BY DEF Skip, Launch
<1>3. \A b \in Backends : part[b] \in {"deliver", "delivered"}
                              => got[b] \in ResponsesOf(b)
  BY DEF CInv, FoldInv
<1> QED
  BY <1>1, <1>2, <1>3, QuietContract

\* A step that changes neither reports nor goroutines keeps it.
LEMMA StillContract ==
    ASSUME CInv, IInv',
           UNCHANGED <<part, got, parts, failed, acc, collected, proxyCount>>,
           pc' # "launch" => pc # "launch"
    PROVE  CInv'
<1>1. \A b \in Backends : part[b] \in {"deliver", "delivered"}
                              => got[b] \in ResponsesOf(b)
  BY DEF CInv, FoldInv
<1> QED
  BY <1>1, QuietContract

\* Every step keeps it.
LEMMA StepContract == CInv /\ [Next]_vars => CInv'
<1> SUFFICES ASSUME CInv, [Next]_vars PROVE CInv'
  OBVIOUS
<1>1. IInv'
  BY StepInv DEF CInv
<1>2. CASE Return \/ ContextDone \/ Finished \/ UNCHANGED vars
  BY <1>1, <1>2, StillContract
     DEF Return, ContextDone, Finished, vars, mergerVars
<1>3. CASE MergerStep /\ ~Return
  BY <1>1, <1>3, LaunchContract, StartCollectContract, CollectErrorContract,
     CollectResponseContract DEF MergerStep
<1>4. ASSUME NEW b \in Backends, CallReturns(b) \/ PartSends(b)
      PROVE  CInv'
  BY <1>1, <1>4, CallContract, DeliverContract, SendErrorContract
     DEF CallReturns, PartSends
<1> QED
  BY <1>2, <1>3, <1>4 DEF Next

\* What the accumulator stands for, in every reachable state.
THEOREM ContractInvariance == Spec => []CInv
BY InitContract, StepContract, PTL DEF Spec

-----------------------------------------------------------------------------
(* The simulation: every step is a step of the contract, or none.          *)

\* The contract's own copies of the values of MergeAccumulator.
LEMMA ContractValues ==
    /\ Contract!Backends = Backends /\ Contract!Nobody = Nobody
    /\ Contract!NilResponse = NilResponse /\ Contract!NoReply = NoReply
    /\ \A b \in Backends : Contract!ResponsesOf(b) = ResponsesOf(b)
BY DEF Contract!Backends, Backends, Contract!Nobody, Nobody,
       Contract!NilResponse, NilResponse, Contract!NoData, NoData,
       Contract!NoReply, NoReply, Contract!ResponsesOf, ResponsesOf

\* Its own copy of the cardinality of a set, too.
LEMMA ContractCardinality ==
    \A S : Contract!Cardinality(S) = Cardinality(S)
BY DEF Contract!Cardinality, Cardinality

\* The outcome of a backend, as the contract sees it.
LEMMA OutcomeSeen ==
    ASSUME NEW b \in Backends
    PROVE  /\ part[b] = "skipped"   => outcomeBar[b] = Contract!Skipped
           /\ part[b] = "errored"   => outcomeBar[b] = Contract!Failed
           /\ part[b] = "delivered" => outcomeBar[b] = Contract!Answered(got[b])
           /\ part[b] \notin {"skipped", "errored", "delivered"}
                 => outcomeBar[b] = Contract!Pending
BY ContractValues
   DEF outcomeBar, Contract!Skipped, Contract!Failed, Contract!Answered,
       Contract!Pending

\* The same, of the next state.
LEMMA OutcomeSeenNext ==
    ASSUME NEW b \in Backends
    PROVE  /\ part'[b] = "skipped"   => outcomeBar'[b] = Contract!Skipped
           /\ part'[b] = "errored"   => outcomeBar'[b] = Contract!Failed
           /\ part'[b] = "delivered" => outcomeBar'[b] = Contract!Answered(got'[b])
           /\ part'[b] \notin {"skipped", "errored", "delivered"}
                 => outcomeBar'[b] = Contract!Pending
BY ContractValues
   DEF outcomeBar, Contract!Skipped, Contract!Failed, Contract!Answered,
       Contract!Pending

\* The kinds of outcome, and the answers, as the contract sees them.
LEMMA OutcomesSeen ==
    /\ Contract!With("answered") = In({"delivered"})
    /\ Contract!With("failed") = In({"errored"})
    /\ Contract!With("pending")
          = {b \in Backends : part[b] \notin {"skipped", "errored", "delivered"}}
    /\ \A b \in In({"delivered"}) : outcomeBar[b].resp = got[b]
<1>1. \A b \in Backends :
         /\ outcomeBar[b].kind = "answered" <=> part[b] = "delivered"
         /\ outcomeBar[b].kind = "failed" <=> part[b] = "errored"
         /\ outcomeBar[b].kind = "pending"
               <=> part[b] \notin {"skipped", "errored", "delivered"}
         /\ part[b] = "delivered" => outcomeBar[b].resp = got[b]
  <2> TAKE b \in Backends
  <2>1. CASE part[b] \in {"skipped", "errored"}
    BY <2>1, OutcomeSeen DEF Contract!Skipped, Contract!Failed
  <2>2. CASE part[b] = "delivered"
    <3>1. outcomeBar[b] = Contract!Answered(got[b])
      BY <2>2, OutcomeSeen
    <3> QED
      BY <2>2, <3>1 DEF Contract!Answered
  <2>3. CASE part[b] \notin {"skipped", "errored", "delivered"}
    BY <2>3, OutcomeSeen DEF Contract!Pending
  <2> QED
    BY <2>1, <2>2, <2>3
<1> QED
  BY <1>1, ContractValues DEF Contract!With, In

\* A step that settles no backend and does not return is invisible.
LEMMA InvisibleStep ==
    ASSUME \A b \in Backends :
              /\ part'[b] = part[b]
                    \/ {part[b], part'[b]} \cap {"skipped", "errored", "delivered"} = {}
              /\ part[b] = "delivered" => got'[b] = got[b],
           pc' = "returned" <=> pc = "returned", reply' = reply
    PROVE  UNCHANGED Contract!contractVars
<1>1. outcomeBar' = outcomeBar
  <2> DEFINE o(b) == outcomeBar[b]
  <2>1. ASSUME NEW b \in Backends
        PROVE  /\ part'[b] = "skipped" <=> part[b] = "skipped"
               /\ part'[b] = "errored" <=> part[b] = "errored"
               /\ part'[b] = "delivered" <=> part[b] = "delivered"
    OBVIOUS
  <2> QED
    BY <2>1 DEF outcomeBar
<1> QED
  BY <1>1 DEF Contract!contractVars

\* The step of one goroutine, or of the filter, that settles a backend.
LEMMA SettlingStep ==
    ASSUME NEW b \in Backends, part \in [Backends -> PartState],
           part[b] \notin {"skipped", "errored", "delivered"},
           NEW s \in {"skipped", "errored", "delivered"},
           part' = [part EXCEPT ![b] = s],
           s = "delivered" => got[b] \in ResponsesOf(b),
           pc # "returned", UNCHANGED <<pc, got, reply>>
    PROVE  Contract!Settle(b)
<1>1. outcomeBar[b] = Contract!Pending
  BY OutcomeSeen
<1> DEFINE o == IF s = "skipped" THEN Contract!Skipped
                ELSE IF s = "errored" THEN Contract!Failed
                ELSE Contract!Answered(got[b])
<1>2. outcomeBar' = [outcomeBar EXCEPT ![b] = o]
  <2>1. /\ part'[b] = s
        /\ \A c \in Backends : c # b => part'[c] = part[c]
    OBVIOUS
  <2>2. outcomeBar'[b] = o
    BY <2>1, OutcomeSeenNext
  <2>3. \A c \in Backends : c # b => outcomeBar'[c] = outcomeBar[c]
    BY <2>1 DEF outcomeBar
  <2> QED
    BY <2>2, <2>3 DEF outcomeBar
<1>3. o \in {Contract!Skipped, Contract!Failed}
            \cup {Contract!Answered(r) : r \in ResponsesOf(b)}
  OBVIOUS
<1> QED
  BY <1>1, <1>2, <1>3, ContractValues DEF Contract!Settle

\* What is folded when the loop ends is what the outcomes justify.
LEMMA ReplyIsJustified ==
    ASSUME CInv, collected = proxyCount, pc # "launch"
    PROVE  Contract!Justified(Result(acc)) /\ Contract!MayReturn
<1> DEFINE M == In({"delivered"})
<1>1. /\ acc \in Accumulator /\ acc.errs \in Seq(Backends)
      /\ Len(acc.errs) \in Nat /\ proxyCount \in Nat
  BY DEF CInv, IInv, TypeOK, Accumulator
<1>2. /\ \A b \in Backends : part[b] \in {"skipped", "delivered", "errored"}
      /\ Len(parts) = 0 /\ Len(failed) = 0
      /\ Cardinality(In({"errored"})) = Len(acc.errs)
  BY AllReported DEF CInv
<1>3. Contract!With("pending") = {}
  BY <1>2, OutcomesSeen
<1>4. Merged = M /\ M \in SUBSET Backends
  BY <1>2 DEF Merged, In
<1>5. acc.pending = 0 /\ Folded(acc, M, got)
  BY <1>1, <1>4 DEF CInv, FoldInv
<1>6. {acc.errs[j] : j \in DOMAIN acc.errs} = In({"errored"})
  BY <1>1, <1>2 DEF CInv, ChannelInv, In
<1>7. acc.errs = <<>> <=> In({"errored"}) = {}
  <2>1. acc.errs # <<>> => acc.errs[1] \in In({"errored"})
    BY <1>1, <1>6
  <2> QED
    BY <1>1, <1>6, <2>1
<1> DEFINE r == Result(acc)
<1>8. /\ r.has <=> M # {}
      /\ r.errs = acc.errs
      /\ r.data.complete <=>
            /\ M # {} /\ acc.errs = <<>>
            /\ \A b \in M : /\ got[b].complete
                            /\ Cardinality(M) > 1 => got[b].hasMap
      /\ \A k \in Keys : IF OfferedBy(M, got, k) = {}
                         THEN r.data.data[k] = Nobody
                         ELSE r.data.data[k] \in OfferedBy(M, got, k)
      /\ r.data.meta # Nobody => M = {r.data.meta}
  <2>1. acc.pending <= 0
    BY <1>5
  <2>2. acc \in Accumulator
    BY <1>1, <1>5
  <2>3. r = Result(acc) /\ M \in SUBSET Backends /\ Folded(acc, M, got)
    BY <1>4, <1>5
  <2> HIDE DEF r, M
  <2>4. /\ r.has <=> M # {}
        /\ r.errs = acc.errs
        /\ r.data.complete <=>
              /\ M # {} /\ acc.errs = <<>> /\ acc.pending <= 0
              /\ \A b \in M : /\ got[b].complete
                              /\ Cardinality(M) > 1 => got[b].hasMap
        /\ \A k \in Keys : IF OfferedBy(M, got, k) = {}
                           THEN r.data.data[k] = Nobody
                           ELSE r.data.data[k] \in OfferedBy(M, got, k)
        /\ r.data.meta # Nobody => M = {r.data.meta}
    BY <2>2, <2>3, FoldedResult
  <2> QED
    BY <2>1, <2>4, Zenon
<1> HIDE DEF r
<1>9. \A k \in Keys : Contract!Offering(k) = OfferedBy(M, got, k)
  BY OutcomesSeen, ContractValues DEF Contract!Offering, OfferedBy
<1>10. Contract!FullyAnswered <=> r.data.complete
  BY <1>3, <1>7, <1>8, OutcomesSeen, ContractCardinality
     DEF Contract!FullyAnswered
<1>11. Contract!Justified(r)
  BY <1>2, <1>6, <1>8, <1>9, <1>10, OutcomesSeen, ContractValues,
     ContractCardinality
     DEF Contract!Justified
<1> QED
  BY <1>3, <1>11 DEF Contract!MayReturn, r

\* The initial states are initial states of the contract.
LEMMA ContractInitially == Init => Contract!ContractInit
<1> SUFFICES ASSUME Init PROVE Contract!ContractInit
  OBVIOUS
<1>1. \A b \in Backends : outcomeBar[b] = Contract!Pending
  BY OutcomeSeen DEF Init
<1>2. outcomeBar = [b \in Backends |-> Contract!Pending]
  BY <1>1 DEF outcomeBar
<1> QED
  BY <1>2, ContractValues DEF Init, Contract!ContractInit

\* Every step of the merger and its goroutines is one of the contract.
LEMMA ContractStep ==
    CInv /\ [Next]_vars => [Contract!ContractNext]_Contract!contractVars
<1> SUFFICES ASSUME CInv, [Next]_vars
             PROVE  Contract!ContractNext \/ UNCHANGED Contract!contractVars
  OBVIOUS
<1>1. /\ part \in [Backends -> PartState] /\ got \in [Backends -> Response]
  BY DEF CInv, IInv, TypeOK
<1>2. CASE Skip
  <2>1. /\ i \in Backends /\ part[i] = "none"
    BY <1>2, NumBackendsAssumption
       DEF Skip, CInv, IInv, TypeOK, LaunchInv, Backends
  <2>2. Contract!Settle(i)
    BY <1>1, <1>2, <2>1, SettlingStep DEF Skip
  <2> QED
    BY <2>1, <2>2, ContractValues DEF Contract!ContractNext
<1>3. ASSUME NEW b \in Backends, Deliver(b) \/ SendError(b)
      PROVE  Contract!ContractNext
  <2>1. /\ part[b] \in {"deliver", "fail"}
        /\ part[b] = "deliver" => got[b] \in ResponsesOf(b)
    BY <1>3 DEF Deliver, SendError, CInv, FoldInv
  <2>2. pc # "returned"
    BY <2>1, AllSettled DEF CInv
  <2>3. Contract!Settle(b)
    BY <1>1, <1>3, <2>1, <2>2, SettlingStep DEF Deliver, SendError, mergerVars
  <2> QED
    BY <2>3, ContractValues DEF Contract!ContractNext
<1>4. CASE Return
  <2>1. /\ pc = "collect" /\ collected = proxyCount
        /\ reply' = Result(acc) /\ pc' = "returned"
        /\ outcomeBar' = outcomeBar
    BY <1>4 DEF Return, outcomeBar
  <2>2. Contract!Justified(reply') /\ Contract!MayReturn
    BY <2>1, ReplyIsJustified
  <2>3. Contract!Return
    BY <2>1, <2>2 DEF Contract!Return
  <2> QED
    BY <2>3 DEF Contract!ContractNext
<1>5. CASE Launch
  <2>1. i \in Backends /\ part[i] = "none" /\ pc # "returned"
    BY <1>5, NumBackendsAssumption
       DEF Launch, CInv, IInv, TypeOK, LaunchInv, Backends
  <2> QED
    BY <1>1, <1>5, <2>1, InvisibleStep DEF Launch
<1>6. CASE StartCollect \/ CollectError \/ CollectResponse
  BY <1>6, InvisibleStep DEF StartCollect, CollectError, CollectResponse
<1>7. ASSUME NEW b \in Backends,
             CallAnswers(b) \/ CallFails(b) \/ DeliverTooLate(b)
      PROVE  UNCHANGED Contract!contractVars
  <2>1. /\ part[b] \in {"calling", "deliver"}
        /\ \/ part' = [part EXCEPT ![b] = "deliver"]
           \/ part' = [part EXCEPT ![b] = "fail"]
        /\ \A c \in Backends : c # b => got'[c] = got[c]
        /\ UNCHANGED <<pc, reply>>
    BY <1>1, <1>7 DEF CallAnswers, CallFails, DeliverTooLate, mergerVars
  <2> QED
    BY <1>1, <2>1, InvisibleStep
<1>8. CASE ContextDone \/ Finished \/ UNCHANGED vars
  BY <1>8, InvisibleStep DEF ContextDone, Finished, vars, mergerVars
<1> QED
  BY <1>2, <1>3, <1>4, <1>5, <1>6, <1>7, <1>8
     DEF Next, MergerStep, CallReturns, PartSends

(***************************************************************************)
(* parallelMerge implements the merging contract: whatever the number of   *)
(* backends and the order of their reports, the reply is the one the       *)
(* outcomes justify.                                                       *)
(***************************************************************************)
THEOREM Refinement == Spec => ImplementsContract
BY ContractInvariance, ContractInitially, ContractStep, PTL
   DEF Spec, ImplementsContract, Contract!ContractSpec

=============================================================================
