----------------------- MODULE MergeAccumulatorProofs -----------------------
(***************************************************************************)
(* What the accumulator of the mergers computes, for any number of backends*)
(* and any keys: the facts about MergeAccumulator that the proofs about    *)
(* ParallelMerge and SequentialMerge share.                                *)
(***************************************************************************)
EXTENDS MergeAccumulator, FiniteSets, FiniteSetTheorems, TLAPS

\* There are NumBackends backends.
LEMMA BackendsCard ==
    IsFiniteSet(Backends) /\ Cardinality(Backends) = NumBackends
BY FS_Interval, NumBackendsAssumption DEF Backends

\* A backend answers with a well-formed response.
LEMMA ResponsesType == \A b \in Backends : ResponsesOf(b) \subseteq Response
<1> TAKE b \in Backends
<1>1. b \in Origin /\ Nobody \in Origin
  BY NumBackendsAssumption DEF Backends, Origin, Nobody
<1> QED
  BY <1>1 DEF ResponsesOf, Response, Data

\* The zero values are well-formed.
LEMMA NilType == NilResponse \in Response /\ NoReply \in Reply
BY NumBackendsAssumption
   DEF NilResponse, NoReply, NoData, Response, Reply, Data, Origin, Nobody

\* Combining keeps responses well-formed and never completes an incomplete one.
LEMMA combineType ==
    ASSUME NEW a \in Response, NEW b \in Response
    PROVE  /\ combineData(a, b) \in Response
           /\ combineData(a, b).complete => a.complete /\ b.complete
           /\ \A k \in Keys : a.data[k] # Nobody
                                 => combineData(a, b).data[k] # Nobody
BY NumBackendsAssumption DEF combineData, Response, Data, Origin, Nobody

\* An accumulator starts well-formed.
LEMMA NewAccType ==
    ASSUME NEW n \in Int
    PROVE  newIncrementalMergeAccumulator(n) \in Accumulator
BY NilType DEF newIncrementalMergeAccumulator, Accumulator

\* Lowering the flag of a response keeps it well-formed.
LEMMA LoweredType ==
    ASSUME NEW r \in Response
    PROVE  [r EXCEPT !.complete = FALSE] \in Response
BY DEF Response

\* The accumulator's operations keep it well-formed.
LEMMA AccType ==
    ASSUME NEW a \in Accumulator
    PROVE  /\ \A b \in Backends : MergeError(a, b) \in Accumulator
           /\ \A r \in Response : MergeResponse(a, r) \in Accumulator
           /\ Result(a) \in Reply
<1>1. /\ a.pending \in Int /\ a.has \in BOOLEAN /\ a.data \in Response
      /\ a.errs \in Seq(Backends)
  BY DEF Accumulator
<1>2. [a.data EXCEPT !.complete = FALSE] \in Response
  BY <1>1, LoweredType
<1>3. ASSUME NEW b \in Backends
      PROVE  MergeError(a, b) \in Accumulator
  BY <1>1, <1>2 DEF MergeError, Accumulator
<1>4. ASSUME NEW r \in Response
      PROVE  MergeResponse(a, r) \in Accumulator
  <2>1. combineData(a.data, r) \in Response
    BY <1>1, combineType
  <2> QED
    BY <1>1, <2>1 DEF MergeResponse, Accumulator
<1>5. Result(a) \in Reply
  BY <1>1, <1>2 DEF Result, Reply
<1> QED
  BY <1>3, <1>4, <1>5

-----------------------------------------------------------------------------
(* What an accumulator stands for.                                         *)

\* The backends of M whose answer has a value for key k.
OfferedBy(M, answer, k) == {b \in M : answer[b].data[k] # Nobody}

(***************************************************************************)
(* The accumulator a has taken the answers of the backends of M, in some   *)
(* order, and the errors it lists.  The order is not part of it: whatever  *)
(* was merged first, the same sets come out.                               *)
(***************************************************************************)
Folded(a, M, answer) ==
    /\ a.has <=> M # {}
    /\ ~a.has => ~a.data.complete /\ ~a.data.hasMap
    /\ a.has => (a.data.hasMap <=> \A b \in M : M = {b} => answer[b].hasMap)
    /\ a.has /\ a.errs = <<>> =>
          (a.data.complete <=>
              \A b \in M : answer[b].complete /\ (M # {b} => answer[b].hasMap))
    /\ \A k \in Keys : IF OfferedBy(M, answer, k) = {}
                       THEN a.data.data[k] = Nobody
                       ELSE a.data.data[k] \in OfferedBy(M, answer, k)
    /\ a.data.meta # Nobody => M = {a.data.meta}

\* A new accumulator has taken nothing.
LEMMA FoldedNew ==
    ASSUME NEW n, NEW answer
    PROVE  Folded(newIncrementalMergeAccumulator(n), {}, answer)
BY DEF Folded, OfferedBy, newIncrementalMergeAccumulator, NilResponse, NoData

\* What was folded does not depend on the answers of the other backends.
LEMMA FoldedSame ==
    ASSUME NEW a, NEW M, NEW f, NEW g, Folded(a, M, f),
           \A b \in M : f[b] = g[b]
    PROVE  Folded(a, M, g)
<1>1. \A k \in Keys : OfferedBy(M, f, k) = OfferedBy(M, g, k)
  BY DEF OfferedBy
<1> QED
  BY <1>1 DEF Folded

\* An error changes the flag only.
LEMMA FoldedError ==
    ASSUME NEW a \in Accumulator, NEW M, NEW answer, NEW e \in Backends,
           Folded(a, M, answer), NEW n, n = MergeError(a, e)
    PROVE  Folded(n, M, answer)
<1>1. a.data \in Response /\ a.errs \in Seq(Backends)
  BY DEF Accumulator
<1>2. /\ n.has = a.has /\ ~n.data.complete
      /\ n.data.hasMap = a.data.hasMap /\ n.data.meta = a.data.meta
      /\ n.data.data = a.data.data
  BY <1>1 DEF MergeError, Response
<1>3. n.errs # <<>>
  BY <1>1 DEF MergeError
<1> QED
  BY <1>2, <1>3 DEF Folded

\* The answer of one more backend, whatever was merged before.
LEMMA FoldedResponse ==
    ASSUME NEW a \in Accumulator, NEW M \in SUBSET Backends, NEW answer,
           NEW h \in Backends, h \notin M, answer[h] \in ResponsesOf(h),
           Folded(a, M, answer),
           NEW n, n = MergeResponse(a, answer[h]), NEW N, N = M \cup {h}
    PROVE  Folded(n, N, answer)
<1> DEFINE x == answer[h]
<1>1. /\ a.has \in BOOLEAN /\ a.data \in Response
      /\ x \in Response /\ x.meta = h
      /\ \A k \in Keys : x.data[k] \in {Nobody, h}
      /\ h # Nobody
  BY ResponsesType, NumBackendsAssumption
     DEF Accumulator, ResponsesOf, Backends, Nobody
<1>2. n.has /\ n.errs = a.errs /\ N # {}
  BY DEF MergeResponse
<1>3. CASE ~a.has
  <2>1. M = {} /\ N = {h} /\ n.data = x
    BY <1>3 DEF Folded, MergeResponse
  <2>2. \A k \in Keys : OfferedBy(N, answer, k)
                           = IF x.data[k] # Nobody THEN {h} ELSE {}
    BY <2>1 DEF OfferedBy
  <2>3. \A k \in Keys : IF OfferedBy(N, answer, k) = {}
                        THEN n.data.data[k] = Nobody
                        ELSE n.data.data[k] \in OfferedBy(N, answer, k)
    BY <1>1, <2>1, <2>2
  <2>4. n.data.meta # Nobody => N = {n.data.meta}
    BY <1>1, <2>1
  <2>5. /\ n.data.hasMap <=> \A b \in N : N = {b} => answer[b].hasMap
        /\ n.data.complete <=>
              \A b \in N : answer[b].complete /\ (N # {b} => answer[b].hasMap)
    BY <2>1
  <2> QED
    BY <1>2, <2>3, <2>4, <2>5 DEF Folded
<1>4. CASE a.has
  <2>1. M # {} /\ \A b \in N : N # {b}
    BY <1>4 DEF Folded
  <2>2. n.data = combineData(a.data, x)
    BY <1>4 DEF MergeResponse
  <2>3. /\ n.data.hasMap /\ n.data.meta = Nobody
        /\ n.data.complete <=>
              a.data.hasMap /\ x.hasMap /\ a.data.complete /\ x.complete
        /\ \A k \in Keys : n.data.data[k] = IF x.data[k] # Nobody THEN x.data[k]
                                                         ELSE a.data.data[k]
    BY <1>1, <2>2 DEF combineData, Response
  <2>4. ASSUME NEW k \in Keys
        PROVE  IF OfferedBy(N, answer, k) = {}
               THEN n.data.data[k] = Nobody
               ELSE n.data.data[k] \in OfferedBy(N, answer, k)
    <3>1. IF OfferedBy(M, answer, k) = {}
          THEN a.data.data[k] = Nobody
          ELSE a.data.data[k] \in OfferedBy(M, answer, k)
      BY DEF Folded
    <3>2. OfferedBy(N, answer, k)
             = OfferedBy(M, answer, k)
                  \cup (IF x.data[k] # Nobody THEN {h} ELSE {})
      BY DEF OfferedBy
    <3> QED
      BY <1>1, <2>3, <3>1, <3>2
  <2>5. n.errs = <<>> =>
           (n.data.complete <=>
              \A b \in N : answer[b].complete /\ (N # {b} => answer[b].hasMap))
    <3> SUFFICES ASSUME a.errs = <<>>
                 PROVE  n.data.complete <=>
                           \A b \in N : answer[b].complete /\ answer[b].hasMap
      BY <1>2, <2>1
    <3>1. /\ a.data.hasMap <=> \A b \in M : M = {b} => answer[b].hasMap
          /\ a.data.complete <=>
               \A b \in M : answer[b].complete /\ (M # {b} => answer[b].hasMap)
      BY <1>4 DEF Folded
    <3>2. a.data.hasMap /\ a.data.complete
             <=> \A b \in M : answer[b].complete /\ answer[b].hasMap
      BY <3>1
    <3> QED
      BY <2>3, <3>2
  <2> QED
    BY <1>2, <2>1, <2>3, <2>4, <2>5 DEF Folded
<1> QED
  BY <1>1, <1>3, <1>4

(***************************************************************************)
(* The reply: present iff some backend answered, complete iff no backend is*)
(* missing or in error and all answers are complete (and mergeable, if     *)
(* there are several), every key with a value of one of those who had one, *)
(* the Metadata and Io of the only one.                                    *)
(***************************************************************************)
LEMMA FoldedResult ==
    ASSUME NEW a \in Accumulator, NEW M \in SUBSET Backends, NEW answer,
           Folded(a, M, answer), NEW r, r = Result(a)
    PROVE  /\ r.has <=> M # {}
           /\ r.errs = a.errs
           /\ r.data.complete <=>
                 /\ M # {} /\ a.errs = <<>> /\ a.pending <= 0
                 /\ \A b \in M : /\ answer[b].complete
                                 /\ Cardinality(M) > 1 => answer[b].hasMap
           /\ \A k \in Keys : IF OfferedBy(M, answer, k) = {}
                              THEN r.data.data[k] = Nobody
                              ELSE r.data.data[k]
                                      \in OfferedBy(M, answer, k)
           /\ r.data.meta # Nobody => M = {r.data.meta}
<1>1. /\ a.data \in Response /\ a.errs \in Seq(Backends) /\ a.pending \in Int
      /\ Len(a.errs) \in Nat /\ (a.errs = <<>> <=> Len(a.errs) = 0)
  BY DEF Accumulator
<1>2. /\ r.has = a.has /\ r.errs = a.errs
      /\ r.data.complete
            <=> a.data.complete /\ a.pending <= 0 /\ a.errs = <<>>
      /\ r.data.data = a.data.data
      /\ r.data.meta = a.data.meta
  BY <1>1 DEF Result, Response
<1>3. \A b \in M : M # {b} <=> Cardinality(M) > 1
  <2> TAKE b \in M
  <2>1. IsFiniteSet(M)
    BY BackendsCard, FS_Subset
  <2>2. Cardinality(M) \in Nat /\ Cardinality(M) # 0
    BY <2>1, FS_CardinalityType, FS_EmptySet
  <2>3. Cardinality(M) = 1 <=> M = {b}
    BY <2>1, FS_Singleton
  <2> QED
    BY <2>2, <2>3
<1>4. r.data.complete <=>
        /\ M # {} /\ a.errs = <<>> /\ a.pending <= 0
        /\ \A b \in M : answer[b].complete /\ (M # {b} => answer[b].hasMap)
  BY <1>2 DEF Folded
<1>5. /\ r.has <=> M # {}
      /\ r.data.meta # Nobody => M = {r.data.meta}
      /\ \A k \in Keys : IF OfferedBy(M, answer, k) = {}
                         THEN r.data.data[k] = Nobody
                         ELSE r.data.data[k] \in OfferedBy(M, answer, k)
  BY <1>2 DEF Folded
<1>6. (\A b \in M : answer[b].complete /\ (M # {b} => answer[b].hasMap))
         <=> \A b \in M : /\ answer[b].complete
                          /\ Cardinality(M) > 1 => answer[b].hasMap
  BY <1>3
<1>7. r.data.complete <=>
        /\ M # {} /\ a.errs = <<>> /\ a.pending <= 0
        /\ \A b \in M : /\ answer[b].complete
                        /\ Cardinality(M) > 1 => answer[b].hasMap
  BY <1>4, <1>6
<1> QED
  BY <1>2, <1>5, <1>7
=============================================================================
