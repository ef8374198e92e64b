-------------------------- MODULE MergeAccumulator --------------------------
(***************************************************************************)
(* The values that flow through the merging middleware of an endpoint      *)
(* (proxy/merging.go): backend responses, combineData and the              *)
(* incrementalMergeAccumulator that the parallel and the sequential merger *)
(* share.                                                                  *)
(*                                                                         *)
(* A backend is its position in the endpoint's backend list, counted from  *)
(* 1.  The value a response holds under a key is abstracted to the backend *)
(* that produced it, so that "whose value survived" is visible in the      *)
(* state.  An error is abstracted to the backend it stands for.            *)
(***************************************************************************)
EXTENDS Integers, Sequences

CONSTANTS NumBackends,  \* len(endpointConfig.Backend)
          Keys          \* top level keys of the response bodies

\* With one backend the middleware is bypassed (emptyMiddlewareFallback).
ASSUME NumBackendsAssumption == NumBackends \in Nat /\ NumBackends >= 2

Backends == 1 .. NumBackends
Nobody   == 0
Origin   == Nobody .. NumBackends

\* data[k] = Nobody means that the map has no key k.
Data   == [Keys -> Origin]
NoData == [k \in Keys |-> Nobody]

(***************************************************************************)
(* proxy.Response.  hasMap: Data is not the nil map; owner: the backend    *)
(* whose Go map object Data is (Nobody for a nil map and for a map the     *)
(* combiner made); meta: the backend whose Metadata and Io it carries.     *)
(***************************************************************************)
Response == [complete : BOOLEAN, hasMap : BOOLEAN, owner : Origin,
             meta : Origin, data : Data]

NilResponse == [complete |-> FALSE, hasMap |-> FALSE, owner |-> Nobody,
                meta |-> Nobody, data |-> NoData]

\* Everything a call to backend b may answer when it does not fail.
ResponsesOf(b) ==
    {r \in [complete : BOOLEAN, hasMap : BOOLEAN, owner : {Nobody, b},
            meta : {b}, data : [Keys -> {Nobody, b}]] :
        IF r.hasMap THEN r.owner = b ELSE r.owner = Nobody /\ r.data = NoData}

-----------------------------------------------------------------------------
\* A combiner that forgets the completeness of the response merged so far.
combineDataLastComplete(a, b) ==
    [complete |-> a.hasMap /\ b.hasMap /\ b.complete,
     hasMap   |-> TRUE,
     owner    |-> IF a.hasMap THEN a.owner ELSE b.owner,
     meta     |-> Nobody,
     data     |-> [k \in Keys |-> IF b.data[k] # Nobody THEN b.data[k]
                                                        ELSE a.data[k]]]

\* A combiner that keeps the Metadata and Io of the first part.
combineDataKeepMeta(a, b) ==
    [complete |-> a.hasMap /\ b.hasMap /\ a.complete /\ b.complete,
     hasMap   |-> TRUE,
     owner    |-> IF a.hasMap THEN a.owner ELSE b.owner,
     meta     |-> a.meta,
     data     |-> [k \in Keys |-> IF b.data[k] # Nobody THEN b.data[k]
                                                        ELSE a.data[k]]]

(***************************************************************************)
(* combineData(2, [a, b]), the default ResponseCombiner, as the accumulator*)
(* calls it.  A part without a map is left out and makes the result        *)
(* incomplete; the result reuses the map of the first part that has one,   *)
(* or a fresh one; Metadata and Io are not carried over.                   *)
(***************************************************************************)
combineData(a, b) ==
    [complete |-> a.hasMap /\ b.hasMap /\ a.complete /\ b.complete,
     hasMap   |-> TRUE,
     owner    |-> IF a.hasMap THEN a.owner ELSE b.owner,
     meta     |-> Nobody,
     data     |-> [k \in Keys |-> IF b.data[k] # Nobody THEN b.data[k]
                                                        ELSE a.data[k]]]

-----------------------------------------------------------------------------
(***************************************************************************)
(* incrementalMergeAccumulator.  has is "data is not nil".                 *)
(***************************************************************************)
Accumulator == [pending : Int, has : BOOLEAN, data : Response,
                errs : Seq(Backends)]

newIncrementalMergeAccumulator(total) ==
    [pending |-> total, has |-> FALSE, data |-> NilResponse, errs |-> <<>>]

\* Merge(nil, err): an error makes what was merged so far incomplete.
MergeError(acc, err) ==
    [pending |-> acc.pending - 1,
     has     |-> acc.has,
     data    |-> [acc.data EXCEPT !.complete = FALSE],
     errs    |-> Append(acc.errs, err)]

\* Merge(res, nil)
MergeResponse(acc, res) ==
    [pending |-> acc.pending - 1,
     has     |-> TRUE,
     data    |-> IF acc.has THEN combineData(acc.data, res) ELSE res,
     errs    |-> acc.errs]

\* What the merger returns: (response, error), has = FALSE for a nil response
\* and errs = <<>> for a nil error.
Reply   == [has : BOOLEAN, data : Response, errs : Seq(Backends)]
NoReply == [has |-> FALSE, data |-> NilResponse, errs |-> <<>>]

\* A Result that trusts the flag of the data merged so far.
ResultUnchecked(acc) ==
    [has |-> acc.has, data |-> acc.data, errs |-> acc.errs]

\* Result(), with newMergeError
Result(acc) ==
    [has  |-> acc.has,
     data |-> IF acc.pending > 0 \/ Len(acc.errs) > 0
              THEN [acc.data EXCEPT !.complete = FALSE] ELSE acc.data,
     errs |-> acc.errs]
=============================================================================
