--------------------------- MODULE MergeContract ----------------------------
(***************************************************************************)
(* What the merging middleware promises its caller, whichever merger runs: *)
(* every backend comes to an outcome, and the reply is the one those       *)
(* outcomes determine.  There are no channels, goroutines or accumulators  *)
(* here: ParallelMerge and SequentialMerge are shown to implement it.      *)
(***************************************************************************)
EXTENDS MergeAccumulator, FiniteSets

VARIABLES outcome,   \* [Backends -> Outcome]
          returned,  \* the middleware has returned
          reply      \* what it returned

contractVars == <<outcome, returned, reply>>

Outcome == [kind : {"pending", "skipped", "failed", "answered"},
            resp : Response]

Pending == [kind |-> "pending", resp |-> NilResponse]
Skipped == [kind |-> "skipped", resp |-> NilResponse]
Failed  == [kind |-> "failed",  resp |-> NilResponse]
Answered(r) == [kind |-> "answered", resp |-> r]

With(kind) == {b \in Backends : outcome[b].kind = kind}

-----------------------------------------------------------------------------
\* The backends that answered with a value for key k.
Offering(k) == {b \in With("answered") : outcome[b].resp.data[k] # Nobody}

\* A complete reply vouches for every backend that was not filtered out.
FullyAnswered ==
    /\ With("answered") # {}
    /\ With("failed") = {} /\ With("pending") = {}
    /\ \A b \in With("answered") :
          /\ outcome[b].resp.complete
          /\ Cardinality(With("answered")) > 1 => outcome[b].resp.hasMap

\* r is a reply that the outcomes justify.
Justified(r) ==
    /\ r.has <=> With("answered") # {}
    /\ {r.errs[i] : i \in DOMAIN r.errs} = With("failed")
    /\ Len(r.errs) = Cardinality(With("failed"))
    /\ r.data.complete <=> FullyAnswered
    /\ \A k \in Keys : IF Offering(k) = {} THEN r.data.data[k] = Nobody
                                           ELSE r.data.data[k] \in Offering(k)
    /\ r.data.meta # Nobody => With("answered") = {r.data.meta}

\* The middleware gives up on the backends not tried yet only after a failure
\* or an incomplete answer.
MayReturn ==
    \/ With("pending") = {}
    \/ With("failed") # {}
    \/ \E b \in With("answered") : ~outcome[b].resp.complete

-----------------------------------------------------------------------------
ContractInit ==
    /\ outcome = [b \in Backends |-> Pending]
    /\ returned = FALSE
    /\ reply = NoReply

Settle(b) ==
    /\ outcome[b] = Pending
    /\ ~returned
    /\ \E o \in {Skipped, Failed} \cup {Answered(r) : r \in ResponsesOf(b)} :
          outcome' = [outcome EXCEPT ![b] = o]
    /\ UNCHANGED <<returned, reply>>

Return ==
    /\ ~returned
    /\ MayReturn
    /\ returned' = TRUE
    /\ Justified(reply')
    /\ UNCHANGED outcome

ContractNext == Return \/ \E b \in Backends : Settle(b)

ContractSpec == ContractInit /\ [][ContractNext]_contractVars
=============================================================================
