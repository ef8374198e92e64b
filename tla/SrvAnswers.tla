----------------------------- MODULE SrvAnswers -----------------------------
(***************************************************************************)
(* Every DNS SRV answer up to a length, grown one record at a time, to     *)
(* check the operators of SrvRecords on.                                   *)
(***************************************************************************)
EXTENDS SrvRecords

CONSTANTS MaxLen, Hosts, WeightRange, Priorities

ASSUME AnswersAssumption ==
    /\ MaxLen \in Nat
    /\ Hosts \subseteq Nat /\ WeightRange \subseteq Nat /\ Priorities \subseteq Nat

VARIABLE srvs

AnswersInit == srvs = <<>>

\* The next record of the answer.
AddRecord ==
    /\ Len(srvs) < MaxLen
    /\ \E r \in Record(Hosts, WeightRange, Priorities) : srvs' = Append(srvs, r)

\* The answer is as long as it gets.
AnswerEnds == Len(srvs) = MaxLen /\ UNCHANGED srvs

AnswersNext == AddRecord \/ AnswerEnds

AnswersSpec == AnswersInit /\ [][AnswersNext]_srvs

(***************************************************************************)
(* Light zones keep the exact ratios of their weights, in least terms      *)
(* (compact, subscriber.go:170-183).                                       *)
(***************************************************************************)
RatiosAreKept == KeepsRatios(Weights(srvs))

(***************************************************************************)
(* A zone with a positive weight is never scaled down to no host at all    *)
(* (normalize, subscriber.go:186-189).                                     *)
(***************************************************************************)
ZoneIsServed == StillServed(Weights(srvs))

(***************************************************************************)
(* However heavy the weights, the list of instances stays within the scale *)
(* and orders the hosts as their weights do (normalize and compact).       *)
(***************************************************************************)
ListIsModest == /\ ListIsBounded(Weights(srvs))
                /\ HeavierGetsMore(Weights(srvs))

Swapped(s, i) == [s EXCEPT ![i] = s[i + 1], ![i + 1] = s[i]]

(***************************************************************************)
(* The instances do not depend on the order of the records in the answer,  *)
(* which DNS servers rotate (the sort, subscriber.go:134-148): no exchange *)
(* of two neighbours changes them, so no permutation does.                 *)
(***************************************************************************)
OrderDoesNotMatter ==
    \A i \in 1 .. Len(srvs) - 1 : Instances(Swapped(srvs, i)) = Instances(srvs)

(***************************************************************************)
(* Only hosts of the best priority get instances, the rest are a fallback  *)
(* that is not used while the best ones are listed (subscriber.go:154).    *)
(***************************************************************************)
OnlyPreferred ==
    \A h \in ToSet(Instances(srvs)) :
        \E r \in ToSet(srvs) : /\ r.host = h
                               /\ \A q \in ToSet(srvs) : r.priority <= q.priority

(***************************************************************************)
(* The list of instances stands for the zone: same ratios, same order,     *)
(* never empty, never too long, best priority only.                        *)
(***************************************************************************)
InstancesStandForTheZone ==
    /\ RatiosAreKept /\ ZoneIsServed /\ ListIsModest
    /\ OrderDoesNotMatter /\ OnlyPreferred
=============================================================================
