----------------------------- MODULE SrvRecords -----------------------------
(***************************************************************************)
(* From a DNS SRV answer to the list of instances the balancer chooses     *)
(* from (sd/dnssrv/subscriber.go): sort, keep the best priority, scale and *)
(* reduce the weights, repeat each host as many times as its weight.       *)
(* A host (target and port) is a number, ordered as the code orders them.  *)
(***************************************************************************)
EXTENDS Integers, FiniteSets, Sequences, SequencesExt

CONSTANT Scale   \* normalize brings the sum of the weights down to it (100)

ASSUME ScaleAssumption == Scale \in Nat \ {0}

\* net.SRV
Record(Hosts, Weights, Priorities) ==
    [host : Hosts, weight : Weights, priority : Priorities]

\* The orders of a sequence.
Orders(s) == {[i \in DOMAIN s |-> s[f[i]]] : f \in Bijection(DOMAIN s, DOMAIN s)}

\* A sort that forgets the tie break.
BeforeByPriority(a, b) == a.priority < b.priority

\* The order of resolve: priority, then the heavier, then target and port.
Before(a, b) ==
    \/ a.priority < b.priority
    \/ a.priority = b.priority /\ a.weight > b.weight
    \/ a.priority = b.priority /\ a.weight = b.weight /\ a.host < b.host

\* Where a record comes in that order; sort.Slice may exchange those that the
\* order does not tell apart, but they are equal.
Place(srvs, i) ==
    Cardinality({j \in DOMAIN srvs : \/ Before(srvs[j], srvs[i])
                                     \/ ~Before(srvs[i], srvs[j]) /\ j <= i})

Sorted(srvs) == [k \in DOMAIN srvs |-> srvs[CHOOSE i \in DOMAIN srvs : Place(srvs, i) = k]]

\* The records of the best priority, in order: the loop breaks at the first other.
Preferred(srvs) ==
    LET sorted == Sorted(srvs)
        other  == SelectInSeq(sorted, LAMBDA a : a.priority > sorted[1].priority)
    IN  IF other = 0 THEN sorted ELSE SubSeq(sorted, 1, other - 1)

Total(ws) ==
    LET sum[i \in 0 .. Len(ws)] == IF i = 0 THEN 0 ELSE sum[i - 1] + ws[i]
    IN  sum[Len(ws)]

\* normalize
Ceil(ws) == IF Len(ws) > Scale THEN Len(ws) ELSE Scale
Normalize(ws) ==
    IF Total(ws) <= Ceil(ws) THEN ws
    ELSE [i \in DOMAIN ws |-> (ws[i] * Ceil(ws)) \div Total(ws)]

\* The localGCD of gcd: Euclid's algorithm.
localGCD[p \in Nat \X Nat] ==
    IF p[2] = 0 THEN p[1] ELSE localGCD[<<p[2], p[1] % p[2]>>]

\* gcd
Gcd(ws) ==
    LET result[i \in 0 .. Len(ws)] ==
            IF i = 0 THEN 0 ELSE IF i = 1 THEN ws[1] ELSE localGCD[<<result[i - 1], ws[i]>>]
    IN  result[Len(ws)]

\* compact
Compact(ws) ==
    LET tmp == Normalize(ws)
        div == Gcd(tmp)
    IN  IF div < 2 THEN tmp ELSE [i \in DOMAIN tmp |-> tmp[i] \div div]

\* resolve, once the lookup has answered
Instances(srvs) ==
    LET best  == Preferred(srvs)
        times == Compact([i \in DOMAIN best |-> best[i].weight])
    IN  FlattenSeq([i \in DOMAIN best |->
                       [j \in 1 .. times[i] |-> best[i].host]])

-----------------------------------------------------------------------------
(* Properties of the operators                                             *)

Weights(srvs) == [i \in DOMAIN srvs |-> srvs[i].weight]

CommonDivisors(ws) == {d \in 2 .. Total(ws) : \A i \in DOMAIN ws : ws[i] % d = 0}

(***************************************************************************)
(* Light zones (no scaling) keep the exact ratios of their weights, in     *)
(* least terms (subscriber.go:170-183).                                    *)
(***************************************************************************)
KeepsRatios(ws) ==
    Total(ws) <= Scale =>
        LET res == Compact(ws) IN
        /\ \A i, j \in DOMAIN ws : res[i] * ws[j] = res[j] * ws[i]
        /\ CommonDivisors(res) = {}

(***************************************************************************)
(* Scaling never takes all the hosts away: if some weight is positive some *)
(* host keeps an instance, however many hosts there are (the reason the    *)
(* scale grows with the number of records, subscriber.go:186-189); the     *)
(* list is no longer than the scale; and heavier never gets less.          *)
(***************************************************************************)
StillServed(ws) ==
    (\E i \in DOMAIN ws : ws[i] > 0) => (\E i \in DOMAIN ws : Compact(ws)[i] > 0)

ListIsBounded(ws) ==
    Total(Compact(ws)) <= Ceil(ws)

HeavierGetsMore(ws) ==
    \A i, j \in DOMAIN ws : ws[i] <= ws[j] => Compact(ws)[i] <= Compact(ws)[j]
=============================================================================
