---------------------------- MODULE LoadBalancer ----------------------------
(***************************************************************************)
(* The balancers of sd/loadbalancing.go over their two subscribers: the    *)
(* fixed list of hosts of a backend (sd/subscriber.go) and the cached SRV  *)
(* answers of sd/dnssrv/subscriber.go, refreshed by a goroutine of its own *)
(* while the clients (one per request in flight) choose hosts.             *)
(***************************************************************************)
EXTENDS SrvRecords

CONSTANTS
    Clients,
    HostRange,      \* every host there is, a set of positive numbers
    Zones,          \* the states of the DNS zone, sequences of records
    Configs,        \* the balancers built, a subset of Config
    Modulus,        \* of the round robin counter (2^64 in the code)
    ShuffleAbove,   \* longer lists of instances are shuffled (100)
    MaxDraws,       \* bound on the hosts chosen
    MaxChanges      \* bound on the changes of the zone

(***************************************************************************)
(* roundRobin: NewRoundRobinLB, which is what NewBalancer chooses on a     *)
(* single processor, or NewRandomLB.  fixed: the hosts of a fixed          *)
(* subscriber; dns: the subscriber of dnssrv instead.                      *)
(***************************************************************************)
Config == [roundRobin : BOOLEAN, dns : BOOLEAN, fixed : Seq(HostRange)]

ASSUME BalancerAssumption ==
    /\ HostRange \subseteq Nat \ {0}
    /\ Zones \subseteq Seq(Record(HostRange, Nat, Nat)) /\ Zones # {}
    /\ Configs \subseteq Config
    /\ Modulus \in Nat \ {0} /\ ShuffleAbove \in Nat
    /\ MaxDraws \in Nat /\ MaxChanges \in Nat

\* Every answer there is: the servers of DNS rotate the records of a zone.
ZoneAnswers == UNION {Orders(z) : z \in Zones}

\* resolve, and the cache after it: NewRandomFixedSubscriber shuffles long lists.
Resolved == [z \in ZoneAnswers |-> Instances(z)]

Arrangements ==
    [z \in ZoneAnswers |->
        IF Len(Resolved[z]) > ShuffleAbove THEN Orders(Resolved[z]) ELSE {Resolved[z]}]

VARIABLES
    conf,       \* the balancer that was built (never changes)
    cache,      \* the hosts of the subscriber
    zone,       \* what a lookup would answer now
    refresher,  \* pc of the goroutine of NewDetailedWithScheme
    fetched,    \* the answer it is about to store
    counter,    \* of roundRobinLB
    pc,         \* [Clients -> {"idle", "choosing"}]
    hosts,      \* [Clients -> Seq(HostRange)], what hosts() returned
    reply,      \* Reply, of the last Host() of any client
    \* history:
    stored,     \* {the hosts of the last answer stored}
    seen,       \* [Clients -> SUBSET SUBSET HostRange], those of the answers
                \* that were the last one stored at some moment of the call
    draws,      \* how many hosts were chosen
    turns,      \* [HostRange -> Nat], how often each was, see Counted
    wraps,      \* how often the counter wrapped
    changes     \* of the zone

vars == <<conf, cache, zone, refresher, fetched, counter, pc, hosts, reply,
          stored, seen, draws, turns, wraps, changes>>
dnsVars    == <<cache, zone, refresher, fetched, stored, changes>>
clientVars == <<counter, pc, hosts, reply, draws, turns, wraps>>

NoHost == 0
Reply  == [kind : {"none", "host", "ErrNoHosts", "panic"},
           host : HostRange \cup {NoHost}, answers : SUBSET SUBSET HostRange]

TypeOK ==
    /\ conf \in Configs
    /\ cache \in Seq(HostRange)
    /\ zone \in Zones
    /\ refresher \in {"none", "sleep", "lookup", "store"}
    /\ fetched \in ZoneAnswers \cup {<<>>}
    /\ counter \in 0 .. Modulus - 1
    /\ pc \in [Clients -> {"idle", "choosing"}]
    /\ hosts \in [Clients -> Seq(HostRange)]
    /\ \A c \in Clients : pc[c] = "choosing" => hosts[c] # <<>>
    /\ reply \in Reply
    /\ seen \in [Clients -> SUBSET SUBSET HostRange]
    /\ draws + Cardinality({c \in Clients : pc[c] = "choosing"}) <= MaxDraws
    /\ turns \in [HostRange -> 0 .. MaxDraws]
    /\ wraps \in Nat /\ changes \in 0 .. MaxChanges

\* nopBalancer: a single fixed host needs no balancing.
Nop == ~conf.dns /\ Len(conf.fixed) = 1

\* Where the counter of a new roundRobinLB may start.
Starts == IF conf.roundRobin /\ ~conf.dns /\ Len(conf.fixed) > 1
          THEN {i % Modulus : i \in 0 .. Len(conf.fixed) - 1} ELSE {0}

(***************************************************************************)
(* NewDetailedWithScheme updates the cache once before it returns; if that *)
(* lookup fails the cache stays empty.                                     *)
(***************************************************************************)
Init ==
    /\ conf \in Configs
    /\ zone \in Zones
    /\ IF conf.dns
       THEN /\ refresher = "sleep"
            /\ \/ cache = <<>> /\ stored = {}
               \/ cache \in Arrangements[zone] /\ stored = {ToSet(Resolved[zone])}
       ELSE /\ refresher = "none" /\ cache = conf.fixed /\ stored = {}
    /\ fetched = <<>>
    /\ counter \in Starts
    /\ pc = [c \in Clients |-> "idle"]
    /\ hosts = [c \in Clients |-> <<>>]
    /\ reply = [kind |-> "none", host |-> NoHost, answers |-> {}]
    /\ seen = [c \in Clients |-> {}]
    /\ draws = 0 /\ turns = [h \in HostRange |-> 0]
    /\ wraps = 0 /\ changes = 0

-----------------------------------------------------------------------------
(* The zone and the refresher.                                             *)

ZoneChanges ==
    /\ conf.dns /\ changes < MaxChanges
    /\ zone' \in Zones \ {zone}
    /\ changes' = changes + 1
    /\ UNCHANGED <<conf, cache, refresher, fetched, stored, seen, clientVars>>

\* time.After(s.ttl)
Wake ==
    /\ refresher = "sleep"
    /\ refresher' = "lookup"
    /\ UNCHANGED <<conf, cache, zone, fetched, stored, changes, seen, clientVars>>

\* The zone as it is now, in any order.
LookupAnswers ==
    /\ refresher = "lookup"
    /\ refresher' = "store"
    /\ fetched' \in Orders(zone)
    /\ UNCHANGED <<conf, cache, zone, stored, changes, seen, clientVars>>

\* An error that ends the refresher.
LookupFailsForGood ==
    /\ refresher = "lookup"
    /\ refresher' = "none"
    /\ UNCHANGED <<conf, cache, zone, fetched, stored, changes, seen, clientVars>>

\* update returns early: the cache is kept.
LookupFails ==
    /\ refresher = "lookup"
    /\ refresher' = "sleep"
    /\ UNCHANGED <<conf, cache, zone, fetched, stored, changes, seen, clientVars>>

\* update replaces the cache under the lock.
Store ==
    /\ refresher = "store"
    /\ refresher' = "sleep"
    /\ cache' \in Arrangements[fetched]
    /\ stored' = {ToSet(Resolved[fetched])}
    /\ seen' = [c \in Clients |-> IF pc[c] = "choosing" THEN seen[c] \cup stored'
                                                        ELSE seen[c]]
    /\ fetched' = <<>>
    /\ UNCHANGED <<conf, zone, changes, clientVars>>

-----------------------------------------------------------------------------
(* A client.                                                               *)

Pending == Cardinality({c \in Clients : pc[c] = "choosing"})

\* The turns are those of a round robin over the first zone.
Counted == conf.roundRobin /\ changes = 0

\* A balancer that does not look whether there are hosts.
TakeHostsUnchecked(c) ==
    /\ pc[c] = "idle" /\ ~Nop /\ draws + Pending < MaxDraws
    /\ pc' = [pc EXCEPT ![c] = "choosing"]
    /\ hosts' = [hosts EXCEPT ![c] = cache]
    /\ seen' = [seen EXCEPT ![c] = stored]
    /\ UNCHANGED <<conf, dnsVars, counter, reply, draws, turns, wraps>>

\* hosts(): a copy of the cache taken under the read lock, or ErrNoHosts.
TakeHosts(c) ==
    /\ pc[c] = "idle" /\ ~Nop /\ draws + Pending < MaxDraws
    /\ IF cache = <<>>
       THEN /\ reply' = [kind |-> "ErrNoHosts", host |-> NoHost, answers |-> stored]
            /\ UNCHANGED <<pc, hosts, seen>>
       ELSE /\ pc' = [pc EXCEPT ![c] = "choosing"]
            /\ hosts' = [hosts EXCEPT ![c] = cache]
            /\ seen' = [seen EXCEPT ![c] = stored]
            /\ UNCHANGED reply
    /\ UNCHANGED <<conf, dnsVars, counter, draws, turns, wraps>>

\* The host at an offset of a list; Go panics if there is none.
Give(c, list, offset) ==
    /\ draws' = draws + 1
    /\ IF offset < Len(list)
       THEN LET h == list[offset + 1] IN
            /\ reply' = [kind |-> "host", host |-> h, answers |-> seen[c]]
            /\ turns' = IF Counted THEN [turns EXCEPT ![h] = @ + 1] ELSE turns
       ELSE /\ reply' = [kind |-> "panic", host |-> NoHost, answers |-> seen[c]]
            /\ UNCHANGED turns

Chosen(c) ==
    /\ pc' = [pc EXCEPT ![c] = "idle"]
    /\ hosts' = [hosts EXCEPT ![c] = <<>>]
    /\ seen' = [seen EXCEPT ![c] = {}]
    /\ UNCHANGED <<conf, dnsVars>>

\* A counter that is read and written apart: another client's turn is lost.
RoundRobinNotAtomic(c) ==
    /\ pc[c] = "choosing" /\ conf.roundRobin
    /\ counter' \in {counter, (counter + 1) % Modulus}
    /\ wraps' = IF counter = Modulus - 1 THEN wraps + 1 ELSE wraps
    /\ Give(c, hosts[c], counter % Len(hosts[c]))
    /\ Chosen(c)

\* An offset into the cache as it is now.
RoundRobinFresh(c) ==
    /\ pc[c] = "choosing" /\ conf.roundRobin
    /\ counter' = (counter + 1) % Modulus
    /\ wraps' = IF counter = Modulus - 1 THEN wraps + 1 ELSE wraps
    /\ Give(c, cache, counter % Len(hosts[c]))
    /\ Chosen(c)

\* roundRobinLB.Host, after hosts()
RoundRobin(c) ==
    /\ pc[c] = "choosing" /\ conf.roundRobin
    /\ counter' = (counter + 1) % Modulus
    /\ wraps' = IF counter = Modulus - 1 THEN wraps + 1 ELSE wraps
    /\ Give(c, hosts[c], counter % Len(hosts[c]))
    /\ Chosen(c)

\* randomLB.Host, after hosts()
Random(c) ==
    /\ pc[c] = "choosing" /\ ~conf.roundRobin
    /\ \E offset \in 0 .. Len(hosts[c]) - 1 : Give(c, hosts[c], offset)
    /\ UNCHANGED <<counter, wraps>>
    /\ Chosen(c)

\* nopBalancer.Host
NopHost(c) ==
    /\ Nop /\ draws < MaxDraws
    /\ Give(c, conf.fixed, 0)
    /\ UNCHANGED <<conf, dnsVars, counter, pc, hosts, seen, wraps>>

-----------------------------------------------------------------------------
\* The bound on the draws is reached.
Finished == draws = MaxDraws /\ UNCHANGED vars

ClientStep(c) == TakeHosts(c) \/ RoundRobin(c) \/ Random(c) \/ NopHost(c)

Next ==
    \/ ZoneChanges \/ Wake \/ LookupAnswers \/ LookupFails \/ Store
    \/ \E c \in Clients : ClientStep(c)
    \/ Finished

(***************************************************************************)
(* The refresher is scheduled, the clients that chose go on, and a lookup  *)
(* that is tried again and again is answered at last.                      *)
(***************************************************************************)
Fairness ==
    /\ WF_vars(Wake) /\ WF_vars(Store)
    /\ WF_vars(LookupAnswers \/ LookupFails)
    /\ SF_vars(LookupAnswers)

Spec == Init /\ [][Next]_vars /\ Fairness

-----------------------------------------------------------------------------
(* Properties                                                              *)

(***************************************************************************)
(* No offset is out of range, even if the subscriber replaced its list by  *)
(* a shorter one since its length was read (loadbalancing.go:56-61, the    *)
(* copy of subscriber.go:107).                                             *)
(***************************************************************************)
NoPanic == reply.kind # "panic"

(***************************************************************************)
(* A host that is returned, and the lack of hosts, come from an answer of  *)
(* the DNS that was the latest one stored at some moment of that call:     *)
(* failed lookups take nothing away (subscriber.go:114-116) and nothing    *)
(* older is served.                                                        *)
(***************************************************************************)
RepliesAreCurrent ==
    /\ (conf.dns /\ reply.kind = "host") =>
          reply.host \in UNION reply.answers
    /\ (conf.dns /\ reply.kind = "ErrNoHosts") =>
          reply.answers \subseteq {{}}

(***************************************************************************)
(* Whatever the subscriber does between two steps of a call, the call ends *)
(* with a host or ErrNoHosts that the zone justified meanwhile.            *)
(***************************************************************************)
RepliesAreSound == NoPanic /\ RepliesAreCurrent

\* How often a host is in the list, and the ceiling of a quotient.
Copies(h)    == Cardinality({i \in DOMAIN cache : cache[i] = h})
Ceiling(m, n) == (m + n - 1) \div n

(***************************************************************************)
(* With round robin every host gets its share of the turns, whatever the   *)
(* clients' interleaving and even if the cache was refreshed with a rotated*)
(* answer in between, as long as the zone is the same and its list is not  *)
(* shuffled: full rounds and at most one that is under way, and one more   *)
(* for each time the counter wrapped (loadbalancing.go:60).                *)
(***************************************************************************)
SharesAreFair ==
    (Counted /\ cache # <<>>
       /\ (conf.dns => Len(cache) <= ShuffleAbove)) =>
        \A h \in HostRange :
            /\ turns[h] >= (draws \div Len(cache) - wraps) * Copies(h)
            /\ turns[h] <= (Ceiling(draws, Len(cache)) + wraps) * Copies(h)

(***************************************************************************)
(* Once the zone is stable the cache becomes its instances and stays so,   *)
(* although lookups may fail many times (subscriber.go:76-81, 112-126).    *)
(***************************************************************************)
CacheFollowsZone ==
    <>[](conf.dns => cache \in Arrangements[zone])
=============================================================================
