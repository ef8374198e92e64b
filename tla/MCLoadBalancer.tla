--------------------------- MODULE MCLoadBalancer ---------------------------
(***************************************************************************)
(* Three hosts; zones with two instances, with a longer list, which is     *)
(* shuffled, and with no usable host.                                      *)
(***************************************************************************)
EXTENDS LoadBalancer

Srv(h, w, p) == [host |-> h, weight |-> w, priority |-> p]

MCZones ==
    {<<Srv(1, 1, 0), Srv(2, 1, 0)>>,
     <<Srv(3, 2, 0), Srv(1, 1, 0)>>,
     <<Srv(2, 0, 0)>>}

NoFixed == <<>>

MCConfigs ==
    {[roundRobin |-> rr, dns |-> TRUE, fixed |-> NoFixed] : rr \in BOOLEAN}
      \cup {[roundRobin |-> rr, dns |-> FALSE, fixed |-> f] :
              rr \in BOOLEAN, f \in {<<>>, <<2>>, <<1, 2, 3>>}}
=============================================================================
