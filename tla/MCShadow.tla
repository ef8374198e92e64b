------------------------------ MODULE MCShadow -------------------------------
(***************************************************************************)
(* The endpoints Shadow is checked on: no shadow, shadows only, and        *)
(* shadows before and after a regular backend with the longer deadline     *)
(* first or last, from the endpoint's timeout or from shadow_timeout; one  *)
(* shadow or several, with concurrent calls and without.                   *)
(***************************************************************************)
EXTENDS Shadow

Regular == [shadow |-> FALSE, shadowTimeout |-> NoTimeout]
Slow    == [shadow |-> TRUE,  shadowTimeout |-> NoTimeout]
Patient == [shadow |-> TRUE,  shadowTimeout |-> 3]
Hasty   == [shadow |-> TRUE,  shadowTimeout |-> 0]

EndpointOf(calls, backends) ==
    [timeout |-> 2, concurrentCalls |-> calls, backends |-> backends]

MCEndpoints ==
    {EndpointOf(1, bs) : bs \in {<<Regular>>, <<Slow>>, <<Regular, Patient>>,
                                 <<Slow, Regular, Hasty>>, <<Hasty, Regular, Patient>>}}
        \cup {EndpointOf(2, <<Slow, Regular>>)}
=============================================================================
