----------------------------- MODULE MCEndpoint ------------------------------
(***************************************************************************)
(* The endpoints Endpoint is checked on: both routers, output encodings    *)
(* that both know, that only gin knows and that neither does (no-op only   *)
(* with a single no-op backend, as the configuration demands), every       *)
(* strategy of static data, with and without modifiers and flatmap.        *)
(***************************************************************************)
EXTENDS Endpoint

\* <<multi, output, encoding>>
OutputEncodings == {<<TRUE, "json", "json">>, <<TRUE, "xml", "string">>,
                    <<FALSE, "json-collection", "json">>, <<FALSE, "no-op", "no-op">>,
                    <<FALSE, "unknown", "no-op">>, <<FALSE, "xml", "string">>}

\* <<requestModifiers, modifiers>>
ModifierLists == {<<<<>>, <<>>>>, <<<<"keep", "fail">>, <<>>>>,
                  <<<<>>, <<"keep", "change">>>>, <<<<>>, <<"keep", "fail">>>>}

EndpointSetups ==
    {[router |-> r, multi |-> e[1], output |-> e[2], encoding |-> e[3], flatmap |-> e[1],
      requestModifiers |-> m[1], modifiers |-> m[2], static |-> s] :
        r \in {"mux", "gin"}, e \in OutputEncodings, m \in ModifierLists, s \in Strategies}

\* Those whose chain looks at the response of the merger.
PanicSetups == {s \in EndpointSetups : s.multi /\ s.static = "off"}
=============================================================================
