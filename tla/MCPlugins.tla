------------------------------ MODULE MCPlugins -------------------------------
(***************************************************************************)
(* Two files, which may register two names, and lists of up to two names.  *)
(***************************************************************************)
EXTENDS Plugins

MCPluginNames == {"x", "y"}

File(outcome, makes, names) == [outcome |-> outcome, makes |-> makes, names |-> names]
Entry(name, on) == [name |-> name, on |-> on]

MCPluginFiles ==
    {File(o, "handler", <<>>) : o \in {"not opened", "no symbol", "unknown type"}}
        \cup {File(o, m, <<Entry("x", on), Entry("y", "response")>>) :
                  o \in {"registers", "panics"}, m \in {"handler", "nothing"},
                  on \in {"request", "response", "both"}}
        \cup {File("registers", "handler", <<Entry("y", on)>>) :
                  on \in {"request", "response", "both"}}
=============================================================================
