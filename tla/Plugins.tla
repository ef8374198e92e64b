------------------------------- MODULE Plugins --------------------------------
(***************************************************************************)
(* From the files of a folder to what a configuration makes of the plugins *)
(* in them.  A loader opens one file after the other and lets each put     *)
(* names into the register (proxy/plugin/modifier.go and the plugin.go of  *)
(* transport/http/client and server).  Then the names that an              *)
(* extra_config requires are looked up: those of the modifiers of a proxy  *)
(* (proxy/plugin.go:45-134), of the executor of a backend                  *)
(* (client/plugin/executor.go) or of the handlers around the server        *)
(* (server/plugin/server.go).                                              *)
(***************************************************************************)
EXTENDS Integers, Sequences, FiniteSets, SequencesExt

CONSTANTS
    PluginNames, \* of plugins
    PluginFiles, \* what a file may be
    MaxFiles,    \* bound on their number
    MaxRequired  \* and on the length of a configuration's list

PluginKinds == {"modifier", "client", "server"}

\* How open ends, for whichever reason; the last after the first name only.
Outcomes == {"not opened", "no symbol", "unknown type", "registers", "panics"}

\* names: what it registers, modifiers for requests, responses or both;
\* makes: what its factories return.
ASSUME PluginFilesAssumption ==
    /\ PluginFiles \subseteq
        [outcome : Outcomes, makes : {"handler", "nothing"},
         names : Seq([name : PluginNames, on : {"request", "response", "both"}])]
    /\ \A file \in PluginFiles : file.outcome = "panics" => file.names # <<>>
ASSUME BoundsAssumption == MaxFiles \in Nat /\ MaxRequired \in Nat

NotAString == "not a string"   \* an entry of the list

VARIABLES
    pluginKind, \* of the plugins, fixed
    files,     \* in the order of the folder, fixed
    required,  \* the list of the configuration, fixed
    pluginsPc, \* "load", "require" or "built"
    position,  \* the file to open, then the entry to look up
    loaded, errors,     \* how many files
    pluginRegister, response, \* the registers, from names to files; the second is
                        \* that of the modifiers of responses
    chain, respModifiers  \* the files whose handlers were taken, in order

pluginsVars == <<pluginKind, files, required, pluginsPc, position, loaded, errors, pluginRegister, response, chain,
                 respModifiers>>

IsRegister(f) == DOMAIN f \subseteq PluginNames /\ \A n \in DOMAIN f : f[n] \in 1 .. Len(files)

PluginsTypeOK ==
    /\ pluginKind \in PluginKinds /\ Len(files) <= MaxFiles
    /\ pluginsPc \in {"load", "require", "built"}
    /\ position \in 1 .. MaxFiles + MaxRequired + 1
    /\ loaded + errors = IF pluginsPc = "load" THEN position - 1 ELSE Len(files)
    /\ IsRegister(pluginRegister) /\ IsRegister(response)
    /\ chain \in Seq(1 .. Len(files)) /\ respModifiers \in Seq(1 .. Len(files))

PluginsInit ==
    /\ pluginKind \in PluginKinds
    /\ files \in UNION {[1 .. n -> PluginFiles] : n \in 0 .. MaxFiles}
    /\ required \in UNION {[1 .. n -> PluginNames \cup {NotAString}] : n \in 0 .. MaxRequired}
    /\ pluginsPc = "load" /\ position = 1 /\ loaded = 0 /\ errors = 0
    /\ pluginRegister = <<>> /\ response = <<>>
    /\ chain = <<>> /\ respModifiers = <<>>

PluginsFixed == UNCHANGED <<pluginKind, files, required>>

-----------------------------------------------------------------------------
(* The loaders                                                             *)

\* The names that come to the register before open returns.
RegisteredBy(file) ==
    CASE file.outcome = "registers" -> file.names
      [] file.outcome = "panics"    -> SubSeq(file.names, 1, 1)
      [] OTHER                      -> <<>>

On(file, places) ==
    {e.name : e \in {d \in ToSet(RegisteredBy(file)) : pluginKind # "modifier" \/ d.on \in places}}

\* A later file replaces the names of an earlier one.
Overwrite(f, names, i) == [n \in DOMAIN f \cup names |-> IF n \in names THEN i ELSE f[n]]

Registering(i) ==
    /\ pluginRegister' = Overwrite(pluginRegister, On(files[i], {"request", "both"}), i)
    /\ response' = IF pluginKind # "modifier" THEN response
                   ELSE Overwrite(response, On(files[i], {"response", "both"}), i)

\* A file that fails and is counted as loaded too.
OpenCountsAll ==
    /\ pluginsPc = "load" /\ position <= Len(files)
    /\ Registering(position)
    /\ loaded' = loaded + 1
    /\ errors' = IF files[position].outcome = "registers" THEN errors ELSE errors + 1
    /\ position' = position + 1
    /\ UNCHANGED <<pluginsPc, chain, respModifiers>> /\ PluginsFixed

\* A loader whose errors keep the file from the count and the next from being
\* registered.
OpenAfterError ==
    /\ pluginsPc = "load" /\ position <= Len(files)
    /\ IF errors = 0 THEN Registering(position) ELSE UNCHANGED <<pluginRegister, response>>
    /\ IF files[position].outcome = "registers" /\ errors = 0
       THEN loaded' = loaded + 1 /\ UNCHANGED errors
       ELSE errors' = errors + 1 /\ UNCHANGED loaded
    /\ position' = position + 1
    /\ UNCHANGED <<pluginsPc, chain, respModifiers>> /\ PluginsFixed

\* One turn of load, with open: an error or a panic costs the file, not the
\* others; what was registered before a panic stays.
Open ==
    /\ pluginsPc = "load" /\ position <= Len(files)
    /\ Registering(position)
    /\ IF files[position].outcome = "registers" THEN loaded' = loaded + 1 /\ UNCHANGED errors
       ELSE errors' = errors + 1 /\ UNCHANGED loaded
    /\ position' = position + 1
    /\ UNCHANGED <<pluginsPc, chain, respModifiers>> /\ PluginsFixed

Loaded ==
    /\ pluginsPc = "load" /\ position > Len(files)
    /\ pluginsPc' = "require" /\ position' = 1
    /\ UNCHANGED <<loaded, errors, pluginRegister, response, chain, respModifiers>> /\ PluginsFixed

-----------------------------------------------------------------------------
(* The names a configuration requires                                      *)

Makes(i) == files[i].makes = "handler"

Requiring == pluginsPc = "require" /\ position <= Len(required)
Required == /\ position' = position + 1
            /\ UNCHANGED <<pluginsPc, loaded, errors, pluginRegister, response>> /\ PluginsFixed

\* newPluginMiddleware: a modifier of requests first, or else one of responses.
RequireModifier ==
    /\ Requiring /\ pluginKind = "modifier"
    /\ LET n == required[position]
       IN  IF n \in DOMAIN pluginRegister
           THEN /\ chain' = IF Makes(pluginRegister[n]) THEN Append(chain, pluginRegister[n]) ELSE chain
                /\ UNCHANGED respModifiers
           ELSE /\ respModifiers' = IF n \in DOMAIN response /\ Makes(response[n])
                                    THEN Append(respModifiers, response[n])
                                    ELSE respModifiers
                /\ UNCHANGED chain
    /\ Required

\* The server's handlers: each one goes around those before it, and one that
\* is not there or fails is left out.
RequireHandler ==
    /\ Requiring /\ pluginKind = "server"
    /\ LET n == required[position]
       IN  chain' = IF n \in DOMAIN pluginRegister /\ Makes(pluginRegister[n])
                    THEN <<pluginRegister[n]>> \o chain ELSE chain
    /\ UNCHANGED respModifiers /\ Required

\* The executor of a backend: one name, and the default one if anything is
\* wrong with it.
RequireExecutor ==
    /\ Requiring /\ pluginKind = "client"
    /\ LET n == required[1]
       IN  chain' = IF Len(required) = 1 /\ n \in DOMAIN pluginRegister /\ Makes(pluginRegister[n])
                    THEN <<pluginRegister[n]>> ELSE <<>>
    /\ UNCHANGED respModifiers /\ Required

Built ==
    /\ pluginsPc = "require" /\ position > Len(required)
    /\ pluginsPc' = "built"
    /\ UNCHANGED <<position, loaded, errors, pluginRegister, response, chain, respModifiers>> /\ PluginsFixed

PluginsFinished == pluginsPc = "built" /\ UNCHANGED pluginsVars

PluginsNext == \/ Open \/ Loaded
               \/ RequireModifier \/ RequireHandler \/ RequireExecutor
               \/ Built \/ PluginsFinished

PluginsSpec == PluginsInit /\ [][PluginsNext]_pluginsVars

-----------------------------------------------------------------------------
(* Properties                                                              *)

(***************************************************************************)
(* A file that fails costs itself: after load every other file is counted  *)
(* and every name is that of the last file that came to register it, even  *)
(* if that file then panicked (modifier.go:118-176 and the loaders of the  *)
(* plugins of the client and the server).                                  *)
(***************************************************************************)
FilesAreAccountedFor ==
    (pluginsPc # "load") =>
        LET Having(n, places) == {i \in 1 .. Len(files) : n \in On(files[i], places)}
            Holds(f, places) == \A n \in PluginNames :
                IF Having(n, places) = {} THEN n \notin DOMAIN f
                ELSE n \in DOMAIN f /\ f[n] = Max(Having(n, places))
        IN  /\ loaded = Cardinality({i \in 1 .. Len(files) : files[i].outcome = "registers"})
            /\ Holds(pluginRegister, {"request", "both"})
            /\ (pluginKind = "modifier") => Holds(response, {"response", "both"})

\* The entries of the list that a register has a working plugin for, and those
\* whose name no plugin has registered for requests.
Working(f) == {k \in DOMAIN required : required[k] \in DOMAIN f /\ Makes(f[required[k]])}
NotForRequests == {k \in DOMAIN required : required[k] \notin DOMAIN pluginRegister}

\* The files of a register for the chosen entries of a list, in its order.
AreInOrder(list, fs, f, chosen) ==
    \E at \in [DOMAIN fs -> chosen] :
        /\ Range(at) = chosen
        /\ \A i, j \in DOMAIN fs : i < j => at[i] < at[j]
        /\ \A i \in DOMAIN fs : fs[i] = f[list[at[i]]]

(***************************************************************************)
(* What is executed is what the list requires and a register has, in the   *)
(* order of the list; the handlers of the server are, from the inside out. *)
(* Of modifiers this holds for one side only: a name that is registered    *)
(* for requests is taken for them and never looked up for responses        *)
(* (plugin.go:61-66), so the response half of a plugin registered for both *)
(* is not executed, though "ResponseModifiers are executed once the        *)
(* response is returned" (plugin.go:18-19, 32-33); and if its modifier for *)
(* requests makes nothing, the plugin is not executed at all               *)
(* (plugin.go:55-73, server.go:56-77).                                     *)
(***************************************************************************)
ChainIsAsListed ==
    (pluginsPc = "built") =>
        CASE pluginKind = "modifier" ->
                 /\ AreInOrder(required, chain, pluginRegister, Working(pluginRegister))
                 /\ AreInOrder(required, respModifiers, response,
                               Working(response) \cap NotForRequests)
          [] pluginKind = "server" ->
                 AreInOrder(required, Reverse(chain), pluginRegister, Working(pluginRegister))
          [] pluginKind = "client" ->
                 IF Len(required) = 1
                 THEN AreInOrder(required, chain, pluginRegister, Working(pluginRegister))
                 ELSE chain = <<>>

(***************************************************************************)
(* Loading and building together: a broken plugin costs nothing but        *)
(* itself, and what the lookup takes of the rest is executed in the order  *)
(* it is listed, the modifiers of responses among those that no plugin     *)
(* has registered for requests.                                            *)
(***************************************************************************)
PluginsAreInOrder == FilesAreAccountedFor /\ ChainIsAsListed
=============================================================================
